------------------------------- MODULE Quests -------------------------------
(***************************************************************************)
(* The quests of one player: QuestManager and PlayerInventoryStore in      *)
(* SimulationCore, MetaDB with the tables that a player's quests touch,    *)
(* and what the router carries between the two.  (Both sides keep every    *)
(* table per player id, and no step touches two players.)                  *)
(*                                                                         *)
(*   prog     progress_: a quest absent from it has not been seeded        *)
(*   eras     completedEras_                                               *)
(*   inv      PlayerInventoryStore's slots                                 *)
(*   toMeta   SimulationCore -> MetaDB: "get" (meta_db.quest.get), "done"  *)
(*            (quest.completed), "set" (one slot of meta_db.inventory.set) *)
(*   toSim    MetaDB -> SimulationCore: "progress" (the quests of          *)
(*            meta_db.quest.get.response), "load" (player.inventory.load)  *)
(*            The router keeps the order within a priority class only: the *)
(*            inventory topics are PrioNormal, the quest topics PrioLow.   *)
(*   up       MetaDB is connected                                          *)
(*   db       MetaDB's file, a record:                                     *)
(*     rows      inventory: slot -> [id, n]; a slot may have no row        *)
(*     pending   player_quest_rewards with redeemed = 0, counted per quest *)
(*     redeemed  player_quest_rewards with redeemed = 1, counted per quest *)
(*     done      the quests quest_progress holds as COMPLETED              *)
(*     expires   quest_exchange_cooldowns, per quest                       *)
(*                                                                         *)
(* What other publishers send (the client's requests through the gateway,  *)
(* crafts, block events) keeps no order with either queue, so it is taken  *)
(* at any time; player.joined goes to both processes at once and each      *)
(* takes its copy when it comes to it.                                     *)
(***************************************************************************)
EXTENDS Integers, FiniteSets, Sequences, SequencesExt, FiniteSetsExt, Functions

CONSTANTS
    Quests,         \* quests, numbered in the order of QuestData::AllQuests()
    Prereqs,        \* per quest
    EraOf,          \* per quest
    DetectType,     \* per quest: "craft", "inventory" or "exchange"
    Target,         \* per quest: the item detected
    AutoComplete,   \* the quests with autoComplete
    Reward, Cost,   \* per quest: [id, n]; Cost is NoItem where nothing is exchanged
    Cooldown,       \* CooldownSecs of the exchange quests
    SlotCount,      \* inventorySlotCount, kInventorySlots
    Stack,          \* maxStackSize, kMaxStack
    Items,          \* the items the player crafts or finds
    MaxMoves,       \* bound on the joins, gifts and seconds together
    MaxQueue,       \* SimulationCore publishes while fewer messages wait
    MaxFaults       \* bound on the restarts, crashes and SQL errors together

\* What a reward or a cost can be; item 0 is no item.
Goods == {v \in [id : Nat, n : Nat] : v.id = 0 => v.n = 0}

ASSUME QuestAssumption == IsFiniteSet(Quests) /\ Quests = 1 .. Cardinality(Quests)
ASSUME SlotAssumption == SlotCount \in Nat \ {0} /\ Stack \in Nat \ {0}
ASSUME ItemAssumption ==
    /\ Items \subseteq Nat \ {0}
    /\ Reward \in [Quests -> Goods] /\ Cost \in [Quests -> Goods]
ASSUME CooldownAssumption == Cooldown \in Nat

VARIABLES prog, eras, inv, toMeta, toSim, db, up, now,
          joinSim, joinMeta,    \* copies of player.joined under way
          joins, gives,         \* how often the player joined, and was given an item
          restarts, crashes,    \* faults so far: either process died,
          sqlErrors, writeErrors        \* a reward could not be stored; only a later statement failed

vars == <<prog, eras, inv, toMeta, toSim, db, up, now, joinSim, joinMeta, joins, gives,
          restarts, crashes, sqlErrors, writeErrors>>
simVars == <<prog, eras, inv>>
metaVars == <<db, up, now>>
joinVars == <<joinSim, joinMeta, joins>>
faultVars == <<restarts, crashes, sqlErrors, writeErrors>>

Faults == restarts + crashes + sqlErrors + writeErrors
Moves == joins + gives + now

Eras == {EraOf[q] : q \in Quests}
Status(pr, q) == IF q \in DOMAIN pr THEN pr[q] ELSE "absent"
LowTopics == {"get", "done", "progress"}
First(queue, t) == SelectInSeq(queue, LAMBDA m : (m.t \in LowTopics) = (t \in LowTopics))
Waits(queue, t) == First(queue, t) > 0 /\ queue[First(queue, t)].t = t
Msg(queue, t) == queue[First(queue, t)]
Without(queue, t) == RemoveAt(queue, First(queue, t))
Completed(pr) == {q \in DOMAIN pr : pr[q] = "COMPLETED"}
With(pr, q, s) == [r \in DOMAIN pr \cup {q} |-> IF r = q THEN s ELSE pr[r]]
\* A loop over 1 .. n that carries acc.
Walk(op(_, _), acc, n) ==
    LET after[k \in 0 .. n] == IF k = 0 THEN acc ELSE op(after[k - 1], k) IN after[n]
-----------------------------------------------------------------------------
(***************************************************************************)
(* The statements MetaDB's handlers run.  Every operator gives the         *)
(* database after they have been committed; a transaction that rolls back  *)
(* gives the database it began with.                                       *)
(***************************************************************************)
NoItem == [id |-> 0, n |-> 0]
Slots == 0 .. SlotCount - 1

\* What a SELECT or a positional message finds for a slot.
Held(rows, s) == IF s \in DOMAIN rows THEN rows[s] ELSE NoItem
Amount(rows, i, s) == IF Held(rows, s).id = i THEN Held(rows, s).n ELSE 0
OverSlots(op(_, _), acc) == Walk(LAMBDA a, k : op(a, k - 1), acc, SlotCount)
Count(rows, i) == OverSlots(LAMBDA sum, s : sum + Amount(rows, i, s), 0)
UpdateInventorySlot(rows, s, v) == [t \in DOMAIN rows \cup {s} |-> IF t = s THEN v ELSE rows[t]]
Emptied(rows, s) == [t \in DOMAIN rows \ {s} |-> rows[t]]

Smaller(a, b) == IF a < b THEN a ELSE b

\* Step 1 of grantItemToInventory(): the partial stacks of the item are filled
\* (lowest slot first; the code ranges over a Go map, and which partial stack
\* is filled first changes no count of items).
FillPartial(acc, s) ==
    LET v == Held(acc.rows, s)
        add == Smaller(Stack - v.n, acc.left) IN
    IF v.id = acc.id /\ v.n > 0 /\ v.n < Stack /\ add > 0
    THEN [acc EXCEPT !.rows = UpdateInventorySlot(@, s, [id |-> v.id, n |-> v.n + add]), !.left = @ - add]
    ELSE acc
\* Step 2: the remainder goes to slots without a row or with block_id 0.
FillEmpty(acc, s) ==
    LET add == Smaller(Stack, acc.left) IN
    IF Held(acc.rows, s).id = 0 /\ add > 0
    THEN [acc EXCEPT !.rows = UpdateInventorySlot(@, s, [id |-> acc.id, n |-> add]), !.left = @ - add]
    ELSE acc

\* grantItemToInventory(): the rows afterwards, and what did not fit.  The
\* callers run it in a transaction that they roll back if anything is left.
grantItemToInventory(rows, v) ==
    OverSlots(FillEmpty, OverSlots(FillPartial, [rows |-> rows, id |-> v.id, left |-> v.n]))

StorePlayerQuestReward(d, q) == [d EXCEPT !.pending[q] = @ + 1]

\* RedeemPlayerQuestReward(), for the row grantStoredQuestReward() finds: the
\* grant and the mark are one transaction.
RedeemPlayerQuestReward(d, q) ==
    LET g == grantItemToInventory(d.rows, Reward[q]) IN
    IF d.pending[q] = 0 \/ g.left > 0 THEN d
    ELSE [d EXCEPT !.rows = g.rows, !.pending[q] = @ - 1, !.redeemed[q] = @ + 1]

SetQuestProgress(d, q) == [d EXCEPT !.done = @ \cup {q}]

\* The deduction of HandleQuestExchangeRequest(): the cost is taken from the
\* slots in order, and a slot that becomes empty loses its row.
TakeCost(acc, s) ==
    LET v == Held(acc.rows, s)
        take == Smaller(v.n, acc.left) IN
    IF v.id # acc.id \/ take = 0 THEN acc
    ELSE [acc EXCEPT !.left = @ - take,
                     !.rows = IF take = v.n THEN Emptied(@, s)
                              ELSE UpdateInventorySlot(@, s, [id |-> v.id, n |-> v.n - take])]

\* HandleQuestExchangeRequest(): one transaction, rolled back when the cost is
\* not there, when the cooldown has not passed or when the reward does not fit.
\* Mutant: what fits of the reward is kept.
exchangesPartly(d, q, clock) ==
    LET paid == OverSlots(TakeCost, [rows |-> d.rows, id |-> Cost[q].id, left |-> Cost[q].n])
        g == grantItemToInventory(paid.rows, Reward[q])
    IN  IF Cost[q] = NoItem \/ d.expires[q] > clock \/ paid.left > 0 THEN d
        ELSE [d EXCEPT !.rows = g.rows, !.expires[q] = clock + Cooldown, !.redeemed[q] = @ + 1]
HandleQuestExchangeRequest(d, q, clock) ==
    LET paid == OverSlots(TakeCost, [rows |-> d.rows, id |-> Cost[q].id, left |-> Cost[q].n])
        g == grantItemToInventory(paid.rows, Reward[q])
    IN  IF Cost[q] = NoItem \/ d.expires[q] > clock \/ paid.left > 0 \/ g.left > 0 THEN d
        ELSE [d EXCEPT !.rows = g.rows, !.expires[q] = clock + Cooldown, !.redeemed[q] = @ + 1]

\* HandleQuestCompleted(), statement by statement: what the file holds when
\* the process has run the first k of them.  fails are those that return an
\* error, which is logged; a reward that was not stored is not redeemed.
Statements == {"store", "redeem", "progress"}
Failures == {fails \in SUBSET Statements : fails # {} /\ ~({"store", "redeem"} \subseteq fails)}
\* Mutant: the progress is written first.
progressFirst(d, q, k, fails) ==
    LET d1 == IF k >= 1 /\ "progress" \notin fails THEN SetQuestProgress(d, q) ELSE d
        d2 == IF k >= 2 /\ "store" \notin fails THEN StorePlayerQuestReward(d1, q) ELSE d1
    IN  IF k >= 3 /\ {"store", "redeem"} \cap fails = {} THEN RedeemPlayerQuestReward(d2, q) ELSE d2
HandleQuestCompleted(d, q, k, fails) ==
    LET d1 == IF k >= 1 /\ "store" \notin fails THEN StorePlayerQuestReward(d, q) ELSE d
        d2 == IF k >= 2 /\ {"store", "redeem"} \cap fails = {} THEN RedeemPlayerQuestReward(d1, q) ELSE d1
    IN  IF k >= 3 /\ "progress" \notin fails THEN SetQuestProgress(d2, q) ELSE d2

\* A new file: initSchema().
EmptyDb == [rows |-> << >>, pending |-> [q \in Quests |-> 0], redeemed |-> [q \in Quests |-> 0],
            done |-> {}, expires |-> [q \in Quests |-> 0]]
-----------------------------------------------------------------------------
(***************************************************************************)
(* QuestGraph.                                                             *)
(***************************************************************************)
CanComplete(q, pr) == Prereqs[q] \subseteq Completed(pr)
NewlyAvailable(pr) == {q \in DOMAIN pr : pr[q] = "LOCKED" /\ CanComplete(q, pr)}
BuildQuestEraMap == {q \in Quests : DetectType[q] # "exchange"}
\* Mutant: only the quests found in the player's progress can fail the era.
walksProgress(e, pr) == \A q \in BuildQuestEraMap \cap DOMAIN pr : EraOf[q] = e => pr[q] = "COMPLETED"
IsEraComplete(e, pr) == \A q \in BuildQuestEraMap : EraOf[q] = e => Status(pr, q) = "COMPLETED"
-----------------------------------------------------------------------------
(***************************************************************************)
(* QuestManager.  Its state and what a call publishes to MetaDB go through *)
(* a call as the record [prog, eras, out].                                 *)
(***************************************************************************)
unlockNewlyAvailable(pr) == [q \in DOMAIN pr |-> IF q \in NewlyAvailable(pr) THEN "AVAILABLE" ELSE pr[q]]

maybePublishEraTransition(m, q) ==
    IF IsEraComplete(EraOf[q], m.prog) THEN [m EXCEPT !.eras = @ \cup {EraOf[q]}] ELSE m

completeQuestInternal(m, q) ==
    LET m1 == maybePublishEraTransition([m EXCEPT !.prog = With(@, q, "COMPLETED")], q)
    IN  IF Status(m.prog, q) = "COMPLETED" THEN m
        ELSE [m1 EXCEPT !.prog = unlockNewlyAvailable(@), !.out = Append(@, [t |-> "done", q |-> q])]

handleQuestMet(m, q) ==
    IF q \in AutoComplete THEN completeQuestInternal(m, q)
    ELSE IF Status(m.prog, q) \in {"absent", "LOCKED"}
    THEN [m EXCEPT !.prog = With(@, q, "AVAILABLE")] ELSE m

\* A detection walks the quests in order; one it completes may satisfy the
\* prerequisites of a later one.
\* Mutant: the prerequisites are not looked at.
metWhateverBefore(m, q) == handleQuestMet(m, q)
MetIfReady(m, q) == IF CanComplete(q, m.prog) THEN handleQuestMet(m, q) ELSE m
Detected(m, met) ==
    Walk(LAMBDA a, q : IF q \in met THEN MetIfReady(a, q) ELSE a, m, Cardinality(Quests))

QM == [prog |-> prog, eras |-> eras, out |-> << >>]
ToMeta(out) == toMeta' = IF up THEN toMeta \o out ELSE toMeta
Becomes(m) == /\ prog' = m.prog
              /\ eras' = m.eras
              /\ ToMeta(m.out)
Room == Len(toMeta) < MaxQueue

\* checkCraftCompletion(); checkBlockAction(), checkToolCharged(),
\* checkSideConfigured() and checkMachineOutput() are the same walk over the
\* quests of another detectType.
checkCraftCompletion(i) ==
    /\ Room
    /\ Becomes(Detected(QM, {q \in Quests : DetectType[q] = "craft" /\ Target[q] = i}))
    /\ UNCHANGED <<inv, toSim, metaVars, joinVars, gives, faultVars>>

\* quest.book.open: checkInventory() with the slots of the store; targetCount
\* is the reward-side count 1.
checkInventory ==
    /\ Room
    /\ Becomes(Detected(QM, {q \in Quests : DetectType[q] = "inventory" /\ Count(inv, Target[q]) > 0}))
    /\ UNCHANGED <<inv, toSim, metaVars, joinVars, gives, faultVars>>

\* quest.complete.request.
completeQuest(q) ==
    /\ Room
    /\ DetectType[q] # "exchange"
    /\ Status(prog, q) = "AVAILABLE" /\ CanComplete(q, prog)
    /\ Becomes(completeQuestInternal(QM, q))
    /\ UNCHANGED <<inv, toSim, metaVars, joinVars, gives, faultVars>>

\* player.joined at SimulationCore: what is missing is seeded, what is unlocked
\* is unlocked, and the saved progress is asked for.
onPlayerJoined ==
    LET seeded == [q \in Quests |-> IF q \in DOMAIN prog THEN prog[q]
                                    ELSE IF Prereqs[q] = {} THEN "AVAILABLE" ELSE "LOCKED"]
    IN  /\ joinSim > 0 /\ Room
        /\ prog' = unlockNewlyAvailable(seeded)
        /\ ToMeta(<<[t |-> "get"]>>)
        /\ joinSim' = joinSim - 1
        /\ UNCHANGED <<eras, inv, toSim, metaVars, joinMeta, joins, gives, faultVars>>

\* meta_db.quest.get.response.  MetaDB stores no status but COMPLETED.
\* Mutant: the answer replaces the progress.
replacesProgress(saved) == [q \in Quests |-> IF q \in saved THEN "COMPLETED" ELSE "LOCKED"]
Loaded(saved) == [q \in DOMAIN prog \cup saved |-> IF q \in saved THEN "COMPLETED" ELSE prog[q]]
loadProgress ==
    LET saved == Msg(toSim, "progress").done
        loaded == Loaded(saved)
    IN  /\ Waits(toSim, "progress")
        /\ toSim' = Without(toSim, "progress")
        /\ prog' = IF saved = {} THEN loaded ELSE unlockNewlyAvailable(loaded)
        /\ eras' = {e \in Eras : IsEraComplete(e, prog')}
        /\ UNCHANGED <<inv, toMeta, metaVars, joinVars, gives, faultVars>>

\* player.inventory.load: applyUpdate() overwrites every slot.
applyUpdate ==
    /\ Waits(toSim, "load")
    /\ toSim' = Without(toSim, "load")
    /\ inv' = Msg(toSim, "load").slots
    /\ UNCHANGED <<prog, eras, toMeta, metaVars, joinVars, gives, faultVars>>

\* giveItem() with one item, and setSlots() when the player uses one up: both
\* publish every slot.
Published(slots) == [s \in 1 .. SlotCount |-> [t |-> "set", s |-> s - 1, v |-> slots[s - 1]]]
giveItem(i) ==
    /\ Room /\ Moves < MaxMoves
    /\ inv' = grantItemToInventory(inv, [id |-> i, n |-> 1]).rows
    /\ ToMeta(Published(inv'))
    /\ gives' = gives + 1
    /\ UNCHANGED <<prog, eras, toSim, metaVars, joinVars, faultVars>>
setSlots(s) ==
    /\ Room /\ inv[s].n = 1
    /\ inv' = [inv EXCEPT ![s] = NoItem]
    /\ ToMeta(Published(inv'))
    /\ UNCHANGED <<prog, eras, toSim, metaVars, joinVars, gives, faultVars>>
-----------------------------------------------------------------------------
(***************************************************************************)
(* MetaDB.                                                                 *)
(***************************************************************************)
Take(t) == up /\ Waits(toMeta, t) /\ toMeta' = Without(toMeta, t)

HandleQuestGet ==
    /\ Take("get")
    /\ toSim' = Append(toSim, [t |-> "progress", done |-> db.done])
    /\ UNCHANGED <<simVars, metaVars, joinVars, gives, faultVars>>

handleSetInventorySlotReq ==
    /\ Take("set")
    /\ db' = [db EXCEPT !.rows = UpdateInventorySlot(@, Msg(toMeta, "set").s, Msg(toMeta, "set").v)]
    /\ UNCHANGED <<simVars, toSim, up, now, joinVars, gives, faultVars>>

\* quest.completed; any of the statements may fail, and the others are run.
QuestCompleted(fails) ==
    /\ Take("done")
    /\ fails # {} => Faults < MaxFaults
    /\ db' = HandleQuestCompleted(db, Msg(toMeta, "done").q, 3, fails)
    /\ sqlErrors' = IF "store" \in fails THEN sqlErrors + 1 ELSE sqlErrors
    /\ writeErrors' = IF fails # {} /\ "store" \notin fails THEN writeErrors + 1 ELSE writeErrors
    /\ UNCHANGED <<simVars, toSim, up, now, joinVars, gives, restarts, crashes>>

\* player.joined at MetaDB: all slots, unless there is no row.
handlePlayerJoined ==
    /\ up /\ joinMeta > 0
    /\ joinMeta' = joinMeta - 1
    /\ toSim' = IF DOMAIN db.rows = {} THEN toSim
                ELSE Append(toSim, [t |-> "load", slots |-> [s \in Slots |-> Held(db.rows, s)]])
    /\ UNCHANGED <<simVars, toMeta, metaVars, joinSim, joins, gives, faultVars>>

Exchange(q) ==
    /\ up /\ DetectType[q] = "exchange"
    /\ db' = HandleQuestExchangeRequest(db, q, now)
    /\ UNCHANGED <<simVars, toMeta, toSim, up, now, joinVars, gives, faultVars>>

Second ==
    /\ Moves < MaxMoves
    /\ now' = now + 1
    /\ UNCHANGED <<simVars, toMeta, toSim, db, up, joinVars, gives, faultVars>>
-----------------------------------------------------------------------------
(***************************************************************************)
(* The player, and the faults.                                             *)
(***************************************************************************)
Join ==
    /\ Moves < MaxMoves
    /\ joins' = joins + 1
    /\ joinSim' = joinSim + 1
    /\ joinMeta' = IF up THEN joinMeta + 1 ELSE joinMeta
    /\ UNCHANGED <<simVars, toMeta, toSim, metaVars, gives, faultVars>>

EmptySlots == [s \in Slots |-> NoItem]

\* SimulationCore dies and comes back with empty maps; what was on its way to
\* it is lost, what it had sent is not.
SimRestart ==
    /\ Faults < MaxFaults
    /\ restarts' = restarts + 1
    /\ prog' = << >> /\ eras' = {} /\ inv' = EmptySlots
    /\ toSim' = << >> /\ joinSim' = 0
    /\ UNCHANGED <<toMeta, metaVars, joinMeta, joins, gives, crashes, sqlErrors, writeErrors>>

\* MetaDB dies, maybe between two statements of HandleQuestCompleted(), or
\* loses its connection; until it is back the router drops its messages.
Crash(k) ==
    /\ up /\ Faults < MaxFaults
    /\ k > 0 => Waits(toMeta, "done")
    /\ db' = IF k = 0 THEN db ELSE HandleQuestCompleted(db, Msg(toMeta, "done").q, k, {})
    /\ up' = FALSE /\ toMeta' = << >> /\ joinMeta' = 0
    /\ crashes' = crashes + 1
    /\ UNCHANGED <<simVars, toSim, now, joinSim, joins, gives, restarts, sqlErrors, writeErrors>>

connectAndServe ==
    /\ ~up
    /\ up' = TRUE
    /\ UNCHANGED <<simVars, toMeta, toSim, db, now, joinVars, gives, faultVars>>

Init ==
    /\ prog = << >> /\ eras = {} /\ inv = EmptySlots
    /\ toMeta = << >> /\ toSim = << >>
    /\ db = EmptyDb /\ up = TRUE /\ now = 0
    /\ joinSim = 0 /\ joinMeta = 0 /\ joins = 0 /\ gives = 0
    /\ restarts = 0 /\ crashes = 0 /\ sqlErrors = 0 /\ writeErrors = 0

SimNext == onPlayerJoined \/ loadProgress \/ applyUpdate
MetaNext == HandleQuestGet \/ handleSetInventorySlotReq \/ QuestCompleted({}) \/ handlePlayerJoined

Next ==
    \/ \E i \in Items : checkCraftCompletion(i) \/ giveItem(i)
    \/ \E s \in Slots : setSlots(s)
    \/ \E q \in Quests : completeQuest(q) \/ Exchange(q)
    \/ checkInventory \/ Second \/ Join
    \/ SimNext \/ MetaNext
    \/ \E fails \in Failures : QuestCompleted(fails)
    \/ SimRestart \/ connectAndServe
    \/ \E k \in 0 .. 2 : Crash(k)

Spec == Init /\ [][Next]_vars
-----------------------------------------------------------------------------
Reported == {toMeta[i].q : i \in {j \in 1 .. Len(toMeta) : toMeta[j].t = "done"}}
EverDone == Completed(prog) \cup db.done \cup Reported

\* The maps hold what they may, and no stack is over its limit.
TypeOK ==
    /\ DOMAIN prog \subseteq Quests
    /\ \A q \in DOMAIN prog : prog[q] \in {"LOCKED", "AVAILABLE", "COMPLETED"}
    /\ eras \subseteq Eras
    /\ DOMAIN inv = Slots /\ DOMAIN db.rows \subseteq Slots
    /\ \A s \in Slots : inv[s].n \in 0 .. Stack /\ Held(db.rows, s).n \in 0 .. Stack
    /\ db.done \subseteq Quests

\* An era is in completedEras_ exactly when every quest of it is COMPLETED,
\* whatever order the join, the crafts and the saved progress come in: no
\* transition is published early, and none is suppressed by a stale latch
\* (QuestGraph::IsEraComplete, gp-kjfh).
ErasExact ==
    \A e \in {EraOf[q] : q \in BuildQuestEraMap} :
        e \in eras <=> \A q \in BuildQuestEraMap : EraOf[q] = e => Status(prog, q) = "COMPLETED"

\* A quest saved as COMPLETED has its reward row, pending or redeemed, wherever
\* MetaDB died and whichever later statement failed, unless an INSERT failed: the player never loses a reward to a
\* crash between the statements of HandleQuestCompleted().
RewardBeforeDone ==
    \A q \in db.done : db.pending[q] + db.redeemed[q] + sqlErrors > 0

\* As long as SimulationCore has not been restarted, no quest is rewarded twice
\* (completeQuestInternal() is idempotent, loadProgress() never takes COMPLETED
\* away, whatever is met, loaded or joined again); each restart adds at most one.
RewardsPerRestart ==
    \A q \in BuildQuestEraMap :
        db.pending[q] + db.redeemed[q] + Cardinality({i \in 1 .. Len(toMeta) : toMeta[i] = [t |-> "done", q |-> q]})
            <= 1 + restarts

\* Rewards are neither lost by MetaDB nor given for one completion twice.
RewardsAreKept == RewardBeforeDone /\ RewardsPerRestart

\* An exchange moves the whole cost and the whole reward, or nothing: no
\* sequence of full stacks, missing items and cooldowns leaves half a trade.
ExchangesWhole ==
    [][\A q \in Quests :
          db' # db /\ Exchange(q) =>
              \A i \in Items \cup {Reward[r].id : r \in Quests} :
                  Count(db'.rows, i) = Count(db.rows, i) + (IF Reward[q].id = i THEN Reward[q].n ELSE 0)
                                                         - (IF Cost[q].id = i THEN Cost[q].n ELSE 0)]_vars

\* A second completion of a quest does not grant its reward again, as
\* openspec/specs/manual-completion/spec.md has it.
NoDoubleGrant == \A q \in BuildQuestEraMap : db.redeemed[q] <= 1

\* The quests done so far, in memory, saved or on their way to MetaDB, are an
\* abstract book of quests: crafts before the join, rejoins and saved progress
\* that arrives late complete no quest before its prerequisites, and what is
\* done is forgotten only at a fault.
Book == INSTANCE QuestBook WITH done <- EverDone, faults <- Faults
BookSpec == Book!Spec
=============================================================================
