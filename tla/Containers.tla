----------------------------- MODULE Containers -----------------------------
(***************************************************************************)
(* SimulationCore's open-container windows: players, their cursors, the    *)
(* per-player session, the write-through caches in front of the            *)
(* EntityStateStore, the live machine inventories of the ECS, and crafting *)
(* at a workbench.                                                         *)
(*                                                                         *)
(* Message handlers run one at a time on the main thread.  An answer of    *)
(* the EntityStateStore runs its callback on the store client's io thread, *)
(* between any two of them; closures pushed to the main queue run later,   *)
(* in order.  Requests and answers of the store share one TCP connection,  *)
(* so the store sees loads and saves in the order they were issued.        *)
(*                                                                         *)
(* `ledger` and `damage` are history: what the players are owed of each    *)
(* item, and the ways in which a step has broken that account.             *)
(***************************************************************************)
EXTENDS InventoryClick, TLC

CONSTANTS Players,
          Items,        \* all > 0
          Ingredient, Product,   \* the one workbench recipe, of metas 0: 1 -> 1
          Chests, Benches, Machines,   \* disjoint sets of block positions
          ContSlots,    \* slots of a container
          StartInv,     \* a joined player's PlayerSlots slots
          MaxEvents     \* bound on handled messages and faults

VARIABLES inv, cursor,  \* PlayerInventoryStore::inventories_, cursors_
          sess,         \* ContainerSessionRegistry::sessions_
          cache,        \* ChestStateManager::cache_, WorkbenchStateManager::grids_
          ess,          \* what the EntityStateStore holds
          essq,         \* requests on their way to it, oldest first
          connected,    \* EntityStateStoreClient::connected_
          live,         \* the ECS InventoryContainer of each machine entity
          cold,         \* machines whose entity has not seen its saved slots yet
          busy,         \* machines whose RecipeProgress names a recipe
          mainq,        \* MainThreadQueue: closures left by callbacks
          ledger, damage, events

vars == <<inv, cursor, sess, cache, ess, essq, connected, live, cold, busy, mainq,
          ledger, damage, events>>

ItemIds == {ItemId(i) : i \in Items}
Blocks == Chests \cup Benches \cup Machines
None == <<>>            \* no session, no entity, no saved state
Kind(b) == CASE b \in Chests -> "chest" [] b \in Benches -> "bench" [] b \in Machines -> "machine"

SlotSeqs(n) == [1 .. n -> {Empty} \cup [item : Items, count : 1 .. MaxStack]]
Saved == {None} \cup SlotSeqs(ContSlots)

TypeOK ==
  /\ \A p \in Players : /\ Len(inv[p]) = PlayerSlots /\ SlotsOK(inv[p], Items)
                        /\ SlotsOK(<<cursor[p]>>, Items)
                        /\ sess[p] # None => /\ sess[p].at \in Blocks
                                             /\ sess[p].link \in Machines \cup {0}
                                             /\ Len(sess[p].slots) = ContSlots
                                             /\ SlotsOK(sess[p].slots, Items)
  /\ DOMAIN cache \subseteq Blocks /\ DOMAIN live = Machines /\ DOMAIN ess = Blocks
  /\ \A b \in DOMAIN cache : SlotsOK(cache[b], Items) /\ Len(cache[b]) \in {0, ContSlots}
  /\ \A b \in Blocks : SlotsOK(ess[b], Items) /\ Len(ess[b]) \in {0, ContSlots}
  /\ \A m \in Machines : SlotsOK(live[m], Items) /\ Len(live[m]) \in {0, ContSlots}
  /\ connected \in BOOLEAN /\ cold \cup busy \subseteq Machines /\ events \in 0 .. MaxEvents

Init ==
  /\ inv = [p \in Players |-> StartInv]
  /\ cursor = [p \in Players |-> Empty]
  /\ sess = [p \in Players |-> None]
  /\ cache = << >> /\ ess = [b \in Blocks |-> None] /\ essq = <<>>
  /\ connected = TRUE
  /\ live = [m \in Machines |-> None] /\ cold = {} /\ busy = {} /\ mainq = <<>>
  /\ ledger = [i \in ItemIds |-> Cardinality(Players) * Held(StartInv, i)]
  /\ damage = {} /\ events = 0

Message == events < MaxEvents /\ events' = events + 1
Blame(cause, it) == IF it THEN damage \cup {cause} ELSE damage

(***************************************************************************)
(* The stores.  What is stored for a container is the cached copy, or the  *)
(* last save on its way, or what the EntityStateStore holds.               *)
(***************************************************************************)
LastSave(q, b, s) ==
  FoldLeft(LAMBDA a, r : IF r.op = "save" /\ r.at = b THEN r.slots ELSE a, s, q)
Stored(b) == IF b \in DOMAIN cache THEN cache[b] ELSE LastSave(essq, b, ess[b])
Same(s, t) == \A i \in ItemIds : Held(s, i) = Held(t, i)

\* saveSlots(), setGridState(): cache and store.
saveSlots(b, slots) ==
  /\ cache' = (b :> slots) @@ cache
  /\ essq' = IF connected THEN Append(essq, [op |-> "save", at |-> b, slots |-> slots])
             ELSE essq

\* slotsRef(): the machine's live slots once linked, the owned copy before
\* that, for other kinds and when the entity is gone.
Linked(s) == Kind(s.at) = "machine" /\ s.link # 0 /\ live[s.link] # None
slotsRef(s) == IF Linked(s) THEN live[s.link] ELSE s.slots

\* The callback of every open: as many saved slots as there are go into
\* whatever session the player has open by now.
Fill(table, p, slots) ==
  IF table[p] = None \/ slots = None THEN table
  ELSE [table EXCEPT ![p].slots =
          [k \in 1 .. ContSlots |-> IF k <= Len(slots) THEN slots[k] ELSE @[k]]]

AfterLoad(r, slots) ==
  CASE r.what = "open" /\ Kind(r.at) = "machine" ->
         Append(mainq, [op |-> "link", by |-> r.by, at |-> r.at])
    [] r.what = "craft" ->
         Append(mainq, [op |-> "craft", by |-> r.by, at |-> r.at, slots |-> slots])
    [] r.what = "restore" /\ slots # None ->
         Append(mainq, [op |-> "restore", at |-> r.at, slots |-> slots])
    [] OTHER -> mainq

\* loadSlots(), getGridState(): the cache answers at once, a store that is
\* not connected answers "nothing" at once, otherwise a request goes out.
\* An answer becomes the cached copy; a workbench caches no empty answer.
\* (`table` is the session table as the handler has left it.)
Answer(r, table, slots, caches) ==
  /\ sess' = IF r.what = "open" THEN Fill(table, r.by, slots) ELSE table
  /\ mainq' = AfterLoad(r, slots)
  /\ cache' = IF caches /\ r.what # "restore" THEN (r.at :> slots) @@ cache ELSE cache
  /\ damage' = Blame("late load", cache' # cache /\ ~ Same(slots, Stored(r.at)))

loadSlots(r, table) ==
  IF r.at \in DOMAIN cache THEN Answer(r, table, cache[r.at], FALSE) /\ UNCHANGED essq
  ELSE IF ~ connected THEN Answer(r, table, None, Kind(r.at) # "bench") /\ UNCHANGED essq
  ELSE /\ essq' = Append(essq, r)
       /\ sess' = table
       /\ UNCHANGED <<mainq, cache, damage>>

(***************************************************************************)
(* Open and close.                                                         *)
(***************************************************************************)

\* ChestOpenHandler, WorkbenchOpenHandler and MachineOpenHandler: an empty
\* session first, the load second.  A machine needs its entity.
Open(p, b) ==
  /\ Message
  /\ Kind(b) = "machine" => live[b] # None
  /\ loadSlots([op |-> "load", what |-> "open", by |-> p, at |-> b],
               [sess EXCEPT ![p] = [at |-> b, link |-> 0, slots |-> Blank(ContSlots)]])
  /\ UNCHANGED <<inv, cursor, ess, connected, live, cold, busy, ledger>>

\* MachineOpenHandler without an entity, or a block event: the ChunkStore's
\* answer creates the entity with empty slots, and the new machine asks the
\* store for its saved slots.
LazyInit(m) ==
  /\ Message /\ live[m] = None
  /\ live' = [live EXCEPT ![m] = Blank(ContSlots)]
  /\ cold' = cold \cup {m}
  /\ essq' = IF connected
             THEN Append(essq, [op |-> "load", what |-> "restore", at |-> m]) ELSE essq
  /\ UNCHANGED <<inv, cursor, sess, cache, ess, connected, busy, mainq, ledger, damage>>

\* ChestCloseHandler: the session's owned copy is saved under the block the
\* request names.  (A chest window is what sends the request.)
ChestClose(p, b) ==
  /\ Message /\ sess[p] # None /\ b \in Chests
  /\ saveSlots(b, sess[p].slots)
  /\ sess' = [sess EXCEPT ![p] = None]
  /\ damage' = Blame("stale copy", ~ Same(sess[p].slots, Stored(b)))
  /\ UNCHANGED <<inv, cursor, ess, connected, live, cold, busy, mainq, ledger>>

\* MachineCloseHandler: only a machine session, saved under its own block.
MachineClose(p) ==
  /\ Message /\ sess[p] # None /\ Kind(sess[p].at) = "machine"
  /\ saveSlots(sess[p].at, slotsRef(sess[p]))
  /\ sess' = [sess EXCEPT ![p] = None]
  /\ damage' = Blame("stale copy",
                 IF Linked(sess[p]) THEN sess[p].link # sess[p].at \/ sess[p].at \in cold
                 ELSE ~ Same(sess[p].slots, Stored(sess[p].at)))
  /\ UNCHANGED <<inv, cursor, ess, connected, live, cold, busy, mainq, ledger>>

(***************************************************************************)
(* A click: InventoryActionHandler::handle().  The container is changed in *)
(* place; the player's copy is stored only when the rule reports a change. *)
(***************************************************************************)
Clicks ==
  [act : {"click"}, button : {"left", "right"}, cid : {0, 1}, slot : 1 .. PlayerSlots]
  \cup [act : {"quick", "drop", "drag"}, button : {"left"}, cid : {0, 1}, slot : 1 .. PlayerSlots]
  \cup [act : {"all"}, button : {"left"}, cid : {0, 1}, slot : {1}]

HoldsOf(v, i) == Held(v.player, i) + Held(<<v.cursor>>, i) + Held(v.cont, i)

View(p, c) == [player |-> inv[p], cursor |-> cursor[p],
               cont |-> IF c.cid = 1 THEN slotsRef(sess[p]) ELSE None]

handleClick(p, c) == ApplyContainerClick(View(p, c), c)

InventoryAction(p, c) ==
  /\ Message
  /\ c.cid = 1 => sess[p] # None
  /\ LET v == View(p, c)
         r == handleClick(p, c)
         s == sess[p]
         k == s.at
     IN  /\ r.view # v
         /\ inv' = IF r.ok THEN [inv EXCEPT ![p] = r.view.player] ELSE inv
         /\ cursor' = IF r.ok THEN [cursor EXCEPT ![p] = r.view.cursor] ELSE cursor
         /\ IF c.cid = 1
            THEN /\ live' = IF Linked(s) THEN [live EXCEPT ![s.link] = r.view.cont] ELSE live
                 /\ sess' = IF Linked(s) THEN sess ELSE [sess EXCEPT ![p].slots = r.view.cont]
                 /\ IF r.ok THEN saveSlots(k, r.view.cont) ELSE UNCHANGED <<cache, essq>>
                 /\ damage' = damage
                      \cup (IF ~ r.ok /\ r.view.cont # v.cont THEN {"part moved"} ELSE {})
                      \cup (IF r.ok /\ (IF Linked(s) THEN s.link # k \/ k \in cold
                                        ELSE Kind(k) = "machine" \/ ~ Same(s.slots, Stored(k)))
                            THEN {"stale copy"} ELSE {})
            ELSE UNCHANGED <<live, sess, cache, essq, damage>>
         /\ ledger' = IF c.act = "drop"
                      THEN [i \in ItemIds |-> ledger[i] - (HoldsOf(v, i) - HoldsOf(r.view, i))]
                      ELSE ledger
  /\ UNCHANGED <<ess, connected, cold, busy, mainq>>

(***************************************************************************)
(* CraftRequestHandler: the grid is read now and crafted from later.       *)
(***************************************************************************)
CraftRequest(p, b) ==
  /\ Message
  /\ loadSlots([op |-> "load", what |-> "craft", by |-> p, at |-> b], sess)
  /\ UNCHANGED <<inv, cursor, ess, connected, live, cold, busy, ledger>>

\* consumeInputs() and the charge match item id and meta.
NoIngredient(slots) == \A k \in 1 .. Len(slots) : slots[k].item # Ingredient

\* Mutant of doCraft: the grid is left as it was.
doCraftFree(j) ==
  LET paid == Deduct(inv[j.by], {Ingredient}, 1)
      got == giveItem(paid, Product, 1, 0)
  IN  IF NoIngredient(j.slots)
      THEN UNCHANGED <<inv, cache, essq, ledger, damage>>
      ELSE /\ saveSlots(j.at, j.slots)
           /\ inv' = [inv EXCEPT ![j.by] = got.slots]
           /\ ledger' = [i \in ItemIds |-> ledger[i]
                - (IF i = Ingredient THEN 1 + Held(inv[j.by], i) - Held(paid, i) ELSE 0)
                + (IF i = Product THEN 1 - got.left ELSE 0)]
           /\ UNCHANGED damage

\* doCraft(): one ingredient out of the grid, what the grid lost out of the
\* player's slots too, the product into them; what does not fit is dropped.
doCraft(j) ==
  LET grid == Deduct(j.slots, {Ingredient}, 1)
      paid == Deduct(inv[j.by], {Ingredient}, 1)
      got == giveItem(paid, Product, 1, 0)
  IN  IF NoIngredient(j.slots)
      THEN UNCHANGED <<inv, cache, essq, ledger, damage>>
      ELSE /\ saveSlots(j.at, grid)
           /\ inv' = [inv EXCEPT ![j.by] = got.slots]
           /\ ledger' = [i \in ItemIds |-> ledger[i]
                - (IF i = Ingredient THEN 1 + Held(inv[j.by], i) - Held(paid, i) ELSE 0)
                + (IF i = Product THEN 1 - got.left ELSE 0)]
           /\ damage' = Blame("stale grid", ~ Same(j.slots, Stored(j.at)))

(***************************************************************************)
(* Closures on the main queue.                                             *)
(***************************************************************************)

\* Mutant of link: the saved copy is applied to a machine in use too.
linkOverwrites(j) ==
  LET s == sess[j.by]
      l == live[j.at]
  IN  IF l = None \/ s = None THEN UNCHANGED <<sess, live, cold, damage>>
      ELSE /\ live' = [live EXCEPT ![j.at] = s.slots]
           /\ sess' = [sess EXCEPT ![j.by].link = j.at]
           /\ cold' = cold \ {j.at}
           /\ UNCHANGED damage

\* The second half of MachineOpenHandler: a machine that is idle, no recipe
\* of it under way, and empty takes the session's copy; whatever session the
\* player has is linked.
link(j) ==
  LET s == sess[j.by]
      l == live[j.at]
      freshIdle == j.at \notin busy /\ \A k \in 1 .. Len(l) : l[k].item = 0
      filled == IF freshIdle THEN s.slots ELSE l
  IN  IF l = None \/ s = None THEN UNCHANGED <<sess, live, cold, damage>>
      ELSE /\ live' = [live EXCEPT ![j.at] = filled]
           /\ sess' = [sess EXCEPT ![j.by].link = j.at]
           /\ cold' = IF Same(filled, Stored(j.at)) THEN cold \ {j.at} ELSE cold
           /\ damage' = Blame("restored twice",
                          ~ Same(filled, l) /\ (j.at \notin cold \/ ~ Same(filled, Stored(j.at))))

\* main.cpp's restore: the saved slots replace the machine's.
restore(j) ==
  IF live[j.at] = None THEN UNCHANGED <<live, cold, damage>>
  ELSE /\ live' = [live EXCEPT ![j.at] = j.slots]
       /\ cold' = cold \ {j.at}
       /\ damage' = Blame("restored twice",
                      ~ Same(j.slots, IF j.at \in cold THEN Stored(j.at) ELSE live[j.at]))

MainStep ==
  /\ mainq # <<>>
  /\ mainq' = Tail(mainq)
  /\ LET j == Head(mainq)
     IN  \/ /\ j.op = "craft" /\ doCraft(j)
            /\ UNCHANGED <<sess, live, cold>>
         \/ /\ j.op = "link" /\ link(j)
            /\ UNCHANGED <<inv, cache, essq, ledger>>
         \/ /\ j.op = "restore" /\ restore(j)
            /\ UNCHANGED <<sess, inv, cache, essq, ledger>>
  /\ UNCHANGED <<cursor, ess, connected, busy, events>>

\* The store takes the oldest request; a load's callback runs.
EssAnswer ==
  /\ essq # <<>>
  /\ LET r == Head(essq)
     IN  IF r.op = "save"
         THEN /\ ess' = [ess EXCEPT ![r.at] = r.slots]
              /\ UNCHANGED <<sess, cache, mainq, damage>>
         ELSE /\ Answer(r, sess, ess[r.at], Kind(r.at) # "bench" \/ ess[r.at] # None)
              /\ UNCHANGED ess
  /\ essq' = Tail(essq)
  /\ UNCHANGED <<inv, cursor, connected, live, cold, busy, ledger, events>>

(***************************************************************************)
(* The rest of the world.                                                  *)
(***************************************************************************)

\* ItemFlowHandler: a pipe delivers one unit to the machine's first free
\* input slot, else onto a stack of it; the store is told, the cache is not.
ItemFlow(m, i) ==
  /\ Message /\ live[m] # None
  /\ LET free == {k \in 1 .. ContSlots : live[m][k].item = 0}
         same == {k \in 1 .. ContSlots : ItemId(live[m][k].item) = i /\ Room(live[m][k]) > 0}
         k == IF free # {} THEN Min(free) ELSE Min(same)
         new == [live[m] EXCEPT ![k] = Put(@, IF free # {} THEN i ELSE @.item, 1)]
     IN  /\ free \cup same # {}
         /\ live' = [live EXCEPT ![m] = new]
         /\ essq' = IF connected THEN Append(essq, [op |-> "save", at |-> m, slots |-> new])
                    ELSE essq
  /\ ledger' = [ledger EXCEPT ![i] = @ + 1]
  /\ damage' = Blame("fed while cold", m \in cold)
  /\ UNCHANGED <<inv, cursor, sess, cache, ess, connected, cold, busy, mainq>>

\* The machine ejects one unit, or begins a recipe with it; nothing is saved.
\* (external: the machine systems.)
MachineConsumes(m, k) ==
  /\ Message /\ live[m] # None /\ ~ IsEmpty(live[m][k])
  /\ busy' \in {busy, busy \cup {m}}
  /\ live' = [live EXCEPT ![m] = [@ EXCEPT ![k] = Taken(@, 1)]]
  /\ ledger' = [ledger EXCEPT ![ItemId(live[m][k].item)] = @ - 1]
  /\ UNCHANGED <<inv, cursor, sess, cache, ess, essq, connected, cold, mainq, damage>>

\* The recipe ends when there is room for its product.  (external)
MachineFinishes(m) ==
  LET got == giveItem(live[m], Product, 1, 0)
  IN  /\ m \in busy /\ got.left = 0
      /\ busy' = busy \ {m} /\ live' = [live EXCEPT ![m] = got.slots]
      /\ ledger' = [ledger EXCEPT ![Product] = @ + 1]
      /\ UNCHANGED <<inv, cursor, sess, cache, ess, essq, connected, cold, mainq, damage, events>>

\* WrenchHandler::cycleFace() saves the machine's faces under the key of its
\* slots: what is stored of the slots is gone (the bytes are no longer a
\* MachineState, which decodes to no slots).
WrenchCycle(m) ==
  /\ Message /\ live[m] # None
  /\ essq' = IF connected THEN Append(essq, [op |-> "save", at |-> m, slots |-> None]) ELSE essq
  /\ damage' = Blame("wrenched", m \in cold)
  /\ UNCHANGED <<inv, cursor, sess, cache, ess, connected, live, cold, busy, mainq, ledger>>

\* The connection breaks: there is no reconnect, and no callback of a
\* request on its way ever runs.
EssLost ==
  /\ Message /\ connected
  /\ connected' = FALSE /\ essq' = <<>>
  /\ damage' = Blame("store lost",
                 \E b \in Blocks \ DOMAIN cache : ~ Same(LastSave(essq, b, ess[b]), ess[b]))
  /\ UNCHANGED <<inv, cursor, sess, cache, ess, live, cold, busy, mainq, ledger>>

\* SimulationCore restarts; the store has taken some prefix of what was on
\* its way.  Slots come back with the player, the cursor does not.
Restart ==
  /\ Message
  /\ \E n \in 0 .. Len(essq) :
       /\ ess' = [b \in Blocks |-> LastSave(SubSeq(essq, 1, n), b, ess[b])]
       /\ damage' = Blame("restart",
            \/ \E p \in Players : cursor[p] # Empty
            \/ \E b \in Blocks : ~ Same(ess'[b], IF b \in Machines /\ live[b] # None /\ b \notin cold
                                                 THEN live[b] ELSE Stored(b)))
  /\ sess' = [p \in Players |-> None] /\ cursor' = [p \in Players |-> Empty]
  /\ cache' = << >> /\ essq' = <<>> /\ connected' = TRUE
  /\ live' = [m \in Machines |-> None] /\ cold' = {} /\ busy' = {} /\ mainq' = <<>>
  /\ UNCHANGED <<inv, ledger>>

Next ==
  \/ \E p \in Players : \/ \E b \in Blocks : Open(p, b)
                        \/ \E b \in Chests : ChestClose(p, b)
                        \/ MachineClose(p)
                        \/ \E c \in Clicks : InventoryAction(p, c)
                        \/ \E b \in Benches : CraftRequest(p, b)
  \/ \E m \in Machines : \/ LazyInit(m)
                         \/ WrenchCycle(m)
                         \/ \E i \in ItemIds : ItemFlow(m, i)
                         \/ MachineFinishes(m)
                         \/ \E k \in 1 .. ContSlots : MachineConsumes(m, k)
  \/ MainStep \/ EssAnswer \/ EssLost \/ Restart

Spec == Init /\ [][Next]_vars

(***************************************************************************)
(* Properties.                                                             *)
(***************************************************************************)
In(b) == IF b \in Machines /\ live[b] # None /\ b \notin cold THEN live[b] ELSE Stored(b)
TotalOf(i) ==
  LET Of(p) == Held(inv[p], i) + Held(<<cursor[p]>>, i)
  IN  MapThenSumSet(Of, Players) + MapThenSumSet(LAMBDA b : Held(In(b), i), Blocks)

\* Items are neither lost nor made: as long as no session has written a copy
\* that was out of date, no answer of the store has come late, no quick-move
\* has fitted only in part and no restart has cut a save, the players, their
\* cursors and the containers together hold exactly what the players are
\* owed -- across windows opened, switched and closed, crafts, pipe
\* deliveries and restarts.
ItemsAccounted == damage = {} => \A i \in ItemIds : TotalOf(i) = ledger[i]

\* MachineOpenHandler: "a stale or empty persisted snapshot must never wipe
\* crafted outputs".  However late a window's load is answered, linking the
\* window leaves what the machine holds as it is.
LinkKeepsLive ==
  [][mainq # <<>> /\ Head(mainq).op = "link" /\ events' = events /\ mainq' = Tail(mainq) =>
       \A m \in Machines : \A k \in 1 .. Len(live[m]) :
         ~ IsEmpty(live[m][k]) => live'[m][k] = live[m][k]]_vars

\* InventoryClick.h says that a rule returns true if anything changed, and
\* the handler stores the player's slots only then: a click that it leaves
\* unstored has left the container alone too.
UnstoredClickIsNoop ==
  [][inv' = inv /\ cursor' = cursor /\ (\E p \in Players, c \in Clicks : InventoryAction(p, c))
       => live' = live /\ \A p \in Players : sess'[p] # None => sess'[p].slots = sess[p].slots]_vars

\* A window shows its own container: once an open chest or workbench has
\* been answered, its copy is what is stored for it.
WindowIsCurrent ==
  essq = <<>> /\ mainq = <<>> =>
    \A p \in Players : sess[p] # None /\ Kind(sess[p].at) # "machine" =>
                         Same(sess[p].slots, Stored(sess[p].at))
=============================================================================
