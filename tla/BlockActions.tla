---------------------------- MODULE BlockActions ----------------------------
(***************************************************************************)
(* SimulationCore's block actions: place, break and bucket-fill, each a    *)
(* handler on the main thread followed by a compare-and-swap that the      *)
(* ChunkStore answers later, in any order, and whose result is processed   *)
(* by a closure on the main queue (game/actions, CasRunner.cpp).           *)
(*                                                                         *)
(* Block ids are item ids; 0 is air.  One multiblock controller stands at  *)
(* Anchor and owns the cells MbCells; `contents` are the slots of its      *)
(* entity, <<>> once it is destroyed.  A machine at Tank holds fluid,      *)
(* counted in buckets.  `ledger` is what the players are owed of each item *)
(* and `damage` the ways in which that account has been broken.            *)
(***************************************************************************)
EXTENDS InventoryClick, TLC

CONSTANTS Players, Items, Pos, Anchor, MbCells,
          EmptyBucket, FilledBucket,  \* two of the Items, not blocks
          Drop,          \* BlockDrops: the item a broken block yields, per item
          Transform(_),  \* BlockTransforms: what placing an item into air makes
          StartWorld, StartInv, StartContents, StartTank,
          MaxEvents

VARIABLES inv, mode,   \* PlayerInventoryStore: slots and game mode
          world,       \* the ChunkStore's blocks
          cas,         \* compare-and-swaps it has not answered
          mainq,       \* answers waiting on the main queue
          contents,    \* slots of the multiblock controller's entity
          cells,       \* MultiblockController::blocks
          tank,        \* FluidStorage::amount of the machine, in buckets
          ledger, damage, events

vars == <<inv, mode, world, cas, mainq, contents, cells, tank, ledger, damage, events>>

ItemIds == {ItemId(i) : i \in Items}
Modes == {"survival", "creative", "spectator"}
CanPlace(m) == m \in {"survival", "creative"}
InfiniteItems(m) == m \in {"creative", "spectator"}

TypeOK ==
  /\ \A p \in Players : SlotsOK(inv[p], Items) /\ mode[p] \in Modes
  /\ world \in [Pos -> ItemIds \cup {0}]
  /\ SlotsOK(contents, Items) /\ cells \subseteq MbCells /\ tank \in Nat

Init ==
  /\ inv = [p \in Players |-> StartInv] /\ mode = [p \in Players |-> "survival"]
  /\ world = StartWorld /\ cas = {} /\ mainq = <<>>
  /\ contents = StartContents /\ cells = MbCells /\ tank = StartTank
  /\ ledger = [i \in ItemIds |-> Cardinality(Players) * Held(StartInv, i)
                               + Held(StartContents, i)
                               + Cardinality({c \in Pos : StartWorld[c] = i})]
  /\ damage = {} /\ events = 0

Message == events < MaxEvents /\ events' = events + 1

\* runBlockCas(): what the client believed is compared with the store.
runBlockCas(p, what, at, expect, new, held, more) ==
  cas' = cas \cup {[id |-> events, by |-> p, what |-> what, at |-> at, expect |-> expect,
                    new |-> new, held |-> held, more |-> more]}

\* PlaceBlockHandler: what the client says it holds, or what that turns into,
\* against the air next to the clicked face; the item is charged when the swap
\* has been committed.
Place(p, c, held) ==
  /\ Message /\ CanPlace(mode[p])
  /\ runBlockCas(p, "place", c, 0, Transform(held), held, ~ InfiniteItems(mode[p]))
  /\ UNCHANGED <<inv, mode, world, mainq, contents, cells, tank, ledger, damage>>

\* BreakBlockHandler: a multiblock's contents go to the player at once, or
\* the break is refused when they do not fit.
Break(p, c, seen) ==
  LET owned == c \in cells /\ ~ \A k \in 1 .. Len(contents) : IsEmpty(contents[k])
      fit == tryFitAll(inv[p], contents)
  IN  /\ Message /\ seen # 0
      /\ IF owned /\ ~ fit.fits
         THEN UNCHANGED <<inv, cas, damage>>
         ELSE /\ inv' = IF owned THEN [inv EXCEPT ![p] = fit.slots] ELSE inv
              /\ runBlockCas(p, "break", c, seen, 0, 0, owned)
              /\ damage' = damage
                   \cup (IF owned /\ c # Anchor THEN {"member"} ELSE {})
                   \cup (IF owned /\ \E r \in cas \cup ToSet(mainq) : r.more /\ r.what = "break"
                         THEN {"twice"} ELSE {})
      /\ UNCHANGED <<mode, world, mainq, contents, cells, tank, ledger>>

\* The ChunkStore answers one swap; its result is posted to the main queue.
\* A store that cannot be reached answers "conflict".
CasAnswer(r) ==
  /\ r \in cas
  /\ cas' = cas \ {r}
  /\ \E ok \in {world[r.at] = r.expect, FALSE} :
       /\ world' = IF ok THEN [world EXCEPT ![r.at] = r.new] ELSE world
       /\ mainq' = Append(mainq, [r EXCEPT !.id = IF ok THEN 1 ELSE 0])
  /\ UNCHANGED <<inv, mode, contents, cells, tank, ledger, damage, events>>

\* The first stack of the id, whatever its meta, pays.
Charged(slots, i) == Deduct(slots, {j \in Items : ItemId(j) = i}, 1)

\* What the players are owed once `got` has been put for `paid`.
Exchanged(paid, got) ==
  [i \in ItemIds |-> ledger[i] + (IF i = got THEN 1 ELSE 0) - (IF i = paid THEN 1 ELSE 0)]

\* Mutant of Placed: the placement of a creative player is charged.
chargesAll(r) ==
  /\ inv' = [inv EXCEPT ![r.by] = Charged(@, r.held)]
  /\ ledger' = Exchanged(IF r.more THEN r.held ELSE 0, r.new)
  /\ damage' = IF Held(inv[r.by], r.held) = 0 THEN damage \cup {"unpaid"} ELSE damage
  /\ UNCHANGED <<contents, cells>>

\* processResult(): onCommitted of a placement ...
Placed(r) ==
  /\ inv' = IF r.more THEN [inv EXCEPT ![r.by] = Charged(@, r.held)] ELSE inv
  /\ ledger' = Exchanged(IF r.more THEN r.held ELSE 0, r.new)
  /\ damage' = IF r.more /\ Held(inv[r.by], r.held) = 0 THEN damage \cup {"unpaid"} ELSE damage
  /\ UNCHANGED <<contents, cells>>

\* ... and of a break: the drop, and onBlockChanged() takes the cell from
\* the controller or, at its anchor, the controller with its slots.
Broken(r) ==
  LET got == giveItem(inv[r.by], Drop[r.expect], 1, 0)
  IN  /\ inv' = [inv EXCEPT ![r.by] = got.slots]
      /\ ledger' = [i \in ItemIds |-> ledger[i] - (IF i = r.expect THEN 1 ELSE 0)
                                    + (IF i = Drop[r.expect] THEN 1 - got.left ELSE 0)]
      /\ cells' = IF r.at = Anchor THEN {} ELSE cells \ {r.at}
      /\ contents' = IF r.at = Anchor THEN <<>> ELSE contents
      /\ damage' = IF r.at = Anchor /\ ~ r.more /\ cells # {}
                      /\ \E i \in ItemIds : Held(contents, i) > 0
                   THEN damage \cup {"filled meanwhile"} ELSE damage

Refused1(r) ==
  /\ damage' = IF r.what = "break" /\ r.more THEN damage \cup {"conflict"} ELSE damage
  /\ UNCHANGED <<inv, ledger, contents, cells>>

Process ==
  /\ mainq # <<>>
  /\ mainq' = Tail(mainq)
  /\ LET r == Head(mainq)
     IN  \/ r.id = 1 /\ r.what = "place" /\ Placed(r)
         \/ r.id = 1 /\ r.what = "break" /\ Broken(r)
         \/ r.id = 0 /\ Refused1(r)
  /\ UNCHANGED <<mode, world, cas, tank, events>>

\* consumeEmptyBucket(): one empty bucket out of the first stack of them.
consumeEmptyBucket(slots) ==
  LET k == Min({n \in 1 .. PlayerSlots : slots[n].item = EmptyBucket})
  IN  [slots |-> [slots EXCEPT ![k] = Taken(@, 1)], at |-> k]

\* tryFillBucket(): an empty bucket is taken, the machine drained, the
\* filled bucket granted into the slot the empty one came from.
FillBucket(p) ==
  /\ Message /\ tank > 0
  /\ \E n \in 1 .. PlayerSlots : inv[p][n].item = EmptyBucket
  /\ LET taken == consumeEmptyBucket(inv[p])
         got == giveItem(taken.slots, FilledBucket, 1, taken.at)
     IN  /\ inv' = [inv EXCEPT ![p] = got.slots]
         /\ tank' = tank - 1
         /\ ledger' = [ledger EXCEPT ![EmptyBucket] = @ - 1, ![FilledBucket] = @ + 1]
         /\ damage' = IF got.left > 0 THEN damage \cup {"bucket"} ELSE damage
  /\ UNCHANGED <<mode, world, cas, mainq, contents, cells>>

\* PlayerActionDispatcher's ITEM_ACTION (the item panel): a grant.
ItemAction(p, i) ==
  /\ Message
  /\ LET got == giveItem(inv[p], i, 1, 0)
     IN  /\ inv' = [inv EXCEPT ![p] = got.slots]
         /\ ledger' = [ledger EXCEPT ![i] = @ + 1 - got.left]
  /\ UNCHANGED <<mode, world, cas, mainq, contents, cells, tank, damage>>

\* "player.gamemode.change".
GameModeChange(p, m) ==
  /\ Message /\ mode[p] # m /\ mode' = [mode EXCEPT ![p] = m]
  /\ UNCHANGED <<inv, world, cas, mainq, contents, cells, tank, ledger, damage>>

\* The machine systems put one unit into the multiblock.  (external)
MachineOutput(i) ==
  /\ Message /\ contents # <<>>
  /\ LET got == giveItem(contents, i, 1, 0)
     IN  /\ got.left = 0 /\ contents' = got.slots
         /\ ledger' = [ledger EXCEPT ![i] = @ + 1]
         /\ damage' = IF \E r \in cas \cup ToSet(mainq) : r.more /\ r.what = "break"
                      THEN damage \cup {"filled meanwhile"} ELSE damage
  /\ UNCHANGED <<inv, mode, world, cas, mainq, cells, tank>>

BlockItems == ItemIds \ {EmptyBucket, FilledBucket}

Next ==
  \/ \E p \in Players :
       \/ \E c \in Pos, i \in ItemIds : Place(p, c, i)
       \/ \E c \in Pos : Break(p, c, world[c])
       \/ FillBucket(p)
       \/ \E i \in ItemIds : ItemAction(p, i)
       \/ \E m \in Modes : GameModeChange(p, m)
  \/ \E i \in BlockItems : MachineOutput(i)
  \/ \E r \in cas : CasAnswer(r)
  \/ Process

Spec == Init /\ [][Next]_vars

(***************************************************************************)
(* Properties.                                                             *)
(***************************************************************************)

\* What a multiblock still holds: nothing of it is counted while the break
\* of its anchor, which has already paid it out, is on its way; a block the
\* store has placed or taken is counted before its item is settled.
Pending(what, i) == Cardinality({k \in 1 .. Len(mainq) : mainq[k].id = 1 /\ mainq[k].what = what /\
                                 (IF what = "place" THEN mainq[k].new ELSE mainq[k].expect) = i})
TotalOf(i) ==
  MapThenSumSet(LAMBDA p : Held(inv[p], i), Players)
  + Cardinality({c \in Pos : world[c] = i}) - Pending("place", i) + Pending("break", i)
  + (IF \E r \in cas \cup ToSet(mainq) : r.what = "break" /\ r.more THEN 0 ELSE Held(contents, i))

\* Blocks and items are exchanged one for one: however placements, breaks,
\* bucket fills, mode changes and their late or failed compare-and-swaps
\* interleave, inventories, the world and the multiblock together hold what
\* the players are owed, unless one of the named things has happened.
BlocksAccounted == damage = {} => \A i \in ItemIds : TotalOf(i) = ledger[i]

\* MachineInteractHandler.cpp: "The machine loses fluid ONLY when the player
\* really ends up holding a filled bucket."
FluidOnlyForBucket ==
  [][tank' < tank => \E p \in Players :
       Held(inv'[p], FilledBucket) = Held(inv[p], FilledBucket) + 1]_vars

\* BreakBlockHandler.cpp: breaking any block of a multiblock "returns ALL
\* hatch+controller contents to the breaking player"; they are paid out once.
ContentsPaidOnce == damage \cap {"member", "twice"} = {}
=============================================================================
