--------------------------- MODULE InventoryClick ---------------------------
(***************************************************************************)
(* The pure rules SimulationCore applies to slots: the click table of      *)
(* game/storage/InventoryClick.h and the grant, fit and deduction passes   *)
(* of the handlers that touch a player's inventory.                        *)
(*                                                                         *)
(* A slot is a stack [item, count].  The item stands for the pair          *)
(* (item_id, meta), which is a stack's identity in SameStack(); item 0 is  *)
(* the empty stack.  ItemId gives its item_id, named by the item of that   *)
(* id whose meta is 0.  An inventory is a sequence of slots; slot numbers  *)
(* are one higher than in the code.  The limit kMaxStack is a constant.    *)
(***************************************************************************)
EXTENDS Integers, Sequences, SequencesExt, FiniteSetsExt

CONSTANTS ItemId(_),     \* the item_id of an item, 0 of the empty stack
          MaxStack,      \* kMaxStack
          HotbarSize,    \* kHotbarCount
          PlayerSlots    \* kInventorySlots

Empty == [item |-> 0, count |-> 0]
Stack(i, n) == IF n = 0 THEN Empty ELSE [item |-> i, count |-> n]

IsEmpty(s) == s.item = 0 \/ s.count = 0
Room(s) == MaxStack - s.count
Blank(n) == [k \in 1 .. n |-> Empty]

\* What a sequence of slots holds of the item id i, whatever the metas.
Held(slots, i) ==
  FoldLeft(LAMBDA n, s : IF ItemId(s.item) = i THEN n + s.count ELSE n, 0, slots)

Taken(s, n) == Stack(s.item, s.count - n)
Put(s, i, n) == Stack(i, s.count + n)

\* Mutant of MergeInto: the limit of the stack is not looked at.
mergeAll(dst, src) == [dst |-> Put(dst, src.item, src.count), src |-> Empty]

\* MergeInto(dst, src): as much of src as dst has room for.
MergeInto(dst, src) ==
  LET n == Min({Room(dst), src.count})
  IN  [dst |-> Put(dst, src.item, n), src |-> Taken(src, n)]

(***************************************************************************)
(* The pass every mover makes over a range of slots, in order: first onto  *)
(* the stacks of the same item that are not full, then the rest into the   *)
(* first empty slot.                                                       *)
(***************************************************************************)
OntoSame(slots, stack, range) ==
  FoldLeft(LAMBDA a, k :
             IF ~ IsEmpty(a.rest) /\ a.slots[k].item = a.rest.item
                /\ a.slots[k].count < MaxStack
             THEN LET m == MergeInto(a.slots[k], a.rest)
                  IN  [slots |-> [a.slots EXCEPT ![k] = m.dst], rest |-> m.src]
             ELSE a,
           [slots |-> slots, rest |-> stack], range)

Insert(slots, stack, range) ==
  LET a == OntoSame(slots, stack, range)
      free == {k \in ToSet(range) : IsEmpty(a.slots[k])}
  IN  IF IsEmpty(a.rest) \/ free = {} THEN a
      ELSE [slots |-> [a.slots EXCEPT ![Min(free)] = a.rest], rest |-> Empty]

Indices(slots) == [k \in 1 .. Len(slots) |-> k]

\* MoveStackToRange(): the slot's stack goes to the other half of the
\* player's slots, or what is left of it goes back.
MoveStackToRange(player, src, range) ==
  LET a == Insert([player EXCEPT ![src] = Empty], player[src], range)
  IN  IF IsEmpty(a.rest) THEN [ok |-> TRUE, player |-> a.slots]
      ELSE [ok |-> FALSE, player |-> [a.slots EXCEPT ![src] = a.rest]]

(***************************************************************************)
(* The rule table.  A view is what one click may touch: the player's slots *)
(* and cursor and the container's slots (<<>> when no container is open).  *)
(* A rule returns the view after the click and the verdict `ok` the caller *)
(* is told ("anything changed").                                           *)
(***************************************************************************)
Changed(v) == [ok |-> TRUE, view |-> v]
Refused(v) == [ok |-> FALSE, view |-> v]

Side(c) == IF c.cid = 0 THEN "player" ELSE "cont"
HasSlot(v, c) == c.cid \in {0, 1} /\ c.slot \in 1 .. Len(v[Side(c)])
SlotAt(v, c) == v[Side(c)][c.slot]
SetBoth(v, c, tgt, cur) ==
  [v EXCEPT ![Side(c)] = [@ EXCEPT ![c.slot] = tgt], !.cursor = cur]

\* One unit from the cursor onto the slot: right-click and drag.
PlaceOne(v, c) ==
  LET t == SlotAt(v, c)
  IN  IF IsEmpty(t) \/ (t.item = v.cursor.item /\ t.count < MaxStack)
      THEN Changed(SetBoth(v, c, Put(IF IsEmpty(t) THEN Empty ELSE t, v.cursor.item, 1),
                           Taken(v.cursor, 1)))
      ELSE Refused(v)

ApplyClick(v, c) ==
  LET t == SlotAt(v, c)
      half == (t.count + 1) \div 2
      m == MergeInto(t, v.cursor)
  IN  CASE ~ HasSlot(v, c) -> Refused(v)
        [] HasSlot(v, c) /\ IsEmpty(v.cursor) ->
             IF IsEmpty(t) THEN Refused(v)
             ELSE IF c.button = "right"
                  THEN Changed(SetBoth(v, c, Taken(t, half), Stack(t.item, half)))
                  ELSE Changed(SetBoth(v, c, Empty, t))
        [] HasSlot(v, c) /\ ~ IsEmpty(v.cursor) ->
             IF c.button = "right" THEN PlaceOne(v, c)
             ELSE IF ~ IsEmpty(t) /\ t.item = v.cursor.item /\ t.count < MaxStack
                  THEN Changed(SetBoth(v, c, m.dst, m.src))
                  ELSE Changed(SetBoth(v, c, v.cursor, t))

\* Shift-click.  A stack that fits only partly is merged as far as it goes
\* and the rest put back, and the verdict is then `false`.
ApplyQuickMove(v, c) ==
  LET from == Side(c)
      to == IF c.cid = 0 THEN "cont" ELSE "player"
      a == Insert(v[to], SlotAt(v, c), Indices(v[to]))
      hot == [k \in 1 .. HotbarSize |-> k]
      main == [k \in 1 .. PlayerSlots - HotbarSize |-> HotbarSize + k]
      m == MoveStackToRange(v.player, c.slot, IF c.slot <= HotbarSize THEN main ELSE hot)
  IN  CASE ~ HasSlot(v, c) -> Refused(v)
        [] HasSlot(v, c) /\ IsEmpty(SlotAt(v, c)) -> Refused(v)
        [] HasSlot(v, c) /\ ~ IsEmpty(SlotAt(v, c)) /\ v.cont # <<>> ->
             [ok |-> IsEmpty(a.rest),
              view |-> [v EXCEPT ![from] = [@ EXCEPT ![c.slot] = a.rest], ![to] = a.slots]]
        [] HasSlot(v, c) /\ ~ IsEmpty(SlotAt(v, c)) /\ v.cont = <<>> ->
             [ok |-> m.ok, view |-> [v EXCEPT !.player = m.player]]

\* Q: the cursor's stack is destroyed, or with an empty cursor the slot's.
ApplyDrop(v, c) ==
  CASE ~ IsEmpty(v.cursor) -> Changed([v EXCEPT !.cursor = Empty])
    [] IsEmpty(v.cursor) /\ HasSlot(v, c) /\ ~ IsEmpty(SlotAt(v, c)) ->
         Changed(SetBoth(v, c, Empty, v.cursor))
    [] OTHER -> Refused(v)

ApplyDragPlace(v, c) ==
  IF IsEmpty(v.cursor) \/ ~ HasSlot(v, c) THEN Refused(v) ELSE PlaceOne(v, c)

\* Double-click: same-item stacks are gathered onto the cursor, the
\* container's first.
Collect(a, slots) ==
  FoldLeft(LAMBDA b, k :
             IF ~ IsEmpty(b.slots[k]) /\ b.slots[k].item = b.cursor.item
                /\ b.cursor.count < MaxStack
             THEN LET m == MergeInto(b.cursor, b.slots[k])
                  IN  [cursor |-> m.dst, slots |-> [b.slots EXCEPT ![k] = m.src]]
             ELSE b,
           [cursor |-> a, slots |-> slots], Indices(slots))

ApplyPickupAll(v, c) ==
  IF IsEmpty(v.cursor) THEN Refused(v)
  ELSE LET x == Collect(v.cursor, v.cont)
           y == Collect(x.cursor, v.player)
       IN  [ok |-> y.cursor # v.cursor,
            view |-> [player |-> y.slots, cursor |-> y.cursor, cont |-> x.slots]]

ApplyContainerClick(v, c) ==
  CASE c.act = "click" -> ApplyClick(v, c)
    [] c.act = "quick" -> ApplyQuickMove(v, c)
    [] c.act = "drop" -> ApplyDrop(v, c)
    [] c.act = "drag" -> ApplyDragPlace(v, c)
    [] c.act = "all" -> ApplyPickupAll(v, c)

(***************************************************************************)
(* The passes of the other handlers.                                       *)
(***************************************************************************)

\* Mutant of giveItem: the whole grant goes into the target slot, as before
\* the clamp.
giveUnclamped(slots, i, n, target) ==
  LET k == Min({j \in 1 .. Len(slots) : ItemId(slots[j].item) \in {0, i}} \cup {Len(slots)})
  IN  [slots |-> [slots EXCEPT ![k] = Put(@, i, n)], left |-> 0]

\* n of the stack `item`: the target slot first (0 for "none"), then onto stacks
\* of its item id, which keep their meta, then empty slots one after the other.
Grant(slots, item, n, target) ==
  LET Fits(s) == IsEmpty(s) \/ ItemId(s.item) = ItemId(item)
      OneSlot(a, k, may) ==
        LET s == a.slots[k]
            f == Min({a.left, Room(s)})
        IN  IF a.left > 0 /\ may
            THEN [slots |-> [a.slots EXCEPT ![k] = Put(s, IF IsEmpty(s) THEN item ELSE s.item, f)],
                  left |-> a.left - f]
            ELSE a
      a0 == [slots |-> slots, left |-> n]
      a1 == IF target \in 1 .. Len(slots) THEN OneSlot(a0, target, Fits(slots[target])) ELSE a0
      a2 == FoldLeft(LAMBDA a, k : OneSlot(a, k, Fits(a.slots[k]) /\ ~ IsEmpty(a.slots[k])),
                     a1, Indices(slots))
  IN  FoldLeft(LAMBDA a, k : OneSlot(a, k, IsEmpty(a.slots[k])), a2, Indices(slots))

\* giveItem(): what is granted has meta 0; the rest is dropped.
giveItem(slots, i, n, target) == Grant(slots, ItemId(i), n, target)

\* tryFitAll(): every stack of `items`, with its meta, into a copy of the inventory.
tryFitAll(slots, items) ==
  FoldLeft(LAMBDA a, s : LET g == Grant(a.slots, s.item, s.count, 0)
                         IN  [slots |-> g.slots, fits |-> a.fits /\ g.left = 0],
           [slots |-> slots, fits |-> TRUE],
           SelectSeq(items, LAMBDA s : ~ IsEmpty(s)))

\* Take up to n of the items in `which`, lowest slot first.
Deduct(slots, which, n) ==
  FoldLeft(LAMBDA a, k :
             IF a.left > 0 /\ ~ IsEmpty(a.slots[k]) /\ a.slots[k].item \in which
             THEN LET m == Min({a.left, a.slots[k].count})
                  IN  [slots |-> [a.slots EXCEPT ![k] = Taken(@, m)], left |-> a.left - m]
             ELSE a,
           [slots |-> slots, left |-> n], Indices(slots)).slots

SlotsOK(slots, Items) ==
  \A k \in 1 .. Len(slots) :
    slots[k] = Empty \/ slots[k] \in [item : Items, count : 1 .. MaxStack]
=============================================================================
