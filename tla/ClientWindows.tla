---------------------------- MODULE ClientWindows ----------------------------
(***************************************************************************)
(* The game client's windows: what the mouse and the drop key send from    *)
(* their slots, and what they ask of the server's recipes.                 *)
(***************************************************************************)
EXTENDS Integers, Sequences, FiniteSets, SequencesExt

(***************************************************************************)
(* The slots.  Frame by frame every open window draws its grids one after  *)
(* the other (SlotGridComponent::Render); the grids share the hover of the *)
(* frame, and only the workbench keeps its grid component for the next     *)
(* frame, the others are made anew.  The server owns slots and cursor; its *)
(* snapshot says here only whether the cursor holds something.             *)
(***************************************************************************)
CONSTANTS HotbarSlots, PlayerSlots, ContainerSlots, MachineIn

None == -1

VARIABLES
    open,            \* the open windows
    loaded,          \* MachineWindow::dataLoaded_
    cursor,          \* InventoryState::cursor holds an item
    last,            \* the workbench grid's lastRightDragSlot_
    hover,           \* InventoryState::hoveredSlot
    mouse,           \* ghost: the input of the frame drawn last, and what was open
    sent             \* the InventoryActions of that frame, each with its grid

slotVars == <<open, loaded, cursor, last, hover, mouse, sent>>

BlockWindows == {"chest", "machine", "workbench"}

Grid(cid, first, count) ==
    [cid |-> cid, slots |-> first .. first + count - 1, kept |-> FALSE]
PlayerGrid == Grid(0, 0, PlayerSlots)

InventoryGrids == <<Grid(0, HotbarSlots, PlayerSlots - HotbarSlots), Grid(0, 0, HotbarSlots)>>
ChestGrids == <<Grid(1, 0, ContainerSlots), PlayerGrid>>
MachineGrids ==
    (IF loaded THEN <<Grid(1, 0, MachineIn), Grid(1, MachineIn, ContainerSlots - MachineIn)>>
               ELSE <<>>) \o <<PlayerGrid>>
WorkbenchGrids == <<[Grid(1, 0, ContainerSlots) EXCEPT !.kept = TRUE], PlayerGrid>>

\* RenderAll draws the player's window first
Screen ==
    (IF "inventory" \in open THEN InventoryGrids ELSE <<>>) \o
    (IF "chest" \in open THEN ChestGrids ELSE <<>>) \o
    (IF "machine" \in open THEN MachineGrids ELSE <<>>) \o
    (IF "workbench" \in open THEN WorkbenchGrids ELSE <<>>)

\* where the mouse may be: nowhere, over the hotbar (0) or over a grid's slot
Nowhere == <<0, None>>
Spots == {Nowhere} \cup ({0} \X (0 .. HotbarSlots - 1)) \cup
         UNION {{g} \X Screen[g].slots : g \in DOMAIN Screen}

-----------------------------------------------------------------------------
(***************************************************************************)
(* DragManager's OnPlayer... and OnContainer... calls: a slot the player    *)
(* does not have is not sent.                                               *)
(***************************************************************************)
Send(d, g, cid, kind, slot) ==
    IF cid = 0 /\ slot \notin 0 .. PlayerSlots - 1 THEN d
    ELSE [d EXCEPT !.sent = Append(@, [grid |-> g, cid |-> cid, kind |-> kind, slot |-> slot])]

\* a mutant: the clicked slot is not claimed
clicksOnly(d, g, cid, in) ==
    LET i == in.over[2]
        seen == [d EXCEPT !.hover = i, !.drag = i]
    IN  IF in.over[1] # g \/ i = None THEN d
        ELSE IF in.press = "none" THEN seen ELSE Send(seen, g, cid, "CLICK", i)

(***************************************************************************)
(* One grid: the slot under the mouse is hovered and clicked; the drop key  *)
(* drops the hovered slot; a held right button places one on every new      *)
(* slot.  d is what the grids of a frame share.                             *)
(***************************************************************************)
Hovered(d, g, cid, in) ==
    LET i == in.over[2]
        seen == [d EXCEPT !.hover = i, !.drag = i]
        clicked == Send(seen, g, cid, "CLICK", i)
    IN  IF in.over[1] # g \/ i = None THEN d
        ELSE IF in.press = "none" THEN seen
        ELSE IF in.press = "left" THEN clicked
        ELSE [clicked EXCEPT !.last = i]

Dropped(d, g, cid, in) ==
    IF in.drop /\ d.hover # None THEN Send(d, g, cid, "DROP", d.hover) ELSE d

Distributed(d, g, cid, in) ==
    IF ~in.held THEN [d EXCEPT !.last = None]
    ELSE IF d.drag \in {None, d.last} THEN d
    ELSE LET placed == IF cursor THEN Send(d, g, cid, "DRAG_PLACE", d.drag) ELSE d
         IN  [placed EXCEPT !.last = d.drag]

Render(d, g, in) ==
    LET drawing == Screen[g]
        start == IF drawing.kept THEN d ELSE [d EXCEPT !.last = None]
        drawn == Distributed(Dropped(Hovered(start, g, drawing.cid, in),
                                     g, drawing.cid, in), g, drawing.cid, in)
    IN  IF drawing.kept THEN drawn ELSE [drawn EXCEPT !.last = d.last]

\* The hotbar is hovered and, with the inventory closed, clicked.
RenderHotbar(d, in) ==
    LET seen == [d EXCEPT !.drag = in.over[2]]
    IN  IF in.over[1] # 0 \/ in.over = Nowhere THEN d
        ELSE IF "inventory" \in open \/ in.press = "none" THEN seen
        ELSE Send(seen, 0, 0, "CLICK", in.over[2])

\* a mutant: the hover of the last frame stays
staleHover == [hover |-> hover, drag |-> None, last |-> last, sent |-> <<>>]

\* the single reset of the hover
FrameStart == [hover |-> None, drag |-> None, last |-> last, sent |-> <<>>]

RenderAll(in) ==
    LET d == FoldLeft(LAMBDA e, g : Render(e, g, in), RenderHotbar(FrameStart, in),
                      [g \in DOMAIN Screen |-> g])
    IN  /\ hover' = d.hover /\ last' = d.last /\ sent' = d.sent
        /\ mouse' = [in EXCEPT !.on = open]
        /\ UNCHANGED <<open, loaded, cursor>>

\* The right button goes down somewhere and stays down for some frames.  A frame
\* has one gesture: the drop key is not pressed with a button.
Frame ==
    \E over \in Spots, press \in {"none", "left", "right"}, held, drop \in BOOLEAN :
        /\ press = "right" <=> held /\ ~mouse.held
        /\ drop => press = "none"
        /\ RenderAll([over |-> over, press |-> press, held |-> held,
                       drop |-> drop, on |-> {}])

-----------------------------------------------------------------------------
\* Opened anew, a machine window waits for its slots.
OpenExclusive(w) ==
    /\ open' = IF w \in open THEN open \ {w} ELSE {w}
    /\ loaded' = FALSE
    /\ UNCHANGED <<cursor, last, hover, mouse, sent>>

DoToggleInventory ==
    /\ open' = IF "inventory" \in open THEN open \ {"inventory"} ELSE open \cup {"inventory"}
    /\ UNCHANGED <<loaded, cursor, last, hover, mouse, sent>>

\* TopWindow is the one registered last
DoCloseTop ==
    /\ open # {}
    /\ open' = IF open \cap BlockWindows = {} THEN {} ELSE open \ BlockWindows
    /\ loaded' = (loaded /\ open \cap BlockWindows = {})
    /\ UNCHANGED <<cursor, last, hover, mouse, sent>>

\* A snapshot of the server: the slots, and the cursor with them.
OnNetworkUpdate(holds) ==
    /\ cursor' = holds
    /\ loaded' = (loaded \/ "machine" \in open)
    /\ UNCHANGED <<open, last, hover, mouse, sent>>

SlotInit ==
    /\ open = {} /\ loaded = FALSE /\ cursor = FALSE /\ last = None /\ hover = None
    /\ mouse = [over |-> Nowhere, press |-> "none", held |-> FALSE,
                 drop |-> FALSE, on |-> {}]
    /\ sent = <<>>

SlotNext ==
    \/ Frame
    \/ \E w \in BlockWindows : OpenExclusive(w)
    \/ DoToggleInventory
    \/ DoCloseTop
    \/ \E holds \in BOOLEAN : OnNetworkUpdate(holds)

SlotSpec == SlotInit /\ [][SlotNext]_slotVars

-----------------------------------------------------------------------------
FromGrid(g) == SelectSeq(sent', LAMBDA a : a.grid = g)

\* The right button stays down over the same slot of the same windows.
StaysDown == /\ mouse.held /\ mouse'.held /\ mouse'.press = "none" /\ ~mouse'.drop
             /\ mouse'.over = mouse.over /\ mouse.on = open

(***************************************************************************)
(* A right click makes its grid send that click and nothing more, and the   *)
(* workbench's grid sends nothing while the button stays down on the slot,  *)
(* whatever the snapshots say of the cursor meanwhile.  (SlotGrid.cpp:      *)
(* "Claim the slot so the distribute block skips it".)                      *)
(***************************************************************************)
GridActsOnce ==
    [][mouse' # mouse \/ sent' # sent =>
        LET g == mouse'.over[1] IN
        g # 0 =>
           /\ mouse'.press = "right" => Len(FromGrid(g)) = 1
           /\ Screen[g].kept /\ StaysDown => FromGrid(g) = <<>>]_slotVars

(***************************************************************************)
(* What the distribute block means for every grid ("RMB held + hover new    *)
(* slot"): no grid sends again for the slot the button stays on.  A grid    *)
(* made anew each frame has forgotten that slot and places one more in      *)
(* every frame (ChestWindow.cpp, PlayerInventoryGrid.h).                    *)
(***************************************************************************)
EveryGridWaits ==
    [][mouse' # mouse \/ sent' # sent =>
        (StaysDown /\ mouse'.over[1] # 0 => FromGrid(mouse'.over[1]) = <<>>)]_slotVars

(***************************************************************************)
(* With the mouse over no slot a frame sends nothing: neither the drop key  *)
(* nor a held button acts on a slot the mouse has left.                     *)
(***************************************************************************)
NothingUnderNothing == mouse.over = Nowhere => sent = <<>>

(***************************************************************************)
(* What the comment at the claim is after and the other grids of the window *)
(* do not keep: a frame with a right click sends one action.                *)
(***************************************************************************)
OneActionPerClick == mouse.press = "right" => Len(sent) <= 1

-----------------------------------------------------------------------------
(***************************************************************************)
(* ServerRecipeDB, the client's cache of what the server knows of recipes, *)
(* with the windows that ask it: a query is answered from the cache, joins *)
(* one that is out for the same key, or is sent; an answer that does not   *)
(* come in time is given up. The crafting window asks for the grid it shows*)
(* and takes an answer only if the grid has not changed since.             *)
(***************************************************************************)
CONSTANTS Keys, KindOf(_), Cap(_), \* what is asked for, its kind, and the caches' sizes
    Grids,                         \* the keys that are grids
    Nothing, Crafted,              \* what the result slot shows besides a preview
    MaxQueries, MaxSnapshots       \* bounds of the runs

VARIABLES
    cache,      \* of each kind the keys cached, the most recently used first
    inFlight, pending, nextRid,    \* itemInFlight_ and the like, pending_, nextReqId_
    requests,   \* the requests the server has not answered
    queries, fired,  \* the callbacks given and how often each was called
    gaveUp,     \* the grid callbacks that found nothing in the cache
    grid, gen, result, snapshots,  \* CraftingGrid
    replaced,   \* ghost: a GridUpdate set the grid and the generation did not move since
    catalog     \* catalogLoaded_ and catalogRequested_
gridVars == <<grid, gen, result, snapshots, replaced>>
recipeVars == <<cache, inFlight, pending, nextRid, requests, queries, fired, gaveUp, gridVars, catalog>>

Kinds == {KindOf(k) : k \in Keys}
RecipeInit ==
    /\ cache = [d \in Kinds |-> <<>>] /\ inFlight = {} /\ pending = {} /\ nextRid = 0 /\ requests = {}
    /\ queries = <<>> /\ fired = <<>> /\ gaveUp = {}
    /\ grid = Nothing /\ gen = 0 /\ result = Nothing /\ snapshots = 0 /\ replaced = FALSE /\ catalog = "none"

\* LruCache::Get and Put.
Cached(k) == \E i \in DOMAIN cache[KindOf(k)] : cache[KindOf(k)][i] = k
Used(k) == [cache EXCEPT ![KindOf(k)] = <<k>> \o Remove(@, k)]
Put(k) ==
    LET q == Remove(cache[KindOf(k)], k)
        kept == IF Cached(k) \/ Len(q) < Cap(KindOf(k)) THEN q ELSE Front(q)
    IN [cache EXCEPT ![KindOf(k)] = <<k>> \o kept]

-----------------------------------------------------------------------------
(* The callbacks: that of a grid shows its result if the grid is still the *)
(* one it was asked for, and does nothing while its answer is not cached.  *)

showsLate(shown, now, g, k) == k
ApplyServerResult(shown, now, g, k) == IF g = now THEN k ELSE shown
Show(shown, now, cs) == FoldLeft(LAMBDA s, n : IF queries[n].key \in Grids
                                               THEN ApplyServerResult(s, now, queries[n].gen, queries[n].key)
                                               ELSE s, shown, cs)
firesFirst(cs) == fired' = [fired EXCEPT ![Head(cs)] = @ + 1]
FireAll(cs) == fired' = [n \in DOMAIN fired |-> IF Contains(cs, n) THEN fired[n] + 1 ELSE fired[n]]
GridsOf(cs) == {n \in Range(cs) : queries[n].key \in Grids}

\* A query of callback n, which is new: GetRecipesForItem, GetRecipesForMachine and CheckGrid.
Query(k, n, g, shown) ==
    /\ queries' = Append(queries, [key |-> k, gen |-> g])
    /\ IF Cached(k)
       THEN /\ cache' = Used(k) /\ fired' = Append(fired, 1)
            /\ result' = IF k \in Grids THEN k ELSE shown
            /\ UNCHANGED <<inFlight, pending, nextRid, requests>>
       ELSE /\ fired' = Append(fired, 0) /\ result' = shown /\ UNCHANGED cache
            /\ IF k \in inFlight /\ \E p \in pending : p.key = k
               THEN /\ pending' = {IF p.key = k THEN [p EXCEPT !.waiting = Append(@, n)] ELSE p : p \in pending}
                    /\ UNCHANGED <<inFlight, nextRid, requests>>
               ELSE /\ inFlight' = inFlight \union {k} /\ nextRid' = nextRid + 1
                    /\ pending' = pending \union {[rid |-> nextRid + 1, key |-> k, waiting |-> <<n>>]}
                    /\ requests' = requests \union {[rid |-> nextRid + 1, key |-> k]}
Ask(k) ==
    /\ Len(queries) < MaxQueries /\ k \notin Grids
    /\ Query(k, Len(queries) + 1, 0, result)
    /\ UNCHANGED <<gaveUp, grid, gen, snapshots, replaced, catalog>>

\* A snapshot of the container replaces the grid and asks for its preview.
Recalc(g) == gen' = gen + 1 /\ Query(g, Len(queries) + 1, gen + 1, Nothing)
OnInventoryUpdate(g) ==
    /\ snapshots < MaxSnapshots /\ Len(queries) < MaxQueries /\ snapshots' = snapshots + 1
    /\ grid' = g /\ Recalc(g) /\ replaced' = FALSE /\ UNCHANGED <<gaveUp, catalog>>
\* The grid the server sends when the workbench is opened and after a craft: the
\* slots are set, and neither is the generation counted nor a preview asked for.
OnGridUpdate(g) ==
    /\ snapshots < MaxSnapshots /\ snapshots' = snapshots + 1
    /\ grid' = g /\ result' = Nothing /\ replaced' = TRUE
    /\ UNCHANGED <<cache, inFlight, pending, nextRid, requests, queries, fired, gaveUp, gen, catalog>>
\* The answer to a craft request: the grid that is left, and the item made.
OnCraftResponse(g) ==
    /\ snapshots < MaxSnapshots /\ snapshots' = snapshots + 1
    /\ grid' = g /\ result' = Crafted /\ gen' = gen + 1 /\ replaced' = FALSE
    /\ UNCHANGED <<cache, inFlight, pending, nextRid, requests, queries, fired, gaveUp, catalog>>

-----------------------------------------------------------------------------
(* Answers and the timeout.                                                *)

\* The callbacks of a request are called: that of a grid reads the cache.
CallBack(p, known) ==
    LET silent == p.key \in Grids /\ ~known IN
    /\ gaveUp' = gaveUp \union IF silent THEN Range(p.waiting) ELSE {}
    /\ IF silent THEN UNCHANGED <<fired, result>>
       ELSE FireAll(p.waiting) /\ result' = Show(result, gen, p.waiting)

\* An answer of another type than was asked for is not cached; the callbacks are called.
HandleRecipeResponse(r, asAsked) ==
    LET ps == {p \in pending : p.rid = r.rid} IN
    /\ r \in requests /\ requests' = requests \ {r}
    /\ IF ps = {} THEN UNCHANGED <<cache, inFlight, pending, fired, gaveUp, result>>
       ELSE LET p == CHOOSE p \in ps : TRUE IN
            /\ pending' = pending \ {p} /\ inFlight' = inFlight \ {p.key}
            /\ cache' = IF asAsked THEN Put(p.key) ELSE IF Cached(p.key) THEN Used(p.key) ELSE cache
            /\ CallBack(p, asAsked \/ Cached(p.key))
    /\ UNCHANGED <<nextRid, queries, grid, gen, snapshots, replaced, catalog>>
RequestLost(r) ==
    /\ r \in requests /\ requests' = requests \ {r}
    /\ UNCHANGED <<cache, inFlight, pending, nextRid, queries, fired, gaveUp, gridVars, catalog>>

\* The callbacks of an expired request are called as if it were answered.
PollTimeouts(p) ==
    /\ p \in pending /\ pending' = pending \ {p} /\ inFlight' = inFlight \ {p.key}
    /\ CallBack(p, Cached(p.key))
    /\ cache' = IF Cached(p.key) THEN Used(p.key) ELSE cache
    /\ UNCHANGED <<nextRid, requests, queries, grid, gen, snapshots, replaced, catalog>>
\* The catalogue is asked for when the client starts and again at every poll
\* until it is there.
RequestCatalog ==
    /\ catalog # "loaded" /\ catalog' = "requested"
    /\ UNCHANGED <<cache, inFlight, pending, nextRid, requests, queries, fired, gaveUp, gridVars>>
CatalogArrives ==
    /\ catalog = "requested" /\ catalog' = "loaded"
    /\ UNCHANGED <<cache, inFlight, pending, nextRid, requests, queries, fired, gaveUp, gridVars>>

RecipeNext ==
    \/ \E k \in Keys : Ask(k)
    \/ \E g \in Grids : OnInventoryUpdate(g) \/ OnGridUpdate(g) \/ OnCraftResponse(g)
    \/ \E r \in requests : RequestLost(r) \/ \E asAsked \in BOOLEAN : HandleRecipeResponse(r, asAsked)
    \/ \E p \in pending : PollTimeouts(p)
    \/ RequestCatalog \/ CatalogArrives
RecipeSpec == RecipeInit /\ [][RecipeNext]_recipeVars

-----------------------------------------------------------------------------
\* Of the queries for one key one is out, and each callback is waiting in one
\* request, was called once, or is that of a grid nobody answered in time
\* (pending_, the in-flight sets, HandleRecipeResponse and PollTimeouts, with
\* answers that come late or not at all).
QueriesAreKept ==
    /\ inFlight = {p.key : p \in pending} /\ Cardinality(inFlight) = Cardinality(pending)
    /\ \A n \in DOMAIN queries :
         Cardinality({p \in pending : Contains(p.waiting, n)}) + fired[n] + (IF n \in gaveUp THEN 1 ELSE 0) = 1
\* The result slot never shows the preview of a grid that is no longer there
\* (the generation CraftingGrid counts and ApplyServerResult compares), but for
\* the one grid a GridUpdate has replaced behind the generation's back: until the
\* next snapshot the answer to what was asked of that grid is still shown.
PreviewIsCurrent ==
    \/ result \in {Nothing, Crafted, grid}
    \/ replaced /\ \E n \in DOMAIN queries : queries[n] = [key |-> result, gen |-> gen]
\* What the generation is for.  GridUpdate breaks it.
StaleRepliesAreDropped == result \in {Nothing, Crafted, grid}
\* Every callback is called when its request expires.
TimeoutsAnswer == gaveUp = {}
==============================================================================
