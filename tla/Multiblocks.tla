---------------------------- MODULE Multiblocks ----------------------------
(***************************************************************************)
(* SimulationCore's picture of the blocks: the entity of every position,    *)
(* the machines on them, the multiblock controllers they form, and how a    *)
(* controller is saved, restored, overheated and blown up.                  *)
(*                                                                         *)
(* A place or break answered by ChunkStore reaches the engine twice: by the *)
(* direct call of the CAS callback and, later, as the BlockChangedEvent     *)
(* that comes back through the router.  `echoes' holds the events under     *)
(* way; the engine may be many blocks ahead of them.  Neither call ever     *)
(* carries a controller id (RouterEventPublisher.cpp:95).                   *)
(*                                                                         *)
(* Positions lie on a line, a pattern is a set of cells relative to its     *)
(* anchor, and heat is reduced to the three bands of pass 2.                *)
(***************************************************************************)
EXTENDS Integers, SequencesExt

CONSTANTS
    Positions,      \* a set of integers
    Air, AnyBlock,      \* no block; a pattern cell that takes every block
    MachineBlocks,  \* blocks the machine registry knows
    HatchBlocks,    \* item hatch blocks: one more slot for the controller
    Legacy,         \* block -> the legacy block that also counts as it
    Patterns,       \* set of [id, controller, cells, hatches]
    BuildsAt,       \* position -> blocks players put there
    Built,          \* the world at the start
    BaseSlots,      \* machine block -> its own slots
    AnchorReach, SingleReach, Delay,
    MaxBuilds, MaxItems, MaxHeats, MaxRestarts, MaxIds, MaxEchoes

VARIABLES
    world,          \* ChunkStore: the block at a position
    block,          \* the entity's Block.id (Air: no entity, or no Block)
    mbOf,           \* the entity's Block.mb_id
    mach,           \* the entity's machine components, or NoMachine
    over,           \* the entity's OverheatComponent, or NoOver
    controllers,    \* controllers_ : id -> [at, blocks], or NoController
    nextId,         \* next_machine_id_
    saved,          \* EntityStateStore: the MultiblockState of an anchor
    loads,          \* LoadEntityState answers on their way, in order
    echoes,         \* BlockChangedEvents on their way, in order
    known,          \* positions that have an entity
    blasted,        \* positions an explosion ever cleared in the engine
    left            \* what the bounds still allow

vars == <<world, block, mbOf, mach, over, controllers, nextId, saved, loads,
          echoes, known, blasted, left>>

NoMachine == [mb |-> 0, ext |-> FALSE, slots |-> -1, items |-> 0, hot |-> 0]
NoOver == [state |-> 0, ticks |-> 0]
NoController == [at |-> 0, blocks |-> {-1000}]
NoBlob == [slots |-> -1, items |-> 0]
Ids == 1..MaxIds
Live == {c \in Ids : controllers[c] # NoController}
IsMachine(p) == mach[p] # NoMachine

-----------------------------------------------------------------------------
(* The pattern registry                                                     *)

equivalentBlock(expected, actual) ==
    \/ expected = actual
    \/ expected \in DOMAIN Legacy /\ actual = Legacy[expected]

isControllerBlock(id) == \E pat \in Patterns : equivalentBlock(pat.controller, id)

\* lookup: the ids of the entities, not of the chunks
BlockAt(blocks, p) == IF p \in Positions THEN blocks[p] ELSE Air

matchLayer(pat, p, blocks) ==
    \A o \in DOMAIN pat.cells :
        pat.cells[o] = AnyBlock \/ equivalentBlock(pat.cells[o], BlockAt(blocks, p + o))

\* every cell of the box, the AnyBlock cells too
collectBlocks(pat, p) == {p + o : o \in DOMAIN pat.cells}

\* a hatch is built, whatever role the pattern gave its place
findHatches(pat, p, blocks) ==
    {p + o : o \in {h \in pat.hatches : BlockAt(blocks, p + h) \in HatchBlocks}}

matchAll(p, blocks) == {pat \in Patterns : matchLayer(pat, p, blocks)}

-----------------------------------------------------------------------------
(* Controllers                                                              *)

removeBlockFromController(ctl, c, p) ==
    IF c \in Ids /\ ctl[c] # NoController
    THEN [ctl EXCEPT ![c].blocks = @ \ {p}]
    ELSE ctl

\* the owners findControllerAt may answer: the map has no order
findControllerAt(p) == {c \in Live : p \in controllers[c].blocks}

\* a mutant: the machine's components are removed before the blob is read
removedFirst(at) == NoBlob

serializeMultiblock(at) ==
    IF mach[at].slots > 0 THEN [slots |-> mach[at].slots, items |-> mach[at].items]
                          ELSE NoBlob

\* what is saved when controller c goes: its blob is read before its machine
\* components are removed
destroyController(c) ==
    LET at == controllers[c].at
    IN  /\ saved' = [saved EXCEPT ![at] = serializeMultiblock(at)]
        /\ controllers' = [controllers EXCEPT ![c] = NoController]

(***************************************************************************)
(* onBlockChanged(p, Air)                                                   *)
(***************************************************************************)
OwnersOf(p) == IF mbOf[p] # 0 THEN {mbOf[p]} \cap Live ELSE findControllerAt(p)

IsAnchor(c, p) == controllers[c].at = p

ReleasesOwner(p) ==
    IF block[p] = Air
    THEN UNCHANGED <<controllers, saved>>
    ELSE \/ /\ OwnersOf(p) = {}
            /\ UNCHANGED <<controllers, saved>>
         \/ \E c \in OwnersOf(p) :
              \/ IsAnchor(c, p) /\ destroyController(c)
              \/ /\ ~IsAnchor(c, p)
                 /\ controllers' = removeBlockFromController(controllers, c, p)
                 /\ UNCHANGED saved

\* a mutant: the Block goes and its machine stays
clearsTheBlock(p) ==
    /\ block' = [block EXCEPT ![p] = Air]
    /\ mbOf' = [mbOf EXCEPT ![p] = 0]
    /\ UNCHANGED mach

ClearsEntity(p) ==
    /\ block' = [block EXCEPT ![p] = Air]
    /\ mbOf' = [mbOf EXCEPT ![p] = 0]
    /\ mach' = [mach EXCEPT ![p] = NoMachine]

Cleared(p) ==
    /\ ReleasesOwner(p)
    /\ ClearsEntity(p)
    /\ UNCHANGED <<nextId, loads>>

(***************************************************************************)
(* onBlockChanged(p, id): the block, then the machine on it                 *)
(***************************************************************************)
\* an event names no controller: an unchanged block keeps its own
KeepsMembership(p, id) == mbOf[p] # 0 /\ block[p] = id

effective_mb_id(p, id) == IF KeepsMembership(p, id) THEN mbOf[p] ELSE 0

LeavesController(p, id) == block[p] # Air /\ mbOf[p] # 0 /\ block[p] # id

Fresh(id) == [mb |-> 0, ext |-> FALSE, slots |-> BaseSlots[id], items |-> 0, hot |-> 0]

\* a new controller block completes a pattern: one of matchAll's answers
Formed(p, id, pat, blocks) ==
    /\ nextId + 1 \in Ids
    /\ controllers' = [controllers EXCEPT
           ![nextId + 1] = [at |-> p, blocks |-> collectBlocks(pat, p)]]
    /\ mbOf' = [mbOf EXCEPT ![p] = nextId + 1]
    /\ mach' = [mach EXCEPT ![p] =
           [Fresh(id) EXCEPT !.mb = nextId + 1, !.ext = TRUE,
                             !.slots = @ + Cardinality(findHatches(pat, p, blocks))]]
    /\ nextId' = nextId + 2
    /\ loads' = Append(loads, [id |-> nextId + 1, blob |-> saved[p]])

Standalone(p, id) ==
    /\ nextId + 1 \in Ids
    /\ mach' = [mach EXCEPT ![p] = Fresh(id)]
    /\ mbOf' = [mbOf EXCEPT ![p] = 0]
    /\ nextId' = nextId + 1
    /\ UNCHANGED <<controllers, loads>>

\* a mutant: the echo's own mb_id decides
echoDecides(p, id) == FALSE

\* MachineSystem must keep its hands off the anchor of a controller
should_external(p, id) ==
    isControllerBlock(id) /\ \E c \in Live : controllers[c].at = p

EchoedMachine(p, id) ==
    /\ mach' = [mach EXCEPT ![p].mb = 0, ![p].ext = should_external(p, id)]
    /\ mbOf' = [mbOf EXCEPT ![p] = effective_mb_id(p, id)]
    /\ controllers' = IF LeavesController(p, id)
                      THEN removeBlockFromController(controllers, mbOf[p], p)
                      ELSE controllers
    /\ UNCHANGED <<nextId, loads>>

PlainBlock(p, id) ==
    /\ mach' = [mach EXCEPT ![p] = NoMachine]
    /\ mbOf' = [mbOf EXCEPT ![p] = effective_mb_id(p, id)]
    /\ controllers' = IF LeavesController(p, id)
                      THEN removeBlockFromController(controllers, mbOf[p], p)
                      ELSE controllers
    /\ UNCHANGED <<nextId, loads>>

BlockSet(p, id) ==
    /\ block' = [block EXCEPT ![p] = id]
    /\ UNCHANGED saved
    /\ \/ id \in MachineBlocks /\ IsMachine(p) /\ EchoedMachine(p, id)
       \/ id \notin MachineBlocks /\ PlainBlock(p, id)
       \/ /\ id \in MachineBlocks /\ ~IsMachine(p)
          /\ LET pats == IF isControllerBlock(id) THEN matchAll(p, block') ELSE {}
             IN  \/ pats = {} /\ Standalone(p, id)
                 \/ \E pat \in pats : Formed(p, id, pat, block')

onBlockChanged(p, id) ==
    /\ known' = IF id = Air THEN known ELSE known \cup {p}
    /\ UNCHANGED <<over, blasted>>
    /\ IF id = Air THEN Cleared(p) ELSE BlockSet(p, id)

-----------------------------------------------------------------------------
(* What players and the router do                                           *)

Spend(what) == left[what] > 0 /\ left' = [left EXCEPT ![what] = @ - 1]

Echo(p, id) == Append(echoes, [at |-> p, id |-> id])

\* the CAS went through: the event is published, then the engine is called
Place(p, id) ==
    /\ Spend("builds")
    /\ Len(echoes) < MaxEchoes
    /\ world[p] = Air
    /\ world' = [world EXCEPT ![p] = id]
    /\ echoes' = Echo(p, id)
    /\ onBlockChanged(p, id)

Break(p) ==
    /\ Spend("builds")
    /\ Len(echoes) < MaxEchoes
    /\ world[p] # Air
    /\ world' = [world EXCEPT ![p] = Air]
    /\ echoes' = Echo(p, Air)
    /\ onBlockChanged(p, Air)

ReceiveBlockChanged ==
    /\ echoes # <<>>
    /\ echoes' = Tail(echoes)
    /\ onBlockChanged(Head(echoes).at, Head(echoes).id)
    /\ UNCHANGED <<world, left>>

\* a player opens a machine the engine has not heard of
MachineOpen(p) ==
    /\ world[p] \in MachineBlocks
    /\ p \notin known
    /\ onBlockChanged(p, world[p])
    /\ UNCHANGED <<world, echoes, left>>

PutItem(p) ==
    /\ IsMachine(p)
    /\ mach[p].items < mach[p].slots
    /\ Spend("items")
    /\ mach' = [mach EXCEPT ![p].items = @ + 1]
    /\ UNCHANGED <<world, block, mbOf, over, controllers, nextId, saved, loads,
                   echoes, known, blasted>>

deserializeMultiblock(c, blob) ==
    LET at == controllers[c].at
    IN  IF c \in Live /\ blob # NoBlob /\ IsMachine(at)
        THEN [mach EXCEPT ![at].slots = blob.slots, ![at].items = blob.items]
        ELSE mach

LoadAnswer ==
    /\ loads # <<>>
    /\ mach' = deserializeMultiblock(Head(loads).id, Head(loads).blob)
    /\ loads' = Tail(loads)
    /\ UNCHANGED <<world, block, mbOf, over, controllers, nextId, saved, echoes,
                   known, blasted, left>>

-----------------------------------------------------------------------------
(* Overheating and the blast: passes of one engine tick                     *)

HeatChanges(p, band) ==
    /\ IsMachine(p) /\ isControllerBlock(block[p])
    /\ band # mach[p].hot
    /\ Spend("heats")
    /\ mach' = [mach EXCEPT ![p].hot = band]
    /\ UNCHANGED <<world, block, mbOf, over, controllers, nextId, saved, loads,
                   echoes, known, blasted>>

\* pass 2: only a machine with a controller id; the ticks survive WARNING
Overheat(p) ==
    IF ~IsMachine(p) \/ mach[p].mb = 0 THEN over[p]
    ELSE IF mach[p].hot = 0 THEN NoOver
    ELSE [state |-> mach[p].hot, ticks |-> over[p].ticks]

Fuse(o, p) ==
    IF IsMachine(p) /\ mach[p].mb # 0 /\ o[p].state = 2
    THEN [o[p] EXCEPT !.ticks = @ + 1]
    ELSE o[p]

Distance(p, q) == IF p > q THEN p - q ELSE q - p
reachFor(p) == IF mach[p].mb # 0 THEN AnchorReach ELSE SingleReach

Epicentres(o) ==
    {p \in Positions : IsMachine(p) /\ mach[p].mb # 0 /\ o[p].state = 2
                                    /\ o[p].ticks >= Delay}

\* a mutant: victims join the list the reach is measured from
chains(epi) ==
    LET near(s) == {p \in Positions : IsMachine(p) /\ \E e \in s : Distance(p, e) <= reachFor(p)}
    IN  near(near(epi) \cup epi) \ epi

\* measured from a real epicentre only: the wave does not relay
Victims(epi) ==
    {p \in Positions \ epi :
        IsMachine(p) /\ \E e \in epi : Distance(p, e) <= reachFor(p)}

AirEchoes(ps) == SetToSeq({[at |-> p, id |-> Air] : p \in ps})

Gone(ps, f, default) == [p \in Positions |-> IF p \in ps THEN default ELSE f[p]]

\* the entities are destroyed, the controllers and ChunkStore are not told
ExplosionTick(o) ==
    LET epi == Epicentres(o)
        dead == epi \cup Victims(epi)
    IN  /\ block' = Gone(dead, block, Air)
        /\ mbOf' = Gone(dead, mbOf, 0)
        /\ mach' = Gone(dead, mach, NoMachine)
        /\ over' = Gone(dead, o, NoOver)
        /\ echoes' = echoes \o AirEchoes(epi) \o AirEchoes(dead \ epi)
        /\ known' = known \ dead
        /\ blasted' = blasted \cup dead

Tick ==
    /\ LET warm == [p \in Positions |-> Overheat(p)]
       IN  ExplosionTick([p \in Positions |-> Fuse(warm, p)])
    /\ UNCHANGED <<world, controllers, nextId, saved, loads, left>>

\* SimulationCore restarts with an empty registry; what it had sent to the
\* router is lost with it
Restart ==
    /\ Spend("restarts")
    /\ block' = [p \in Positions |-> Air]
    /\ mbOf' = [p \in Positions |-> 0]
    /\ mach' = [p \in Positions |-> NoMachine]
    /\ over' = [p \in Positions |-> NoOver]
    /\ controllers' = [c \in Ids |-> NoController]
    /\ nextId' = 1
    /\ loads' = <<>>
    /\ echoes' = <<>>
    /\ known' = {}
    /\ blasted' = {}
    /\ UNCHANGED <<world, saved>>

-----------------------------------------------------------------------------
Init ==
    /\ world = Built
    /\ block = [p \in Positions |-> IF Built[p] \in MachineBlocks THEN Air ELSE Built[p]]
    /\ mbOf = [p \in Positions |-> 0]
    /\ mach = [p \in Positions |-> NoMachine]
    /\ over = [p \in Positions |-> NoOver]
    /\ controllers = [c \in Ids |-> NoController]
    /\ nextId = 1
    /\ saved = [p \in Positions |-> NoBlob]
    /\ loads = <<>>
    /\ echoes = <<>>
    /\ known = {p \in Positions : Built[p] \notin MachineBlocks}
    /\ blasted = {}
    /\ left = [builds |-> MaxBuilds, items |-> MaxItems, heats |-> MaxHeats,
               restarts |-> MaxRestarts]

Next ==
    \/ \E p \in Positions : \/ \E id \in BuildsAt[p] : Place(p, id)
                            \/ Break(p)
                            \/ MachineOpen(p)
                            \/ PutItem(p)
                            \/ \E band \in 0..2 : HeatChanges(p, band)
    \/ ReceiveBlockChanged
    \/ LoadAnswer
    \/ Tick
    \/ Restart

Spec == Init /\ [][Next]_vars

-----------------------------------------------------------------------------
(* Once every event is in, the engine's block at every place that has an     *)
(* entity is ChunkStore's and carries a machine exactly when that block is one,    *)
(* whatever order direct calls and echoes came in.  A blast is left out: it *)
(* clears the engine and never ChunkStore.                                  *)
SettlesToWorld ==
    echoes = <<>> =>
        \A p \in known \ blasted : /\ block[p] = world[p]
                                   /\ IsMachine(p) <=> world[p] \in MachineBlocks

(* The anchor that carries a live controller's id is never left to          *)
(* MachineSystem: two systems would run one machine's recipe.               *)
OneSystemRunsIt ==
    \A p \in Positions :
        IsMachine(p) /\ mbOf[p] \in Live /\ controllers[mbOf[p]].at = p
            => mach[p].ext

(* A controller goes only with its contents saved, except by a restart.     *)
ReleasedIsSaved ==
    [][\A c \in Live :
          controllers'[c] = NoController /\ left'.restarts = left.restarts
          => LET at == controllers[c].at
             IN  mach[at].slots > 0 => saved'[at].items = mach[at].items]_vars

(* A machine dies in a tick only within its own reach of an anchor that had *)
(* burnt its fuse down: the blast does not chain.                           *)
BlastDoesNotChain ==
    [][Tick => \A p \in Positions :
          IsMachine(p) /\ mach'[p] = NoMachine =>
             \E e \in Positions : /\ mach[e].mb # 0 /\ over[e].ticks >= Delay - 1
                                  /\ e = p \/ Distance(p, e) <= reachFor(p)]_vars

-----------------------------------------------------------------------------
(* Claims of the comments that the code does not keep.                      *)

(* The comments of AdjacencyTransferSystem.cpp:272-277 and                  *)
(* ExplosionSystem.cpp:49-53: a controller's anchor carries its id until    *)
(* the controller is destroyed.                                             *)
AnchorKeepsId ==
    \A c \in Live : LET at == controllers[c].at
                    IN  IsMachine(at) /\ mbOf[at] = c => mach[at].mb = c

(* SimulationEngine.cpp:160: "The controller remains alive until its anchor *)
(* is removed."                                                             *)
AliveUntilRemoved ==
    [][\A c \in Live : controllers'[c] = NoController =>
          world'[controllers[c].at] = Air \/ left'.restarts # left.restarts]_vars

(* Once every event is in, a controller stands on a block.                  *)
ControllersHaveAnchors ==
    echoes = <<>> => \A c \in Live : block[controllers[c].at] # Air
=============================================================================
