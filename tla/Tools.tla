-------------------------------- MODULE Tools --------------------------------
(***************************************************************************)
(* SimulationCore's tool handlers: the wrench on machines, hatches, pipes  *)
(* and cables, the drill and charging queries, and the slot requests of a  *)
(* machine window.                                                         *)
(*                                                                         *)
(* Blocks stand in a row from north to south, so that a block has two of   *)
(* the six faces.  A wrench on a pipe reads the block, then its neighbour, *)
(* and then writes the masks of both with two compare-and-swaps that       *)
(* compare the block only.  All four requests travel over one connection   *)
(* to ChunkStore, which serves them in order; the callbacks run as the     *)
(* replies arrive.  A wrench reaches its handler over the router, so       *)
(* handlers of several players come in any order.                          *)
(***************************************************************************)
EXTENDS Naturals, Sequences, FiniteSets, SequencesExt, Functions

CONSTANTS
    Positions,      \* 1 .. n, northernmost first
    Built,          \* position -> the block there at the start
    Players,        \* player ids, natural numbers
    Wrenched,       \* the faces wrench requests name; above 5 is no face
    Tools,          \* item id -> [tier, capacity], for what stores energy
    Stacks,         \* what a slot request may claim: [item, count, meta]
    MaxEvents,      \* bound on wrenches, builds and slot requests
    MaxRestarts     \* bound on restarts

VARIABLES
    world,          \* ChunkStore: position -> [block, meta]
    made,           \* positions of machines and hatches the engine knows
    roles,          \* side_config of each machine and hatch
    slots,          \* machine -> the stack in its slot
    inv,            \* player -> the stack in the slot a request names
    saved,          \* EntityStateStore: machine -> its blob
    cool,           \* lastActionTime_: wrenches of the last 200 ms
    up,             \* whether the connection to ChunkStore is open
    toStore, toSim, \* requests and replies on their way, in order
    told,           \* position -> the last BlockChangedEvent
    answered,       \* wrench -> how many answers it got
    owed,           \* wrenches whose answer waits for ChunkStore
    reports,        \* what the handlers told QuestManager, and drills' owners
    kept,           \* machine -> what the last slot request left in it
    wiped,          \* machines restarted from a blob that is no contents
    excused,        \* joints of which a named race has struck
    left            \* what the bounds still allow

link == <<up, toStore, toSim>>
blocks == <<world, told, excused>>
machines == <<made, roles, slots, inv, saved, kept, wiped>>
toolVars == <<link, blocks, machines, cool, answered, owed, reports, left>>

NORTH == 2
SOUTH == 3
Sides == {NORTH, SOUTH}
Opposite(f) == IF f = NORTH THEN SOUTH ELSE NORTH
Beyond(p, f) == IF f = NORTH THEN p - 1 ELSE p + 1

NoStack == [item |-> 0, count |-> 0, meta |-> 0]
Bare(s) == [s EXCEPT !.meta = 0]
\* A blob of EntityStateStore: a MachineState, or the bytes of another message.
Contents(s) == [isState |-> TRUE, stack |-> s]
Config == [isState |-> FALSE, stack |-> NoStack]

IsPipeOrCable(b) == b \in {"pipe", "cable"}
Machine == {p \in Positions : Built[p] = "machine"}
Hatch == {p \in Positions : Built[p] = "hatch"}
AirBlock == [block |-> "air", meta |-> {}]
BlockAt(p) == IF p \in Positions THEN world[p] ELSE AirBlock

(***************************************************************************)
(* WrenchMeta.h, SideConfig.h                                              *)
(***************************************************************************)
\* A mask of 0 means that every face is open.
Open(meta) == IF meta = {} THEN Sides ELSE meta
Toggled(meta, f) == IF f \in Open(meta) THEN Open(meta) \ {f} ELSE Open(meta) \cup {f}

\* Mutant: the neighbour's mask is toggled on the face that was clicked.
sameFaceOfBoth(f, host, neighbour) ==
    [host |-> Toggled(host, f), neighbour |-> Toggled(neighbour, f)]
computePipeToggle(f, host, neighbour) ==
    [host |-> Toggled(host, f), neighbour |-> Toggled(neighbour, Opposite(f))]

nextSideRole(role, hasFluid, hasEnergy) ==
    CASE role = "INPUT" -> IF hasEnergy THEN "ENERGY" ELSE IF hasFluid THEN "FLUID_IN" ELSE "OUTPUT"
      [] role = "ENERGY" -> "ANY"
      [] role = "FLUID_IN" -> "FLUID_OUT"
      [] role = "FLUID_OUT" -> IF hasFluid THEN "FLUID_IN" ELSE "INPUT"
      [] OTHER -> "INPUT"
AnySide == [f \in Sides |-> "ANY"]

(***************************************************************************)
(* Requests to ChunkStore                                                  *)
(***************************************************************************)
Get(op, n, p, f, host) == [op |-> op, n |-> n, at |-> p, face |-> f, host |-> host]
\* joint is the face it toggles; was and alone say what its wrench had read.
Cas(p, expected, block, meta, f, was, alone) ==
    [op |-> "cas", at |-> p, expected |-> expected, block |-> block, meta |-> meta,
     face |-> f, was |-> was, alone |-> alone]
NoFace == 9

Joints == {p \in Positions : p + 1 \in Positions}
JointsOf(p) == Joints \cap {p - 1, p}
JointOn(p, f) == Joints \cap {IF f = NORTH THEN p - 1 ELSE p}
Joined(w, p) == IsPipeOrCable(w[p].block) /\ IsPipeOrCable(w[p + 1].block)
Agree(w, p) == Joined(w, p) => (SOUTH \in Open(w[p].meta) <=> NORTH \in Open(w[p + 1].meta))

\* The joints that compare-and-swaps on their way were to change.
Pending == {r \in ToSet(toStore) : r.op = "cas"}
Unfinished == UNION {JointsOf(r.at) : r \in Pending}

Report(kind, ok, energy) == [kind |-> kind, ok |-> ok, energy |-> energy]
Answer(n) == answered' = [answered EXCEPT ![n] = @ + 1] /\ owed' = owed \ {n}

(***************************************************************************)
(* The wrench: WrenchHandler, WrenchActionHandler                          *)
(***************************************************************************)
\* The packed key: the player and the z coordinate share its bits 16 to 31.
Xor(a, b) == LET d(k) == (a \div k + b \div k) % 2 IN d(1) + 2 * d(2) + 4 * d(4)
cooldownKey(pl, p, f) == <<Xor(pl, p), f>>

\* A machine's face is cycled, saved under the key of its contents and
\* published; a hatch has one role for all its faces, which is not saved.
cycleFace(p, f) ==
    IF p \in Machine
    THEN /\ roles' = [roles EXCEPT ![p][f] = nextSideRole(@, FALSE, TRUE)]
         /\ saved' = [saved EXCEPT ![p] = Config]
    ELSE /\ roles' = [roles EXCEPT ![p] = [g \in Sides |-> nextSideRole(@[f], TRUE, FALSE)]]
         /\ UNCHANGED saved

Number == MaxEvents - left.events + 1
Wrench(pl, p, f) ==
    /\ left.events > 0
    /\ left' = [left EXCEPT !.events = @ - 1]
    /\ cooldownKey(pl, p, f) \notin cool
    /\ cool' = cool \cup {cooldownKey(pl, p, f)}
    /\ UNCHANGED <<blocks, slots, inv, made, kept, wiped>>

\* What the engine knows is answered at once.
WrenchMachine(pl, p, f) ==
    /\ p \in made
    /\ Wrench(pl, p, f) /\ Answer(Number)
    /\ IF f \in Sides THEN cycleFace(p, f) ELSE UNCHANGED <<roles, saved>>
    /\ reports' = IF f \in Sides /\ p \in Machine
                  THEN reports \cup {Report("side", TRUE, 0)} ELSE reports
    /\ UNCHANGED link

\* Anywhere else the block is read first; without a connection the callback
\* runs at once, with air. A face that is none is dropped without an answer.
WrenchBlock(pl, p, f) ==
    /\ p \notin made
    /\ Wrench(pl, p, f)
    /\ IF f \notin Sides THEN UNCHANGED <<link, answered, owed>>
       ELSE IF up THEN /\ toStore' = Append(toStore, Get("host", Number, p, f, AirBlock))
                       /\ owed' = owed \cup {Number}
                       /\ UNCHANGED <<up, toSim, answered>>
       ELSE Answer(Number) /\ UNCHANGED link
    /\ UNCHANGED <<roles, saved, reports>>

WrenchSkipped(pl, p, f) ==
    /\ left.events > 0
    /\ left' = [left EXCEPT !.events = @ - 1]
    /\ cooldownKey(pl, p, f) \in cool
    /\ UNCHANGED <<link, blocks, machines, cool, answered, owed, reports>>

CooledDown(key) ==
    /\ cool' = cool \ {key}
    /\ UNCHANGED <<link, blocks, machines, answered, owed, reports, left>>

\* The masks written once both blocks were read: of the host always, of the
\* neighbour if it is a pipe or cable too.
Toggle(p, f, host, neighbour) ==
    LET both == IsPipeOrCable(neighbour.block)
        t == computePipeToggle(f, host.meta, IF both THEN neighbour.meta ELSE {})
        h == Cas(p, host.block, host.block, t.host, f, host.meta, ~both)
        n == Cas(Beyond(p, f), neighbour.block, neighbour.block, t.neighbour, Opposite(f),
                 neighbour.meta, FALSE)
    IN  IF both THEN <<h, n>> ELSE <<h>>

\* The reply to the read of the host.
ReceiveHost(r) ==
    /\ r.op = "host"
    /\ IF ~IsPipeOrCable(r.got.block) THEN Answer(r.n) /\ UNCHANGED toStore
       ELSE /\ toStore' = Append(toStore, Get("neighbour", r.n, Beyond(r.at, r.face), r.face, r.got))
            /\ UNCHANGED <<answered, owed>>
    /\ UNCHANGED <<blocks, machines>>

\* The reply to the read of the neighbour: both writes are sent, and the
\* player is told of success before either is served.
ReceiveNeighbour(r) ==
    /\ r.op = "neighbour"
    /\ toStore' = toStore \o Toggle(Beyond(r.at, Opposite(r.face)), r.face, r.host, r.got)
    /\ Answer(r.n)
    /\ UNCHANGED <<blocks, machines>>

\* A write that succeeded is published.
ReceiveCas(r) ==
    /\ r.op = "cas"
    /\ told' = IF r.ok THEN [told EXCEPT ![r.at] = [block |-> r.block, meta |-> r.meta]] ELSE told
    /\ UNCHANGED <<toStore, world, excused, machines, answered, owed>>

(***************************************************************************)
(* The drill and the charger: ToolActionHandler                            *)
(***************************************************************************)
InHand(pl, tool) == inv[pl].item = tool
hasDrill(pl, tool) == InHand(pl, tool) /\ tool \in DOMAIN Tools /\ Tools[tool].drill
energyRemaining(pl, tool) == IF hasDrill(pl, tool) THEN inv[pl].meta ELSE 0
fullyCharged(pl, tool) ==
    /\ InHand(pl, tool) /\ tool \in DOMAIN Tools
    /\ inv[pl].meta >= Tools[tool].capacity

\* A charged tool is reported each time it is asked for.
ChargeItem(pl, tool) ==
    /\ fullyCharged(pl, tool)
    /\ reports' = reports \cup {Report("charged", TRUE, 0)}
    /\ UNCHANGED <<link, blocks, machines, cool, answered, owed, left>>
\* A drill is told whether it is one, and what is left in it.
MineBlock(pl, tool) ==
    /\ reports' = reports \cup {Report("drill", hasDrill(pl, tool), energyRemaining(pl, tool))}
    /\ UNCHANGED <<link, blocks, machines, cool, answered, owed, left>>

(***************************************************************************)
(* Slot requests of a machine window: MachineSlotHandler                   *)
(***************************************************************************)
\* The slot takes what the request claims, the player's slot what the machine's
\* slot held: also nothing, when a stack was put in; when nothing was claimed
\* and there was nothing, the player's slot stays. Whatever the player held
\* is not looked at. A slot out of bounds leaves the player alone.
Traded(mine, claimed, old) ==
    IF claimed # NoStack \/ old # NoStack THEN old ELSE mine

SetMachineSlot(pl, m, claimed, inBounds) ==
    /\ left.events > 0 /\ left' = [left EXCEPT !.events = @ - 1]
    /\ m \in made \cap Machine
    /\ slots' = [slots EXCEPT ![m] = Bare(claimed)]
    /\ inv' = IF inBounds THEN [inv EXCEPT ![pl] = Traded(@, claimed, slots[m])] ELSE inv
    /\ reports' = IF inBounds /\ claimed = NoStack /\ slots[m] # NoStack
                 THEN reports \cup {Report("output", TRUE, 0)} ELSE reports
    /\ saved' = [saved EXCEPT ![m] = Contents(Bare(claimed))]
    /\ kept' = [kept EXCEPT ![m] = Bare(claimed)] /\ wiped' = wiped \ {m}
    /\ UNCHANGED <<link, blocks, made, roles, cool, answered, owed>>

\* A machine the engine does not know is made from what ChunkStore says is
\* there; the request itself is refused.
SetUnknownSlot(m) ==
    /\ left.events > 0 /\ left' = [left EXCEPT !.events = @ - 1]
    /\ m \in Machine \ made /\ up
    /\ toStore' = Append(toStore, Get("lazy", 0, m, NoFace, AirBlock))
    /\ UNCHANGED <<up, toSim, blocks, machines, cool, answered, owed, reports>>

\* onMachineCreated loads the saved contents, if they are contents.
Restored(m) == IF saved[m].isState THEN saved[m].stack ELSE NoStack
ReceiveLazy(r) ==
    /\ r.op = "lazy"
    /\ IF r.got.block # "air" /\ r.at \notin made
       THEN /\ made' = made \cup {r.at}
            /\ slots' = [slots EXCEPT ![r.at] = Restored(r.at)]
       ELSE UNCHANGED <<made, slots>>
    /\ UNCHANGED <<toStore, blocks, roles, inv, saved, kept, wiped, answered, owed>>

(***************************************************************************)
(* ChunkStore and the connection to it                                     *)
(***************************************************************************)
\* What strikes a joint when a compare-and-swap is served: it is refused; the
\* mask changed after it was read; the last open face is closed, which opens
\* them all; the neighbour it was to leave alone has become a pipe.
Struck(r, ok) ==
    IF r.face = NoFace THEN {}
    ELSE (IF ~ok THEN JointOn(r.at, r.face) ELSE {})
         \cup (IF ok /\ (world[r.at].meta # r.was \/ r.meta = {}) THEN JointsOf(r.at) ELSE {})
         \cup (IF r.alone THEN JointOn(r.at, r.face) ELSE {})

ServeGet(r) ==
    /\ r.op # "cas"
    /\ toSim' = Append(toSim, [op |-> r.op, n |-> r.n, at |-> r.at, face |-> r.face,
                               host |-> r.host, got |-> BlockAt(r.at)])
    /\ UNCHANGED blocks
ServeCas(r) ==
    /\ r.op = "cas"
    /\ LET ok == world[r.at].block = r.expected
       IN  /\ world' = IF ok THEN [world EXCEPT ![r.at] = [block |-> r.block, meta |-> r.meta]]
                       ELSE world
           /\ toSim' = Append(toSim, [op |-> "cas", at |-> r.at, ok |-> ok, block |-> r.block,
                                      meta |-> r.meta])
           /\ excused' = IF r.face # NoFace THEN excused \cup {j \in Struck(r, ok) : Joined(world', j)}
                         ELSE (excused \ JointsOf(r.at)) \cup {j \in JointsOf(r.at) : ~Agree(world', j)}
    /\ UNCHANGED told
Serve ==
    /\ toStore # << >>
    /\ toStore' = Tail(toStore)
    /\ ServeGet(Head(toStore)) \/ ServeCas(Head(toStore))
    /\ UNCHANGED <<up, machines, cool, answered, owed, reports, left>>

Receive ==
    /\ toSim # << >>
    /\ toSim' = Tail(toSim)
    /\ LET r == Head(toSim)
       IN  ReceiveHost(r) \/ ReceiveNeighbour(r) \/ ReceiveCas(r) \/ ReceiveLazy(r)
    /\ UNCHANGED <<up, cool, reports, left>>

\* Another player places or breaks: a compare-and-swap over the same connection.
Build(p) ==
    /\ left.events > 0 /\ left' = [left EXCEPT !.events = @ - 1] /\ up
    /\ Built[p] \notin {"machine", "hatch"}
    /\ LET to == IF world[p].block = "air" THEN "pipe" ELSE "air"
       IN  toStore' = Append(toStore, Cas(p, world[p].block, to, {}, NoFace, {}, FALSE))
    /\ UNCHANGED <<up, toSim, blocks, machines, cool, answered, owed, reports>>

\* The connection closes: no callback that waits is ever called.
Cut ==
    /\ up /\ up' = FALSE
    /\ toStore' = << >> /\ toSim' = << >> /\ owed' = {}
    /\ excused' = excused \cup Unfinished
    /\ UNCHANGED <<world, told, machines, cool, answered, reports, left>>

\* SimulationCore starts again: machines are made anew when they are asked for.
Restart ==
    /\ left.restarts > 0 /\ left' = [left EXCEPT !.restarts = @ - 1]
    /\ up' = TRUE /\ toStore' = << >> /\ toSim' = << >> /\ owed' = {} /\ cool' = {}
    /\ made' = {} /\ slots' = [m \in Machine |-> NoStack]
    /\ roles' = [p \in Machine \cup Hatch |-> AnySide]
    /\ wiped' = wiped \cup {m \in Machine : ~saved[m].isState}
    /\ excused' = excused \cup Unfinished
    /\ UNCHANGED <<world, told, inv, saved, kept, answered, reports>>

ToolInit ==
    /\ world = [p \in Positions |-> [block |-> Built[p], meta |-> {}]]
    /\ told = world /\ excused = {}
    /\ made = Machine \cup Hatch /\ roles = [p \in made |-> AnySide]
    /\ slots = [m \in Machine |-> NoStack] /\ kept = slots /\ wiped = {}
    /\ saved = [m \in Machine |-> Contents(NoStack)]
    /\ inv \in [Players -> Stacks]
    /\ up = TRUE /\ toStore = << >> /\ toSim = << >>
    /\ cool = {} /\ answered = [n \in 1 .. MaxEvents |-> 0] /\ owed = {} /\ reports = {}
    /\ left = [events |-> MaxEvents, restarts |-> MaxRestarts]

ToolNext ==
    \/ \E pl \in Players, p \in Positions, f \in Wrenched :
          WrenchMachine(pl, p, f) \/ WrenchBlock(pl, p, f) \/ WrenchSkipped(pl, p, f)
    \/ \E key \in cool : CooledDown(key)
    \/ \E pl \in Players, t \in DOMAIN Tools : ChargeItem(pl, t) \/ MineBlock(pl, t)
    \/ \E pl \in Players, m \in Machine, s \in Stacks, b \in BOOLEAN : SetMachineSlot(pl, m, s, b)
    \/ \E m \in Machine : SetUnknownSlot(m)
    \/ \E p \in Positions : Build(p)
    \/ Serve \/ Receive \/ Cut \/ Restart
ToolSpec == ToolInit /\ [][ToolNext]_toolVars

(***************************************************************************)
(* Properties                                                              *)
(***************************************************************************)
\* Two pipes side by side agree on whether the face between them is open once
\* no write to either is under way, unless a named race struck the joint: a
\* write refused, a mask that changed between its read and its write, a block
\* built meanwhile, the last open face closed, a lost connection
\* (WrenchActionHandler::handle, computePipeToggle).
JointsAgree == \A j \in Joints \ (excused \cup Unfinished) : Agree(world, j)

\* A wrench is answered once at most, and one that waits for ChunkStore has its
\* read under way (WrenchActionHandler::handle).
WrenchesAnswered ==
    /\ \A n \in DOMAIN answered : answered[n] <= 1
    /\ \A n \in owed : \E r \in ToSet(toStore \o toSim) :
          r.op \in {"host", "neighbour"} /\ r.n = n

\* A machine holds what the last slot request left in it, over any restart but
\* one that finds a wrench's configuration saved over its contents
\* (MachineSlotHandler::handle, WrenchHandler::cycleFace, onMachineCreated).
ContentsSurvive == \A m \in (made \cap Machine) \ wiped : slots[m] = kept[m]

\* While the connection is open, what players were last told of a block is what
\* is there once nothing of it is under way (publishBlockChanged).
ToldIsWorld ==
    up /\ left.restarts = MaxRestarts =>
        \A p \in Positions :
            (\A r \in ToSet(toStore \o toSim) : r.op = "cas" => r.at # p) => told[p] = world[p]

\* All of it.
ToolsAccounted == JointsAgree /\ WrenchesAnswered /\ ContentsSurvive /\ ToldIsWorld

\* Not so without excuses: after a wrench, the saved contents are gone at the
\* next restart.
NothingIsWiped == wiped = {}

\* Nor do joints agree without them. Where two masks disagree, a wrench turns
\* both, so that they still disagree and the pipes are never joined.
NoneExcused == excused = {}
===============================================================================
