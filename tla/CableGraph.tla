----------------------------- MODULE CableGraph -----------------------------
(***************************************************************************)
(* The pipe network's CableGraph: electricity as packets on cables.  Block  *)
(* events place, mask and remove cables, machine updates tie a machine to   *)
(* the cable beside it, a tick carries the packets and burns what they      *)
(* overload.                                                                *)
(*                                                                         *)
(* A node's id is the posKey of its position, so a cable stands for its id; *)
(* 0, "no cable", is the key of Origin.  Positions have no negative         *)
(* coordinate: only there does packPos tell all positions apart.            *)
(***************************************************************************)
EXTENDS Integers, Sequences, SequencesExt, Functions, TLC

CONSTANTS
    Positions,       \* where blocks may be
    Origin,          \* <<0, 0, 0>>
    Defs,            \* cable block -> [max, amp, loss, tier]
    Metas,           \* connection masks: sets of faces, {} is "all"
    Machines, At,    \* machines and the position of each
    Tiers,           \* tiers a machine update may carry; 0 is any
    Voltages,        \* voltages of the packets
    Threshold, Spike, Extra, Cooldown,     \* CableOverheat.h
    MaxEvents, MaxPackets, MaxTicks

VARIABLES
    nodes,           \* m_nodes: position -> cable
    networks,        \* m_cableNetworks, as sets
    consumers,       \* m_machineToCable
    exploded,        \* m_explodedThisTick
    done             \* events, packets and ticks so far, for the bounds

vars == <<nodes, networks, consumers, exploded, done>>

\* {+X,-X,+Y,-Y,+Z,-Z}, the bits of a mask
Offsets == <<<<1,0,0>>, <<-1,0,0>>, <<0,1,0>>, <<0,-1,0>>, <<0,0,1>>, <<0,0,-1>>>>
Faces == DOMAIN Offsets
Opposite(f) == IF f % 2 = 1 THEN f + 1 ELSE f - 1
Beyond(p, f) == [i \in 1..3 |-> p[i] + Offsets[f][i]]
Open(meta, f) == meta = {} \/ f \in meta

-----------------------------------------------------------------------------
(***************************************************************************)
(* The three searches of CableGraph.cpp are one: breadth first over cables, *)
(* the faces in their order.  Paths is the queue it goes through.           *)
(***************************************************************************)
\* a mutant: the neighbour's face is not asked
asksOwnFace(n, p, f) == Beyond(p, f) \in DOMAIN n /\ Open(n[p].meta, f)

Linked(n, p, f) ==
    LET q == Beyond(p, f)
    IN  q \in DOMAIN n /\ Open(n[p].meta, f) /\ Open(n[q].meta, Opposite(f))

Discover(n, queue, path) ==
    FoldLeft(LAMBDA q, f :
                LET p == Last(path) IN
                IF Linked(n, p, f) /\ \A i \in DOMAIN q : Last(q[i]) # Beyond(p, f)
                THEN Append(q, Append(path, Beyond(p, f))) ELSE q,
             queue, [f \in Faces |-> f])

Paths(n, from) ==
    FoldLeft(LAMBDA q, i : IF i \in DOMAIN q THEN Discover(n, q, q[i]) ELSE q,
             <<<<from>>>>, [i \in 1..Cardinality(DOMAIN n) |-> i])

firstTo(n, from, ends) ==
    LET found == SelectSeq(Paths(n, from), LAMBDA path : Last(path) \in ends)
    IN  IF found = <<>> THEN <<>> ELSE Head(found)

findPath(n, from, to) ==
    IF Origin \in {from, to} THEN <<>> ELSE firstTo(n, from, {to})

rebuildGraph(n) ==
    {{Last(path) : path \in ToSet(Paths(n, p))} : p \in DOMAIN n}

-----------------------------------------------------------------------------
addCableNode(p, b, meta) ==
    /\ nodes' = (p :> [def |-> Defs[b], meta |-> meta, temp |-> 0, seen |-> 0,
                       count |-> 0, in |-> <<>>, out |-> <<>>]) @@ nodes
    /\ UNCHANGED <<networks, consumers>>

\* the same mask changes nothing and rebuilds nothing
setCableMeta(p, meta) ==
    /\ nodes' = [nodes EXCEPT ![p].meta = meta]
    /\ networks' = IF nodes[p].meta = meta THEN networks ELSE rebuildGraph(nodes')
    /\ UNCHANGED consumers

\* m_machineToCable is erased under the cable's id, which no machine has
Without(n, S) == Restrict(n, DOMAIN n \ S)

removeCableNode(p) ==
    /\ nodes' = Without(nodes, {p})
    /\ networks' = IF p \in DOMAIN nodes THEN rebuildGraph(nodes') ELSE networks
    /\ UNCHANGED consumers

\* A block event at p: "air", a cable, or another block, which the graph is not told of.
BlockChanged(p, b, meta) ==
    /\ done.events < MaxEvents
    /\ \/ b = "air" /\ removeCableNode(p)
       \/ b \in DOMAIN Defs /\ p \in DOMAIN nodes /\ setCableMeta(p, meta)
       \/ b \in DOMAIN Defs /\ p \notin DOMAIN nodes /\ addCableNode(p, b, meta)
    /\ done' = [done EXCEPT !.events = @ + 1]
    /\ UNCHANGED exploded

findAdjacentCable(p, tier) ==
    LET fits == SelectSeq([f \in Faces |-> Beyond(p, f)],
                          LAMBDA q : q \in DOMAIN nodes
                                     /\ tier \in {0, nodes[q].def.tier})
    IN  IF fits = <<>> THEN Origin ELSE Head(fits)

\* A machine's update ties it to the first fitting cable; nothing unties it.
registerMachine(m, tier) ==
    LET c == findAdjacentCable(At[m], tier) IN
    /\ c # Origin
    /\ consumers' = (m :> c) @@ consumers
    /\ UNCHANGED <<nodes, networks, exploded, done>>

\* No caller in the services yet: the packets come from the component's tests.
injectPacket(v, m, p) ==
    /\ done.packets < MaxPackets /\ p \in DOMAIN nodes
    /\ nodes' = [nodes EXCEPT ![p].in = Append(@, [volt |-> v, target |-> m])]
    /\ done' = [done EXCEPT !.packets = @ + 1]
    /\ UNCHANGED <<networks, consumers, exploded>>

collectPackets(m) ==
    /\ m \in DOMAIN consumers /\ consumers[m] \in DOMAIN nodes
    /\ nodes[consumers[m]].out # <<>>
    /\ nodes' = [nodes EXCEPT ![consumers[m]].out = <<>>]
    /\ UNCHANGED <<networks, consumers, exploded, done>>

-----------------------------------------------------------------------------
(***************************************************************************)
(* tick().  A packet walks its path at once.  What a cable cannot take is   *)
(* passed over: the walk goes on from where it stood.  Every cable entered  *)
(* keeps a copy in packetsOut.                                              *)
(***************************************************************************)
effectiveVoltage(loss, v) == IF v > loss THEN v - loss ELSE 0

Forward(w, next) ==
    LET saw == [w.n EXCEPT ![next].seen = IF w.volt > @ THEN w.volt ELSE @]
        v == effectiveVoltage(w.n[w.at].def.loss, w.volt)
        counted == [saw EXCEPT ![w.at].count = @ + 1]
    IN  IF w.volt > w.n[next].def.max \/ v = 0 THEN [w EXCEPT !.n = saw]
        ELSE IF counted[w.at].count > w.n[w.at].def.amp
        THEN [w EXCEPT !.n = counted, !.volt = v]
        ELSE [at |-> next, volt |-> v,
              n |-> [counted EXCEPT ![next].out =
                        Append(@, [volt |-> v, target |-> w.target])],
              target |-> w.target]

\* target 0 goes to the nearest cable that has a machine
Route(n, from, target) ==
    IF target = 0 THEN firstTo(n, from, Range(consumers) \cap DOMAIN n)
    ELSE IF target \in DOMAIN consumers THEN findPath(n, from, consumers[target])
    ELSE <<>>

Carry(n, from, packet) ==
    LET path == Route(n, from, packet.target)
        start == [at |-> from, volt |-> packet.volt, n |-> n, target |-> packet.target]
    IN  IF path = <<>> THEN n ELSE FoldLeft(Forward, start, Tail(path)).n

Drain(n, p) ==
    FoldLeft(LAMBDA c, packet : Carry(c, p, packet), [n EXCEPT ![p].in = <<>>], n[p].in)

\* a mutant: what a cable saw is kept from tick to tick
keepsWhatItSaw(n) == [p \in DOMAIN n |-> [n[p] EXCEPT !.count = 0]]

Cleared(n) == [p \in DOMAIN n |-> [n[p] EXCEPT !.count = 0, !.seen = 0]]

calculateOverheat(c) ==
    LET volts == IF c.seen > c.def.max THEN (c.seen - c.def.max) * Spike ELSE 0
        amps == IF c.count > c.def.amp THEN (c.count - c.def.amp) * Extra ELSE 0
        temp == c.temp + volts + amps - Cooldown
    IN  IF temp > 0 THEN temp ELSE 0

\* m_nodes is unordered, and with it the networks and what is in them
Loaded == {p \in DOMAIN nodes \cap UNION networks : nodes[p].in # <<>>}

tick ==
    /\ done.ticks < MaxTicks
    /\ \E order \in SetToSeqs(Loaded) :
         LET carried == FoldLeft(Drain, Cleared(nodes), order)
             hot == [p \in DOMAIN carried |->
                        [carried[p] EXCEPT !.temp = calculateOverheat(carried[p])]]
             burst == {p \in DOMAIN hot : hot[p].temp >= Threshold}
         IN  /\ exploded' = burst
             /\ nodes' = Without(hot, burst)
             /\ networks' = IF burst = {} THEN networks ELSE rebuildGraph(nodes')
    /\ done' = [done EXCEPT !.ticks = @ + 1]
    /\ UNCHANGED consumers

-----------------------------------------------------------------------------
Init ==
    /\ nodes = <<>> /\ networks = {} /\ consumers = <<>> /\ exploded = {}
    /\ done = [events |-> 0, packets |-> 0, ticks |-> 0]

Next ==
    \/ \E p \in Positions, b \in DOMAIN Defs \cup {"air"}, meta \in Metas :
          BlockChanged(p, b, meta)
    \/ \E m \in Machines, tier \in Tiers : registerMachine(m, tier)
    \/ \E v \in Voltages, m \in Machines \cup {0}, p \in Positions : injectPacket(v, m, p)
    \/ \E m \in Machines : collectPackets(m)
    \/ tick

Spec == Init /\ [][Next]_vars

-----------------------------------------------------------------------------
(***************************************************************************)
(* Two cables of one network are joined by cables whose touching faces are  *)
(* both open, and two so joined are in one network, however the masks and   *)
(* the cables came and went.  (A cable is in no network until the next      *)
(* rebuild after its placing.)                                              *)
(***************************************************************************)
Wired(p, q) ==
    \E f \in Faces : /\ q = Beyond(p, f)
                     /\ Open(nodes[p].meta, f) /\ Open(nodes[q].meta, Opposite(f))
Closed(S) == \A p \in S, q \in DOMAIN nodes : Wired(p, q) => q \in S
Same(p, q) == \A S \in SUBSET DOMAIN nodes : p \in S /\ Closed(S) => q \in S

NetworksAreTheWires ==
    DOMAIN nodes \subseteq UNION networks =>
        \A p, q \in DOMAIN nodes :
            (\E net \in networks : {p, q} \subseteq net) <=> Same(p, q)

(***************************************************************************)
(* A tick in which no cable has a packet waiting bursts nothing: a cable    *)
(* burns for what passed in this tick, on top of the heat it kept.          *)
(***************************************************************************)
QuietTickIsSafe ==
    [][done'.ticks # done.ticks /\ Loaded = {} => exploded' = {}]_vars

(***************************************************************************)
(* What the tests say and the placing of a cable does not do: a cable is    *)
(* part of a network.                                                       *)
(***************************************************************************)
PlacedIsNetworked == DOMAIN nodes \subseteq UNION networks
=============================================================================
