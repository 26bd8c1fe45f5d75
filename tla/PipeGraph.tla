----------------------------- MODULE PipeGraph ------------------------------
(***************************************************************************)
(* The PipeNetwork service: the graph it keeps of pipes, cables and        *)
(* machines, from the messages it gets, and what a tick moves over it.     *)
(* The world is a row of positions, each with an east and a west face.     *)
(* The history is studied for one resource at a time ("fluid", "item",     *)
(* "heat" or "energy", chosen at the start): a node carries the amount,    *)
(* the capacity and the roles it has in that domain.  Pipes of another     *)
(* kind, which must stay apart, are built among the fluid pipes.           *)
(*                                                                         *)
(* world is what the ChunkStore holds, missed the positions whose last     *)
(* world.blocks.changed did not reach this service (a router subscriber is *)
(* offline or its queue full), so that the next chunk snapshot has to      *)
(* reconcile them.  net is the service with its manager:                   *)
(*   nodes, edges, next   nodes_, edges_, nextNodeId_                      *)
(*   byPos                node_by_pos_                                     *)
(*   pipes, mach, cables  pipe_nodes_, machine_nodes_, cable_nodes_        *)
(*   metas, proto, known  pipe_meta_, protocol_to_mgr_,                    *)
(*                        chunk_pipe_positions_                            *)
(*   ports                positions with a registered fluid source port    *)
(* networks_ is rebuilt after every change: it is Network below.           *)
(***************************************************************************)
EXTENDS Naturals, FiniteSets, Sequences, SequencesExt, FiniteSetsExt, Functions, TLC

CONSTANTS MaxPos,       \* positions are 1 .. MaxPos
          PipeCap,      \* capacity of a pipe, and of a machine's tank
          MaxHeat,      \* MAX_HEAT_PER_TICK
          FirstEntity,  \* the first entity id a machine gets (EnTT starts at 0)
          MaxEvents,    \* block changes and machine updates of one history
          SimRestarts   \* how often SimCore may restart and number anew

ASSUME BoundsAssumption ==
    /\ {MaxPos, PipeCap, MaxHeat, MaxEvents} \subseteq Nat \ {0}
    /\ {FirstEntity, SimRestarts} \subseteq Nat

VARIABLES resource, world, missed, entities, nextEntity, net, events, restarts, delivered
vars == <<resource, world, missed, entities, nextEntity, net, events, restarts, delivered>>

Pos == 1 .. MaxPos
Faces == {"E", "W"}
Opposite(f) == IF f = "E" THEN "W" ELSE "E"
Towards(p, f) == IF f = "E" THEN p + 1 ELSE p - 1

(* Meta 0 stands for "every face open". *)
pipeFaceOpen(meta, f) == meta = {} \/ f \in meta
pipeFacesConnected(from, to, f) == pipeFaceOpen(from, f) /\ pipeFaceOpen(to, Opposite(f))
Metas == {{}, {"E"}, {"W"}}

isPipeBlock(b) == b \in {"fluid", "item", "heat"}
(* What is built: next to the fluid pipes, pipes of another kind. *)
Placeable == {"machine"} \cup CASE resource = "energy" -> {"cable"}
                                [] resource = "fluid" -> {"fluid", "item"}
                                [] OTHER -> {resource}

Without(f, x) == Restrict(f, DOMAIN f \ {x})
NodeAt(n, p) == IF p \in DOMAIN n.byPos THEN n.byPos[p] ELSE 0

(***************************************************************************)
(* What a tick or a consume request moves between the nodes of a connected *)
(* network.  order is how the code happens to walk it: net.nodeIds comes   *)
(* out of a breadth-first search over unordered_maps, so the caller lets   *)
(* it be any permutation.                                                  *)
(***************************************************************************)
Least(a, b) == IF a < b THEN a ELSE b
SumOver(ids, V(_)) == FoldLeft(LAMBDA s, i : s + V(i), 0, ids)

(* A fluid fill: the sources' fluid id, folded over them in order. A second *)
(* fluid gives 0, "ambiguous", and a third source sets the id again.        *)
FluidOf(nodes, sources) ==
    FoldLeft(LAMBDA f, i : IF f = 0 THEN nodes[i].fid
                           ELSE IF f # nodes[i].fid THEN 0 ELSE f, 0, sources)

FillSources(nodes, order) ==
    SelectSeq(order, LAMBDA i : /\ nodes[i].src /\ nodes[i].amt > 0
                                /\ nodes[i].cap > 0 /\ nodes[i].fid # 0)
FillPipes(nodes, order) ==
    SelectSeq(order, LAMBDA i : /\ ~nodes[i].src /\ ~nodes[i].snk
                                /\ nodes[i].cap > nodes[i].amt)

(* Each pipe gets its share of toFill by room, rounded down, the last one   *)
(* whatever remains up to its room.                                         *)
GiveToPipes(nodes, pipes, toFill, room, fluid) ==
    FoldLeftDomain(LAMBDA st, k :
        LET i == pipes[k]
            free == st.nodes[i].cap - st.nodes[i].amt
            share == IF k = Len(pipes) THEN st.left ELSE (toFill * free) \div room
            give == Least(share, free)
        IN  IF give = 0 THEN st
            ELSE [nodes |-> [st.nodes EXCEPT ![i].amt = @ + give,
                                             ![i].fid = IF @ = 0 THEN fluid ELSE @],
                  left  |-> st.left - give],
        [nodes |-> nodes, left |-> toFill], pipes).nodes

(* The debit of the sources: a share of toFill by what is still available,  *)
(* which shrinks by the whole buffer of each source that gave something.    *)
TakeFromSources(nodes, sources, toFill, available) ==
    FoldLeftDomain(LAMBDA st, k :
        LET i == sources[k]
            buf == st.nodes[i].amt
            share == IF k = Len(sources) THEN st.left ELSE (toFill * buf) \div st.avail
            take == Least(share, buf)
        IN  IF st.left = 0 \/ take = 0 THEN st
            ELSE [nodes |-> [st.nodes EXCEPT ![i].amt = @ - take],
                  left  |-> IF take > st.left THEN 0 ELSE st.left - take,
                  avail |-> st.avail - buf],
        [nodes |-> nodes, left |-> toFill, avail |-> available], sources).nodes

(* Mutant: the sources are not debited. *)
fillsWithoutDebit(nodes, order) ==
    LET sources == FillSources(nodes, order)
        pipes == FillPipes(nodes, order)
        room == SumOver(pipes, LAMBDA i : nodes[i].cap - nodes[i].amt)
        toFill == Least(SumOver(sources, LAMBDA i : nodes[i].amt), room)
    IN  IF toFill = 0 THEN nodes
        ELSE GiveToPipes(nodes, pipes, toFill, room, FluidOf(nodes, sources))
fillFluidPipesFromSources(nodes, order) ==
    LET sources == FillSources(nodes, order)
        pipes == FillPipes(nodes, order)
        available == SumOver(sources, LAMBDA i : nodes[i].amt)
        room == SumOver(pipes, LAMBDA i : nodes[i].cap - nodes[i].amt)
        fluid == FluidOf(nodes, sources)
        toFill == Least(available, room)
    IN  IF toFill = 0 \/ fluid = 0 THEN nodes
        ELSE TakeFromSources(GiveToPipes(nodes, pipes, toFill, room, fluid),
                             sources, toFill, available)

(* A consume at a sink node: its own buffer first, then every node of the   *)
(* network that has a pipe's block id, is no source and holds this fluid.   *)
(* Machines registered by a fluid update carry the fluid pipe's block id.   *)
consumeFluid(nodes, order, id, fluid, amount) ==
    LET own == Least(amount, nodes[id].amt)
        drained(ns, i, n) == [ns EXCEPT ![i].amt = @ - n,
                                        ![i].fid = IF ns[i].amt = n THEN 0 ELSE @]
    IN  IF ~nodes[id].snk \/ nodes[id].cap = 0 \/ nodes[id].fid \notin {0, fluid}
        THEN [nodes |-> nodes, left |-> amount]
        ELSE FoldLeft(LAMBDA st, i :
                LET nd == st.nodes[i]
                    take == Least(st.left, nd.amt)
                IN  IF \/ i = id \/ nd.block # "fluid" \/ nd.src \/ nd.cap = 0
                       \/ nd.fid \notin {0, fluid} \/ take = 0
                    THEN st
                    ELSE [nodes |-> drained(st.nodes, i, take), left |-> st.left - take],
                [nodes |-> drained(nodes, id, own), left |-> amount - own], order)

(* Heat flows out of the part of a source above nine tenths of its capacity *)
(* to the coldest sink first, at most MaxHeat a tick.  Every edge is made   *)
(* with resistance 0, so nothing is lost on the way.                        *)
Kept(nd) == (nd.cap * 9) \div 10
distributeHeat(nodes, order, maxHeat) ==
    LET sources == SelectSeq(order, LAMBDA i : /\ nodes[i].src
                                               /\ nodes[i].amt * 10 > nodes[i].cap * 9)
        sinks == SortSeq(SelectSeq(order, LAMBDA i : nodes[i].snk
                                                     /\ nodes[i].amt < nodes[i].cap),
                         LAMBDA i, j : nodes[i].amt < nodes[j].amt)
        flow == Least(maxHeat, SumOver(sources, LAMBDA i : nodes[i].amt - Kept(nodes[i])))
        pull(sink, st, i) ==
            LET excess == IF st.nodes[i].amt > Kept(st.nodes[i])
                          THEN st.nodes[i].amt - Kept(st.nodes[i]) ELSE 0
                take == Least(st.give, excess)
            IN  [nodes |-> [st.nodes EXCEPT ![i].amt = @ - take, ![sink].amt = @ + take],
                 left  |-> st.left - take, give |-> st.give - take]
        fill(st, sink) ==
            LET room == IF st.nodes[sink].cap > st.nodes[sink].amt
                        THEN st.nodes[sink].cap - st.nodes[sink].amt ELSE 0
            IN  FoldLeft(LAMBDA s, i : pull(sink, s, i),
                         [st EXCEPT !.give = Least(st.left, room)], sources)
    IN  IF sources = <<>> \/ sinks = <<>> THEN nodes
        ELSE FoldLeft(fill, [nodes |-> nodes, left |-> flow, give |-> 0], sinks).nodes

(* Items.  HasRoom is the sink test of the code: a sink of capacity 0 takes *)
(* everything and hands it to its machine.                                  *)
HasRoom(nd) == nd.snk /\ (nd.amt < nd.cap \/ nd.cap = 0)

(* The nodes a breadth-first search from id reaches after each number of    *)
(* hops, walking on only through nodes with item capacity.                  *)
Hops(nodes, edges, id) ==
    FoldLeftDomain(LAMBDA ws, k :
        LET walk == {i \in Last(ws) : i = id \/ nodes[i].cap > 0}
        IN  Append(ws, Last(ws) \cup {i \in DOMAIN nodes :
                                        \E j \in walk : i # j /\ {i, j} \in edges}),
        <<{id}>>, SetToSeq(DOMAIN nodes))
NearestSinks(nodes, edges, id) ==
    LET hops == Hops(nodes, edges, id)
        sinks(k) == {i \in hops[k] \ {id} : HasRoom(nodes[i])}
        far == {k \in DOMAIN hops : sinks(k) # {}}
    IN  IF far = {} THEN {} ELSE sinks(Min(far))

(* Every source that has items sends its last one to a nearest sink: into   *)
(* the sink's buffer, or out of the network when the sink has capacity 0.   *)
(* Sources and sinks are listed before the first move, and only nodes with  *)
(* item capacity are listed.                                                *)
moveItemsInNetwork(nodes, edges, order) ==
    LET listed == SelectSeq(order, LAMBDA i : nodes[i].cap > 0)
        sources == SelectSeq(listed, LAMBDA i : nodes[i].src /\ nodes[i].amt > 0)
        move(st, i) ==
            LET near == NearestSinks(st.nodes, edges, i)
                to == SelectSeq(order, LAMBDA j : j \in near)[1]
            IN  IF near = {} \/ st.nodes[i].amt = 0 THEN st
                ELSE IF st.nodes[to].cap > 0
                THEN [st EXCEPT !.nodes[i].amt = @ - 1, !.nodes[to].amt = @ + 1]
                ELSE [nodes |-> [st.nodes EXCEPT ![i].amt = @ - 1], out |-> st.out + 1]
    IN  IF ~\E k \in DOMAIN listed : HasRoom(nodes[listed[k]])
        THEN [nodes |-> nodes, out |-> 0]
        ELSE FoldLeft(move, [nodes |-> nodes, out |-> 0], sources)

(* An energy consume credits the asking node up to its room, whether or not *)
(* the network has a source, and finds what the sources hold ...            *)
computeConsume(nodes, order, id, amount) ==
    LET give == Least(amount, nodes[id].cap - nodes[id].amt)
        fed == [nodes EXCEPT ![id].amt = @ + give]
        sources == SelectSeq(order, LAMBDA i : nodes[i].src)
    IN  [nodes |-> fed, consumed |-> give, sources |-> sources,
         total |-> SumOver(sources, LAMBDA i : fed[i].amt)]

(* ... which then pay: one source what it has, several each its share,      *)
(* rounded down.                                                            *)
consumeEnergy(nodes, order, id, amount) ==
    LET c == computeConsume(nodes, order, id, amount)
        debit(st, i) ==
            LET buf == st.nodes[i].amt
                take == Least(IF Len(c.sources) > 1 THEN (c.consumed * buf) \div c.total
                              ELSE st.left, buf)
            IN  [nodes |-> [st.nodes EXCEPT ![i].amt = @ - take], left |-> st.left - take]
    IN  IF c.consumed = 0 \/ c.total = 0 THEN c.nodes
        ELSE FoldLeft(debit, [nodes |-> c.nodes, left |-> c.consumed], c.sources).nodes

(***************************************************************************)
(* PipeNetworkManager: nodes and edges.                                    *)
(***************************************************************************)
PipeNode(n, p, b) ==
    [pos |-> p, block |-> b, cap |-> IF b = resource THEN PipeCap ELSE 0, amt |-> 0,
     fid |-> 0, src |-> p \in n.ports, snk |-> FALSE, hot |-> FALSE]
addNodeWithId(n, id, p, b) ==
    [n EXCEPT !.nodes = (id :> PipeNode(n, p, b)) @@ @, !.byPos = (p :> id) @@ @]
NextNodeId(n) == Min((n.next .. n.next + Cardinality(DOMAIN n.nodes)) \ DOMAIN n.nodes)
addNode(n, p, b) == [addNodeWithId(n, NextNodeId(n), p, b) EXCEPT !.next = NextNodeId(n) + 1]
removeEdgesForNode(n, id) == [n EXCEPT !.edges = {e \in @ : id \notin e}]
(* Mutant: the position index keeps the removed node. *)
removeNodeKeepsIndex(n, id) ==
    [removeEdgesForNode(n, id) EXCEPT !.nodes = Without(@, id)]
removeNode(n, id) ==
    IF id \notin DOMAIN n.nodes THEN n
    ELSE LET p == n.nodes[id].pos
         IN  [removeEdgesForNode(n, id) EXCEPT
                !.nodes = Without(@, id),
                !.byPos = IF p \in DOMAIN @ /\ @[p] = id THEN Without(@, p) ELSE @]
addEdges(n, pairs) == [n EXCEPT !.edges = @ \cup {e \in pairs : e \subseteq DOMAIN n.nodes}]

(* The network of a node, and the networks of the graph. *)
Network(n, id) ==
    FoldLeft(LAMBDA S, k : S \cup UNION {e \in n.edges : e \cap S # {}},
             {id}, SetToSeq(DOMAIN n.nodes))
Orders(n) == SetToSeqs(DOMAIN n.nodes)
InNetwork(n, order, id) == LET S == Network(n, id) IN SelectSeq(order, LAMBDA i : i \in S)
(* The first node of each network in the order: one walk per network. *)
Roots(n, order) ==
    SelectSeq(order, LAMBDA i : i = InNetwork(n, order, i)[1])

(* The role a node has from the typed ports at its position; a position     *)
(* without ports clears what a node update has set.                         *)
projectNodeDomain(n, p) ==
    LET id == NodeAt(n, p)
    IN  IF id \notin DOMAIN n.nodes THEN n
        ELSE [n EXCEPT !.nodes[id].src = p \in n.ports, !.nodes[id].snk = FALSE]

(***************************************************************************)
(* PipeNetworkService: which neighbours a node is joined to.               *)
(***************************************************************************)
(* A pipe in front of a machine: at one position the pipe wins. 0 is "no    *)
(* neighbour".                                                              *)
Neighbour(n, q) == IF q \in DOMAIN n.pipes THEN n.pipes[q]
                   ELSE IF q \in DOMAIN n.mach THEN n.mach[q] ELSE 0
Compatible(nd, kind, pipe) ==
    IF kind # resource THEN nd.block = kind
    ELSE nd.cap > 0 /\ (kind = "heat" /\ ~pipe => nd.hot)
MetaAt(n, q) == IF q \in DOMAIN n.metas THEN n.metas[q] ELSE {}
connectNodeNeighbors(n, id, p, meta, kind, sourceIsPipe) ==
    addEdges(n, {{id, Neighbour(n, Towards(p, f))} : f \in {g \in Faces :
        LET q == Towards(p, g)
            pipe == q \in DOMAIN n.pipes
        IN  /\ Neighbour(n, q) \in DOMAIN n.nodes \ {0}
            /\ sourceIsPipe \/ pipe
            /\ Compatible(n.nodes[Neighbour(n, q)], kind, pipe)
            /\ IF pipe THEN pipeFacesConnected(meta, MetaAt(n, q), g)
                       ELSE pipeFaceOpen(meta, g)}})
(* Mutant: the old edges are left when a mask changes. *)
refreshKeepsEdges(n, p, b, meta) == connectNodeNeighbors(n, n.pipes[p], p, meta, b, TRUE)
refreshPipeConnections(n, p, b, meta) ==
    connectNodeNeighbors(removeEdgesForNode(n, n.pipes[p]), n.pipes[p], p, meta, b, TRUE)
(* Cables and machines side by side are joined whatever the cable's mask. *)
connectEnergyNeighbors(n, id, p) ==
    LET beside == {p - 1, p + 1}
    IN  addEdges(n, {{id, n.cables[q]} : q \in beside \cap DOMAIN n.cables} \cup
                    {{id, m} : m \in {i \in Range(n.mach) : /\ i \in DOMAIN n.nodes
                                                            /\ n.nodes[i].pos \in beside}})

(* A pipe node is kept over an update of its mask, replaced when its block  *)
(* id has changed.                                                          *)
registerPipeBlock(n, p, b, meta) ==
    LET stale == p \in DOMAIN n.pipes /\ \/ n.pipes[p] \notin DOMAIN n.nodes
                                         \/ n.nodes[n.pipes[p]].block # b
        kept == IF stale THEN [removeNode(n, n.pipes[p]) EXCEPT !.pipes = Without(@, p)] ELSE n
        made == IF p \in DOMAIN kept.pipes THEN kept
                ELSE [addNode(kept, p, b) EXCEPT !.pipes = (p :> NextNodeId(kept)) @@ @]
    IN  [made EXCEPT !.metas = (p :> meta) @@ @]

dropPipe(n, p) ==
    IF p \notin DOMAIN n.pipes THEN n
    ELSE [removeNode(n, n.pipes[p]) EXCEPT !.pipes = Without(@, p), !.metas = Without(@, p)]
dropCable(n, p) ==
    IF p \notin DOMAIN n.cables THEN n
    ELSE [removeNode(n, n.cables[p]) EXCEPT !.cables = Without(@, p)]

(* Air: everything the service knows of the position goes, except that the  *)
(* manager keeps a machine's node with its edges.                           *)
airAt(n, p) ==
    [dropPipe(dropCable(n, p), p) EXCEPT
        !.known = @ \ {p}, !.mach = Without(@, p), !.metas = Without(@, p)]
cableAt(n, p, meta) ==
    LET made == IF p \in DOMAIN n.cables THEN n
                ELSE [addNode(n, p, "cable") EXCEPT !.cables = (p :> NextNodeId(n)) @@ @]
    IN  connectEnergyNeighbors([made EXCEPT !.metas = (p :> meta) @@ @], made.cables[p], p)
pipeAt(n, p, b, meta) ==
    refreshPipeConnections([registerPipeBlock(n, p, b, meta) EXCEPT !.known = @ \cup {p}],
                           p, b, meta)
handleBlockChanged(n, p, b, meta) ==
    IF b = "air" THEN airAt(n, p)
    ELSE IF b = "cable" THEN cableAt([dropPipe(n, p) EXCEPT !.known = @ \ {p}], p, meta)
    ELSE IF isPipeBlock(b) THEN pipeAt(dropCable(n, p), p, b, meta)
    ELSE dropCable([dropPipe(n, p) EXCEPT !.known = @ \ {p}], p)

(* A chunk snapshot holds only pipes: those remembered for the chunk and    *)
(* gone are dropped, the others registered, and then all joined anew.       *)
handleChunkLoaded(n, snapshot) ==
    LET row == [p \in Pos |-> p]
        here == {p \in Pos : isPipeBlock(snapshot[p].block)}
        each(Op(_, _), from) ==
            FoldLeft(LAMBDA m, p : IF p \in here THEN Op(m, p) ELSE m, from, row)
        swept == FoldLeft(LAMBDA m, p : IF p \in n.known \ here THEN dropPipe(m, p) ELSE m, n, row)
        registered == each(LAMBDA m, p : registerPipeBlock(m, p, snapshot[p].block, snapshot[p].meta),
                           swept)
    IN  each(LAMBDA m, p : refreshPipeConnections(m, p, snapshot[p].block, snapshot[p].meta),
             [registered EXCEPT !.known = here])

(***************************************************************************)
(* Machine updates.  e is the protocol id (SimCore's entity), u the state. *)
(***************************************************************************)
(* A fluid node is made under the protocol id; where a pipe already has     *)
(* that id, a node at the position is used, else a fresh id.                *)
fluidNodeId(n, e, p) ==
    IF e \notin DOMAIN n.nodes THEN [n |-> addNodeWithId(n, e, p, "fluid"), id |-> e]
    ELSE IF NodeAt(n, p) \in DOMAIN n.nodes \ {0} THEN [n |-> n, id |-> NodeAt(n, p)]
    ELSE [n |-> addNode(n, p, "fluid"), id |-> NextNodeId(n)]
(* An energy or heat node reuses a machine's node at the position first and *)
(* never takes protocol id 0 for a node id.                                 *)
energyNodeId(n, e, p) ==
    IF NodeAt(n, p) \in DOMAIN n.nodes \ {0} /\ n.nodes[NodeAt(n, p)].block = "machine"
    THEN [n |-> n, id |-> NodeAt(n, p)]
    ELSE IF e # 0 /\ e \notin DOMAIN n.nodes
    THEN [n |-> addNodeWithId(n, e, p, "machine"), id |-> e]
    ELSE [n |-> addNode(n, p, "machine"), id |-> NextNodeId(n)]

Known(n, e) == e \in DOMAIN n.proto
Registered(n, e, p, fresh) ==
    IF Known(n, e) THEN [n |-> n, id |-> n.proto[e]]
    ELSE [fresh EXCEPT !.n = [fresh.n EXCEPT !.proto = (e :> fresh.id) @@ @,
                                             !.mach = (p :> fresh.id) @@ @]]
SetNode(n, id, u, amt) ==
    IF id \notin DOMAIN n.nodes THEN n
    ELSE [n EXCEPT !.nodes[id] = [@ EXCEPT !.cap = u.cap, !.amt = amt, !.fid = u.fid,
                                           !.src = u.src, !.snk = u.snk, !.hot = u.hot]]

(* Mutant: the neighbours are joined before the tank is known. *)
joinsFirst(n, e, p, u) ==
    LET r == Registered(n, e, p, fluidNodeId(n, e, p))
    IN  SetNode(IF Known(n, e) THEN n
                ELSE connectNodeNeighbors(r.n, r.id, p, {}, "item", FALSE), r.id, u, u.amt)
handleFluidNodeUpdate(n, e, p, u) ==
    LET r == Registered(n, e, p, fluidNodeId(n, e, p))
    IN  connectNodeNeighbors(SetNode(r.n, r.id, u, u.amt), r.id, p, {}, "fluid", FALSE)
(* Items are appended to what the node holds. An id in use is refused.      *)
handleItemNodeUpdate(n, e, p, u) ==
    IF ~Known(n, e) /\ e \in DOMAIN n.nodes THEN n
    ELSE LET r == Registered(n, e, p, [n |-> addNodeWithId(n, e, p, "none"), id |-> e])
         IN  connectNodeNeighbors(SetNode(r.n, r.id, u, r.n.nodes[r.id].amt + u.amt),
                                  r.id, p, {}, "item", FALSE)
handleNodeUpdate(n, e, p, u) ==
    LET r == Registered(n, e, p, energyNodeId(n, e, p))
        set == SetNode(r.n, r.id, u, u.amt)
    IN  IF resource = "energy" THEN connectEnergyNeighbors(set, r.id, p)
        ELSE IF u.hot THEN connectNodeNeighbors(set, r.id, p, {}, "heat", FALSE)
        ELSE set
(* A transfer request turns the node into a source without capacity and     *)
(* queues the item, whatever the node was.                                  *)
handleItemTransferRequest(n, e) ==
    IF ~Known(n, e) \/ n.proto[e] \notin DOMAIN n.nodes THEN n
    ELSE [n EXCEPT !.nodes[n.proto[e]] = [@ EXCEPT !.cap = 0, !.src = TRUE, !.snk = FALSE,
                                                   !.amt = @ + 1]]

(* What SimCore's clients send: a source with something in it, a sink with  *)
(* room, a steam (not heat) machine, a machine without a tank.              *)
Update(cap, amt, fid, src, snk, hot) ==
    [cap |-> cap, amt |-> amt, fid |-> fid, src |-> src, snk |-> snk, hot |-> hot]
FluidUpdates == {Update(PipeCap, PipeCap, 1, TRUE, FALSE, FALSE),
                 Update(PipeCap, 1, 2, TRUE, FALSE, FALSE),
                 Update(PipeCap, 0, 0, FALSE, TRUE, FALSE), Update(0, 0, 0, FALSE, TRUE, FALSE)}
EnergyUpdates == {Update(PipeCap, PipeCap, 0, TRUE, FALSE, h) : h \in {resource = "heat"}} \cup
                 {Update(PipeCap, 1, 0, FALSE, TRUE, h) : h \in {resource = "heat", FALSE}}
ItemUpdates == {Update(PipeCap, 1, 0, TRUE, FALSE, FALSE),
                Update(PipeCap, 0, 0, FALSE, TRUE, FALSE), Update(0, 0, 0, FALSE, TRUE, FALSE)}

EmptyNet == [nodes |-> <<>>, edges |-> {}, next |-> 1, byPos |-> <<>>, pipes |-> <<>>,
             mach |-> <<>>, cables |-> <<>>, metas |-> <<>>, proto |-> <<>>,
             known |-> {}, ports |-> {}]

Init == /\ resource \in {"fluid", "item", "heat", "energy"}
        /\ world = [p \in Pos |-> [block |-> "air", meta |-> {}]]
        /\ missed = {} /\ entities = <<>> /\ nextEntity = FirstEntity /\ net = EmptyNet
        /\ events = 0 /\ restarts = 0 /\ delivered = 0

Count == events < MaxEvents /\ events' = events + 1

(* A block is placed in air, broken, or has its mask turned by a wrench;    *)
(* the event reaches the service or is lost.                                *)
Delivered(p, b, meta) ==
    \/ net' = handleBlockChanged(net, p, b, meta) /\ missed' = missed \ {p}
    \/ net' = net /\ missed' = missed \cup {p}
BlockChanged(p) ==
    /\ Count
    /\ \E b \in Placeable \cup {"air"}, meta \in Metas :
        /\ \/ world[p].block = "air" /\ b # "air"
           \/ b = "air" /\ meta = {} /\ world[p].block # "air"
           \/ b = world[p].block /\ b \in {"cable", resource} /\ meta # world[p].meta
        /\ b \notin {"cable", resource} => meta = {}
        /\ world' = [world EXCEPT ![p] = [block |-> b, meta |-> meta]]
        /\ entities' = IF b = "machine" THEN (p :> nextEntity) @@ entities
                       ELSE Without(entities, p)
        /\ nextEntity' = IF b = "machine" THEN nextEntity + 1 ELSE nextEntity
        /\ Delivered(p, b, meta)
    /\ UNCHANGED <<resource, restarts, delivered>>
(* A snapshot of the row. It says nothing of cables and machines, so a      *)
(* position stays missed where one is, or is still remembered.              *)
ChunkLoaded ==
    /\ net' = handleChunkLoaded(net, world)
    /\ missed' = {p \in missed : \/ p \in DOMAIN net.cables \cup DOMAIN net.mach
                                  \/ world[p].block = "cable"}
    /\ UNCHANGED <<resource, world, entities, nextEntity, events, restarts, delivered>>

(* SimCore reports the state of a machine: what the clients of SimCore send *)
(* for the resource under study.                                            *)
NodeUpdate(p) ==
    /\ Count
    /\ net' \in CASE resource = "fluid" ->
                        {handleFluidNodeUpdate(net, entities[p], p, u) : u \in FluidUpdates}
                  [] resource = "item" ->
                        {handleItemNodeUpdate(net, entities[p], p, u) : u \in ItemUpdates}
                  [] OTHER ->
                        {handleNodeUpdate(net, entities[p], p, u) : u \in EnergyUpdates}
    /\ UNCHANGED <<resource, world, missed, entities, nextEntity, restarts, delivered>>
RegisterPort(p) ==
    /\ resource = "fluid" /\ p \notin net.ports
    /\ net' = projectNodeDomain([net EXCEPT !.ports = @ \cup {p}], p)
    /\ Count
    /\ UNCHANGED <<resource, world, missed, entities, nextEntity, restarts, delivered>>
RemovePort(p) ==
    /\ p \in net.ports
    /\ net' = projectNodeDomain([net EXCEPT !.ports = @ \ {p}], p)
    /\ Count
    /\ UNCHANGED <<resource, world, missed, entities, nextEntity, restarts, delivered>>

(* Consume and transfer requests of a machine.  A fluid request that comes  *)
(* before the update of its machine is led to the node at the position, and *)
(* its protocol id stays led there.                                         *)
ByPosition(n, e, p) ==
    IF resource = "fluid" /\ ~Known(n, e) /\ p \in DOMAIN n.mach
    THEN [n EXCEPT !.proto = (e :> n.mach[p]) @@ @] ELSE n
ConsumeRequest(p) ==
    LET n == ByPosition(net, entities[p], p)
        id == n.proto[entities[p]]
    IN  /\ resource \in {"fluid", "energy"} /\ Known(n, entities[p])
        /\ id \in DOMAIN n.nodes
        /\ \E order \in Orders(n) :
             LET walk == InNetwork(n, order, id)
             IN  net' = [n EXCEPT !.nodes =
                     IF resource = "fluid" THEN consumeFluid(@, walk, id, 1, PipeCap).nodes
                     ELSE consumeEnergy(@, walk, id, PipeCap)]
        /\ Count
        /\ UNCHANGED <<resource, world, missed, entities, nextEntity, restarts, delivered>>
ItemTransferRequest(p) ==
    /\ resource = "item" /\ Count
    /\ net' = handleItemTransferRequest(net, entities[p])
    /\ UNCHANGED <<resource, world, missed, entities, nextEntity, restarts, delivered>>

(* One service tick: heat and then fluid in every network, then the items.  *)
tick(n, order) ==
    FoldLeft(LAMBDA st, r :
        LET walk == InNetwork(n, order, r)
        IN  CASE resource = "fluid" -> [st EXCEPT !.nodes = fillFluidPipesFromSources(@, walk)]
              [] resource = "heat" -> [st EXCEPT !.nodes = distributeHeat(@, walk, MaxHeat)]
              [] resource = "item" -> LET m == moveItemsInNetwork(st.nodes, n.edges, walk)
                                      IN  [nodes |-> m.nodes, out |-> st.out + m.out]
              [] OTHER -> st,
        [nodes |-> n.nodes, out |-> 0], Roots(n, order))
Tick ==
    \E order \in Orders(net) :
        LET t == tick(net, order)
        IN  /\ t.nodes # net.nodes
            /\ net' = [net EXCEPT !.nodes = t.nodes]
            /\ delivered' = delivered + t.out
            /\ UNCHANGED <<resource, world, missed, entities, nextEntity, events, restarts>>

(* The service dies and starts again with nothing: the saved item buffers   *)
(* are read back into no node (the parser splits on the comma it then looks *)
(* for, and no node exists yet).  SimCore dies: its entities are numbered   *)
(* from the start, in any order.                                            *)
PipeRestart == /\ net # EmptyNet /\ net' = EmptyNet /\ missed' = Pos /\ delivered' = 0
               /\ Count /\ UNCHANGED <<resource, world, entities, nextEntity, restarts>>
SimRestart ==
    /\ restarts < SimRestarts /\ restarts' = restarts + 1
    /\ \E order \in SetToSeqs(DOMAIN entities) :
         entities' = [p \in DOMAIN entities |->
                        FirstEntity - 1 + CHOOSE k \in DOMAIN order : order[k] = p]
    /\ nextEntity' = FirstEntity + Cardinality(DOMAIN entities)
    /\ UNCHANGED <<resource, world, missed, net, events, delivered>>

Next == \/ \E p \in Pos : BlockChanged(p) \/ RemovePort(p)
        \/ \E p \in DOMAIN entities : \/ NodeUpdate(p) \/ RegisterPort(p)
                                       \/ ConsumeRequest(p) \/ ItemTransferRequest(p)
        \/ ChunkLoaded \/ Tick \/ PipeRestart \/ SimRestart
Spec == Init /\ [][Next]_vars

(***************************************************************************)
(* Properties.                                                             *)
(***************************************************************************)
Live(map) == {p \in DOMAIN map : map[p] \in DOMAIN net.nodes}

(* The maps of the service and the index of the manager name nodes that     *)
(* exist, at their position (removeNode() and its callers), and edges join  *)
(* existing nodes.                                                          *)
TypeOK ==
    /\ missed \subseteq Pos /\ net.known \subseteq Pos /\ net.ports \subseteq Pos
    /\ DOMAIN net.nodes \subseteq Nat
    /\ \A map \in {net.pipes, net.cables, net.byPos} :
         \A p \in DOMAIN map : p \in Live(map) /\ net.nodes[map[p]].pos = p
    /\ \A e \in net.edges : e \subseteq DOMAIN net.nodes /\ Cardinality(e) \in {1, 2}
    /\ \A i \in DOMAIN net.nodes : {net.nodes[i].amt, net.nodes[i].cap} \subseteq Nat

PipeIn(p) == p \in DOMAIN net.pipes
InSync(p) == p \notin missed
KindOf(p) == world[p].block

(* Wherever the service has heard of the last change, it has exactly the    *)
(* pipes of the world, and two neighbouring pipes are joined iff they are   *)
(* of one kind and both wrenched open: after any order of placing, breaking *)
(* and wrenching, lost events and chunk snapshots (handleBlockChanged,      *)
(* handleChunkLoaded, connectNodeNeighbors).                                *)
PipesJoinedAsBuilt ==
    /\ \A p \in Pos : InSync(p) => (PipeIn(p) <=> isPipeBlock(KindOf(p)))
    /\ \A p \in Pos \ {MaxPos} :
         InSync(p) /\ InSync(p + 1) /\ PipeIn(p) /\ PipeIn(p + 1) =>
            ({net.pipes[p], net.pipes[p + 1]} \in net.edges
                <=> /\ KindOf(p) = KindOf(p + 1)
                    /\ pipeFacesConnected(world[p].meta, world[p + 1].meta, "E"))

(* A machine that has reported a tank of the resource is joined to every    *)
(* neighbouring pipe of the resource whose face is open, whichever of the   *)
(* two was placed, reported or wrenched last.                               *)
Reported(p) == /\ p \in DOMAIN entities /\ Known(net, entities[p])
               /\ p \in DOMAIN net.mach /\ net.mach[p] = net.proto[entities[p]]
MachinesJoined ==
    \A p \in Pos, f \in Faces :
        LET q == Towards(p, f)
        IN  /\ Reported(p) /\ InSync(p) /\ q \in Pos /\ InSync(q)
            /\ KindOf(q) = resource /\ PipeIn(q) /\ pipeFaceOpen(world[q].meta, Opposite(f))
            /\ net.nodes[net.mach[p]].cap > 0
            /\ resource = "heat" => net.nodes[net.mach[p]].hot
            => {net.mach[p], net.pipes[q]} \in net.edges

(* Pipes and machines are joined as the world has them built.               *)
JoinedAsBuilt == PipesJoinedAsBuilt /\ MachinesJoined

(* Every edge joins neighbouring positions. It fails once SimCore restarts: *)
(* protocol_to_mgr_ still leads a reused entity id to the node of another   *)
(* position, which the update joins to the pipes around its own.            *)
EdgesAreLocal ==
    \A e \in net.edges : \E i, j \in e :
        e = {i, j} /\ net.nodes[i].pos + 1 = net.nodes[j].pos

(* What a tick moves it does not make or destroy: heat and items exactly,   *)
(* fluid up to less than one unit for each source (the shares are rounded), *)
(* and no buffer is filled past its capacity (distributeHeat,               *)
(* fillFluidPipesFromSources, moveItemsInNetwork).                          *)
Held(nodes) == FoldFunction(+, 0, [i \in DOMAIN nodes |-> nodes[i].amt])
FillingSources == {i \in DOMAIN net.nodes : net.nodes[i].src}
TickConserves ==
    [][net'.nodes # net.nodes /\ events' = events /\ net'.known = net.known
            /\ DOMAIN net'.nodes = DOMAIN net.nodes =>
        /\ resource # "fluid" =>
             Held(net'.nodes) + delivered' = Held(net.nodes) + delivered
        /\ resource = "fluid" =>
             Held(net'.nodes) < Held(net.nodes) + Cardinality(FillingSources)
        /\ \A i \in DOMAIN net.nodes :
             net'.nodes[i].amt > net.nodes[i].amt => net'.nodes[i].amt <= net.nodes[i].cap
      ]_vars
=============================================================================
