---------------------------- MODULE ClientBuffers ----------------------------
(*****************************************************************************)
(* What the game client shows of buffers it cannot see: the snapshots that   *)
(* SimulationCore publishes of a machine's ports (ResourceBufferStateStore)  *)
(* and the contents of the pipe under the crosshair, for which it asks the   *)
(* PipeNetwork (PipeContentsStateStore).  Both travel on the ctrl link.      *)
(*                                                                           *)
(* A snapshot is known by its number: sequence_ counts per port and restarts *)
(* with the process, life tells the processes apart and is seen by nobody.   *)
(* The generation (epoch) of a port never changes, since nothing in src/     *)
(* calls replacePort(), and nothing publishes `removed`.                     *)
(*****************************************************************************)
EXTENDS Integers, Sequences, FiniteSets, SequencesExt, Functions, TLC

CONSTANTS Spots,        \* block positions, each in a chunk of its own
          MaxWire,      \* messages in flight to the client
          MaxEvents     \* bound on what players, processes and links do

VARIABLES machines,     \* entity id -> machine, of this SimulationCore
          sequence,     \* ResourceBufferStatePublisher::next_sequence_
          life,         \* restarts of SimulationCore
          pipes,        \* PipeNode of each position: a stamp, 0 without a node
          asks,         \* pipe.contents.request on their way
          wire,         \* what is on its way to the client, oldest first
          up,           \* the ctrl link
          store,        \* ResourceBufferStateStore: entries_, pos_index_
          contents,     \* PipeContentsStateStore::entries_
          sent, told,   \* history: the last of each since the client's Clear()
          events

serverVars == <<machines, sequence, life, pipes>>
netVars == <<asks, wire, up>>
clientVars == <<store, contents>>
bufferVars == <<serverVars, netVars, clientVars, sent, told, events>>

Kinds == {"boiler", "tank"}
Slots(kind) == IF kind = "boiler" THEN <<"hu", "steam">> ELSE <<"fluid">>
Gone == [kind |-> "gone", pos |-> 0]
Live == {id \in DOMAIN machines : machines[id] # Gone}
Number(p) == IF p \in DOMAIN sequence THEN sequence[p] ELSE 0
EmptyStore == [entries |-> <<>>, index |-> <<>>]
Without(f, S) == Restrict(f, DOMAIN f \ S)

Init ==
    /\ machines = <<>> /\ sequence = <<>> /\ life = 0 /\ pipes = [s \in Spots |-> 0]
    /\ asks = <<>> /\ wire = <<>> /\ up = TRUE
    /\ store = EmptyStore /\ contents = <<>> /\ sent = <<>> /\ told = <<>> /\ events = 0

Count == events < MaxEvents /\ events' = events + 1
-----------------------------------------------------------------------------
(* SimulationCore: BoilerSystem::tick() and FluidFlowHandler.                *)

Snapshot(p) == [kind |-> "buffer", port |-> p, seq |-> Number(p),
                pos |-> machines[p[1]].pos, life |-> life]
PublishBufferState(ports) ==
    LET all == [i \in DOMAIN ports |-> Snapshot(ports[i])]
    IN  /\ sequence' = [p \in Range(ports) |-> Number(p) + 1] @@ sequence
        /\ IF up THEN /\ Len(wire) + Len(all) <= MaxWire /\ wire' = wire \o all
                      /\ sent' = [p \in Range(ports) |-> Snapshot(p)] @@ sent
           ELSE UNCHANGED <<wire, sent>>
PortsOf(id) == [i \in DOMAIN Slots(machines[id].kind) |-> <<id, Slots(machines[id].kind)[i]>>]

BoilerTick ==
    LET boilers == SelectSeq([id \in DOMAIN machines |-> id],
                             LAMBDA id : machines[id].kind = "boiler")
    IN  /\ boilers # <<>> /\ Count
        /\ PublishBufferState(FlattenSeq([i \in DOMAIN boilers |-> PortsOf(boilers[i])]))
        /\ UNCHANGED <<machines, life, pipes, asks, up, clientVars, told>>
\* fluid.flow names the machine it went to; a machine that is gone is skipped.
FluidFlow(id) ==
    /\ machines[id].kind = "tank" /\ Count
    /\ PublishBufferState(PortsOf(id))
    /\ UNCHANGED <<machines, life, pipes, asks, up, clientVars, told>>

\* An id is not used again in one process.
Place(s, kind) ==
    /\ Count /\ \A id \in Live : machines[id].pos # s
    /\ machines' = Append(machines, [kind |-> kind, pos |-> s])
    /\ UNCHANGED <<sequence, life, pipes, netVars, clientVars, sent, told>>
Break(id) ==
    /\ Count /\ machines[id] # Gone /\ machines' = [machines EXCEPT ![id] = Gone]
    /\ UNCHANGED <<sequence, life, pipes, netVars, clientVars, sent, told>>
\* The machines of the world get their ids anew, in the order they are loaded.
SimRestart ==
    /\ Count /\ life' = life + 1 /\ sequence' = <<>>
    /\ machines' \in SetToSeqs({machines[id] : id \in Live})
    /\ UNCHANGED <<pipes, netVars, clientVars, sent, told>>
-----------------------------------------------------------------------------
(* PipeNetwork: nodes come, fill and go; a request is answered with what the *)
(* node of the position holds.                                               *)

PipeChanges(s, stamp) ==
    /\ Count /\ pipes' = [pipes EXCEPT ![s] = stamp] /\ pipes' # pipes
    /\ UNCHANGED <<machines, sequence, life, netVars, clientVars, sent, told>>
handlePipeContentsRequest ==
    LET s == Head(asks)
    IN  /\ asks # <<>> /\ asks' = Tail(asks)
        /\ IF up
           THEN /\ Len(wire) < MaxWire
                /\ wire' = Append(wire, [kind |-> "contents", pos |-> s, holds |-> pipes[s]])
                /\ told' = IF pipes[s] = 0 /\ s \in DOMAIN told THEN told
                           ELSE (s :> pipes[s]) @@ told
           ELSE UNCHANGED <<wire, told>>
        /\ UNCHANGED <<serverVars, up, clientVars, sent, events>>
-----------------------------------------------------------------------------
(* The game client's frame: Poll() hands over what has arrived and Update()  *)
(* applies it.                                                               *)

Current(c, u) == u.port \notin DOMAIN c.entries \/ u.seq > c.entries[u.port].seq
ApplyState(c, u) ==
    IF Current(c, u)
    THEN [entries |-> (u.port :> u) @@ c.entries, index |-> (u.pos :> u.port) @@ c.index]
    ELSE c
\* A miss does not replace what was found.
ApplyContents(f, r) ==
    IF r.holds = 0 /\ r.pos \in DOMAIN f /\ f[r.pos] # 0 THEN f ELSE (r.pos :> r.holds) @@ f

Frame(n) ==
    LET batch(kind) == SelectSeq(SubSeq(wire, 1, n), LAMBDA u : u.kind = kind)
    IN  /\ up /\ wire' = SubSeq(wire, n + 1, Len(wire))
        /\ store' = FoldLeft(ApplyState, store, batch("buffer"))
        /\ contents' = FoldLeft(ApplyContents, contents, batch("contents"))
        /\ UNCHANGED <<serverVars, asks, up, sent, told, events>>

\* The overlay asks again when the crosshair moves or the cooldown is over.
SendPipeContentsReq(s) ==
    /\ up /\ Count /\ asks' = Append(asks, s)
    /\ UNCHANGED <<serverVars, wire, up, clientVars, sent, told>>

FindAllAt(s) == {u \in Range(store.entries) : u.pos = s}
FindAt(s) == IF s \in DOMAIN store.index /\ store.index[s] \in DOMAIN store.entries
             THEN {store.entries[store.index[s]]} ELSE {}
ClearChunk(s) ==
    LET gone == {u.port : u \in FindAllAt(s)}
        coming == {wire[i].port : i \in {j \in DOMAIN wire : wire[j].kind = "buffer"}}
    IN  /\ Count /\ gone # {}
        /\ store' = [entries |-> Without(store.entries, gone), index |-> Without(store.index, {s})]
        /\ sent' = Without(sent, gone \ coming)
        /\ UNCHANGED <<serverVars, netVars, contents, told>>

LinkDown ==
    /\ Count /\ up /\ up' = FALSE /\ wire' = <<>>
    /\ UNCHANGED <<serverVars, asks, clientVars, sent, told>>
Cleared(c) == EmptyStore
OnReconnect ==
    /\ ~up /\ up' = TRUE /\ store' = Cleared(store) /\ contents' = <<>>
    /\ sent' = <<>> /\ told' = <<>>
    /\ UNCHANGED <<serverVars, asks, wire, events>>

\* The line of the pipe overlay: the pipe's contents, else the buffer there,
\* else "unknown/stale".
Overlay(s) == IF s \in DOMAIN contents /\ contents[s] # 0 THEN contents[s] ELSE FindAt(s)

Next ==
    \/ BoilerTick \/ SimRestart \/ handlePipeContentsRequest \/ LinkDown \/ OnReconnect
    \/ \E s \in Spots : \/ ClearChunk(s) \/ SendPipeContentsReq(s)
                        \/ \E kind \in Kinds : Place(s, kind)
                        \/ \E stamp \in {0, events + 1} : PipeChanges(s, stamp)
    \/ \E id \in DOMAIN machines : Break(id) \/ FluidFlow(id)
    \/ \E n \in 1 .. Len(wire) : Frame(n)
Spec == Init /\ [][Next]_bufferVars
-----------------------------------------------------------------------------
Shown == up /\ wire = <<>>

\* What is shown of a port is the last snapshot the link took, and none is
\* missing; after a restart of SimulationCore the old one stays until the new
\* numbers pass it (ResourceBufferStateStore::ApplyPending).
PortsAreCurrent ==
    Shown => /\ DOMAIN store.entries = DOMAIN sent
             /\ \A p \in DOMAIN sent :
                    \/ store.entries[p] = sent[p]
                    \/ store.entries[p].life < sent[p].life /\ sent[p].seq <= store.entries[p].seq
\* Where a buffer is listed the overlay finds one; without a restart it is a
\* buffer of that position, and of the newest machine that reported from there
\* (ResourceBufferStateStore::FindAt, FindAllAt).
IndexFinds ==
    \A s \in Spots :
        /\ FindAllAt(s) # {} => FindAt(s) # {}
        /\ life = 0 => \A u \in FindAt(s) :
               u.pos = s /\ \A o \in FindAllAt(s) : o.port[1] <= u.port[1]
\* The overlay shows the pipe's last contents that were found, a miss or a
\* buffer only where there are none (PipeContentsStateStore::Apply).
OverlayShowsTold ==
    Shown => \A s \in Spots :
        Overlay(s) = IF s \in DOMAIN told /\ told[s] # 0 THEN told[s] ELSE FindAt(s)
BuffersAreShown == PortsAreCurrent /\ IndexFinds /\ OverlayShowsTold

\* "Updates apply only when their (epoch, sequence) are current"
\* (ResourceBufferStateStore.h): what the server sent last is what is shown.
\* Violated, for a restarted SimulationCore counts from 0 with the same epoch.
ShownIsNewest == Shown => store.entries = sent
==============================================================================
