------------------------------- MODULE MCPipes -------------------------------
(*****************************************************************************)
(* The pipe graph on a row of three positions, the cable graph beside a      *)
(* machine, and the tool handlers, once on a row of pipes and once on a      *)
(* machine and a hatch, each with its own variables, checked in one run:     *)
(* turn says which of them takes the steps of a behaviour.                   *)
(*****************************************************************************)
EXTENDS PipeGraph

VARIABLES turn,
    c_nodes, c_networks, c_consumers, c_exploded, c_done,
    t_world, t_made, t_roles, t_slots, t_inv, t_saved, t_cool, t_up, t_toStore, t_toSim, t_told,
    t_answered, t_owed, t_reports, t_kept, t_wiped, t_excused, t_left

cbVars == <<c_nodes, c_networks, c_consumers, c_exploded, c_done>>
toVars == <<t_world, t_made, t_roles, t_slots, t_inv, t_saved, t_cool, t_up, t_toStore, t_toSim,
            t_told, t_answered, t_owed, t_reports, t_kept, t_wiped, t_excused, t_left>>
allVars == <<turn, vars, cbVars, toVars>>

\* The constants of each.
CbPositions == {<<1, 0, 0>>, <<2, 0, 0>>, <<2, 1, 0>>}
CbOrigin == <<0, 0, 0>>
CbDefs == [tin |-> [max |-> 2, amp |-> 1, loss |-> 0, tier |-> 1]]
CbMetas == {{}, {1}}
CbMachines == {1}
CbAt == << <<2, 2, 0>> >>
CbTiers == {0}
CbVoltages == {2, 4}

Cb == INSTANCE CableGraph WITH nodes <- c_nodes, networks <- c_networks,
    consumers <- c_consumers, exploded <- c_exploded, done <- c_done, Positions <- CbPositions,
    Origin <- CbOrigin, Defs <- CbDefs, Metas <- CbMetas, Machines <- CbMachines, At <- CbAt,
    Tiers <- CbTiers, Voltages <- CbVoltages, Threshold <- 5, Spike <- 2, Extra <- 1,
    Cooldown <- 1, MaxEvents <- 4, MaxPackets <- 1, MaxTicks <- 2

\* A drill and its charge; a request that puts it into a machine or takes it out.
TlTools == (7 :> [drill |-> TRUE, capacity |-> 2])
TlStack(n) == [item |-> 7 * n, count |-> n, meta |-> 2 * n]

Wrenching == INSTANCE Tools WITH world <- t_world, made <- t_made, roles <- t_roles,
    slots <- t_slots, inv <- t_inv, saved <- t_saved, cool <- t_cool, up <- t_up,
    toStore <- t_toStore, toSim <- t_toSim, told <- t_told, answered <- t_answered, owed <- t_owed,
    reports <- t_reports, kept <- t_kept, wiped <- t_wiped, excused <- t_excused, left <- t_left,
    Positions <- {1, 2, 3}, Built <- <<"pipe", "cable", "pipe">>, Players <- {1},
    Wrenched <- {2, 3}, Tools <- << >>, Stacks <- {TlStack(0)}, MaxEvents <- 3, MaxRestarts <- 1
Slots == INSTANCE Tools WITH world <- t_world, made <- t_made, roles <- t_roles,
    slots <- t_slots, inv <- t_inv, saved <- t_saved, cool <- t_cool, up <- t_up,
    toStore <- t_toStore, toSim <- t_toSim, told <- t_told, answered <- t_answered, owed <- t_owed,
    reports <- t_reports, kept <- t_kept, wiped <- t_wiped, excused <- t_excused, left <- t_left,
    Positions <- {1, 2}, Built <- <<"machine", "hatch">>, Players <- {1},
    Wrenched <- {2, 6}, Tools <- TlTools, Stacks <- {TlStack(0), TlStack(1)}, MaxEvents <- 3,
    MaxRestarts <- 1

\* What takes no steps starts in one of its states.
MCInit ==
    /\ turn \in {"pipes", "cables", "wrenching", "slots"}
    /\ turn # "pipes" => resource = "fluid"
    /\ Init /\ Cb!Init
    /\ IF turn = "slots" THEN Slots!ToolInit ELSE Wrenching!ToolInit

MCNext ==
    \/ turn = "pipes" /\ Next /\ UNCHANGED <<turn, cbVars, toVars>>
    \/ turn = "cables" /\ Cb!Next /\ UNCHANGED <<turn, vars, toVars>>
    \/ turn = "wrenching" /\ Wrenching!ToolNext /\ UNCHANGED <<turn, vars, cbVars>>
    \/ turn = "slots" /\ Slots!ToolNext /\ UNCHANGED <<turn, vars, cbVars>>
MCSpec ==
    /\ MCInit /\ [][MCNext]_allVars

\* Two cables are in one network exactly when open faces join them, however
\* masks and cables came and went (CableGraph::rebuildGraph).
NetworksAreTheWires == turn = "cables" => Cb!NetworksAreTheWires

\* Wrenched joints agree, wrenches are answered and machines keep their contents
\* outside the named races (WrenchActionHandler, MachineSlotHandler).
ToolsAccounted ==
    /\ turn = "wrenching" => Wrenching!ToolsAccounted
    /\ turn = "slots" => Slots!ToolsAccounted
==============================================================================
