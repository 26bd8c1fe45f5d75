------------------------------ MODULE MCFactory ------------------------------
(*****************************************************************************)
(* Machines that wait for energy and fluids, the multiblocks their blocks    *)
(* form and the heat they hand to each other, each with its own variables,   *)
(* checked in one run: turn says which of them takes the steps of a          *)
(* behaviour.                                                                *)
(*****************************************************************************)
EXTENDS Machines

VARIABLES turn,
    b_world, b_block, b_mbOf, b_mach, b_over, b_controllers, b_nextId, b_saved, b_loads,
    b_echoes, b_known, b_blasted, b_left,
    h_heat, h_mirror, h_fuel, h_burnEnergy, h_steam, h_jobs, h_burnt, h_cooled, h_spent,
    h_given, h_fed

mbVars == <<b_world, b_block, b_mbOf, b_mach, b_over, b_controllers, b_nextId, b_saved, b_loads,
            b_echoes, b_known, b_blasted, b_left>>
htVars == <<h_heat, h_mirror, h_fuel, h_burnEnergy, h_steam, h_jobs, h_burnt, h_cooled, h_spent,
            h_given, h_fed>>
allVars == <<turn, vars, mbVars, htVars>>

CONSTANTS m1, m2

OneAnd(k1, k2) == [m \in Machines |-> IF m = m1 THEN k1 ELSE k2]

\* Each kind alone, and two that share a message that names nobody.
MCLayouts == {OneAnd(k, "none") : k \in {"electric", "mixer", "ebf", "lcr"}}
             \cup {OneAnd("steam", "steam")}

\* Recipe 1 reserves energy, recipe 2 pays its energy_cost, recipe 3 reserves
\* energy and a fluid.
MCAccepts == [k \in Kinds |-> CASE k = "electric" -> {1, 2}
                                [] k \in {"ebf", "lcr"} -> {1}
                                [] k = "steam" -> {2}
                                [] k = "mixer" -> {3}
                                [] OTHER -> {}]
MCEu == <<1, 0, 1>>
MCFluid == <<0, 0, 1>>
MCCost == <<0, 1, 0>>

\* A pattern of a controller and a hatch; a furnace is a machine of its own.
MbPatterns == {[id |-> 1, controller |-> "ctrl",
                cells |-> [o \in {-1, 0} |-> IF o = 0 THEN "ctrl" ELSE "any"],
                hatches |-> {-1}]}
MbBuildsAt == <<{"hatch"}, {"ctrl", "casing"}, {"furnace"}, {}>>

HtNeighbours == [gen |-> <<"relay", "furnace">>, relay |-> <<"gen", "far">>, far |-> <<"relay", "boiler">>,
                 boiler |-> <<"far">>, furnace |-> <<"gen">>]
HtCapacity == [gen |-> 2, relay |-> 3, far |-> 3, boiler |-> 3, furnace |-> 3]


\* The constants of each.
MbPositions == 1 .. 4
MbMachineBlocks == {"ctrl", "furnace"}
MbHatchBlocks == {"hatch"}
MbLegacy == [x \in {"casing"} |-> "oldcasing"]
MbBuilt == <<"hatch", "air", "furnace", "furnace">>
MbBaseSlots == [b \in {"ctrl", "furnace"} |-> 0]
HtView == <<"boiler", "far", "furnace", "relay", "gen">>
HtSources == {"gen", "relay", "far"}
HtSinks == {"relay", "far", "boiler", "furnace"}
HtMirrored == {"gen", "boiler", "furnace"}
HtGenerators == {"gen"}
HtBoilers == {"boiler"}
HtWorkers == {"furnace"}
HtWet == {"boiler"}

Mb == INSTANCE Multiblocks WITH world <- b_world, block <- b_block, mbOf <- b_mbOf,
    mach <- b_mach, over <- b_over, controllers <- b_controllers, nextId <- b_nextId,
    saved <- b_saved, loads <- b_loads, echoes <- b_echoes, known <- b_known,
    blasted <- b_blasted, left <- b_left, Positions <- MbPositions, Air <- "air",
    AnyBlock <- "any", MachineBlocks <- MbMachineBlocks, HatchBlocks <- MbHatchBlocks,
    Legacy <- MbLegacy, Patterns <- MbPatterns, BuildsAt <- MbBuildsAt, Built <- MbBuilt,
    BaseSlots <- MbBaseSlots, AnchorReach <- 1, SingleReach <- 1, Delay <- 2, MaxBuilds <- 3,
    MaxItems <- 1, MaxHeats <- 1, MaxRestarts <- 1, MaxIds <- 5, MaxEchoes <- 3
Ht == INSTANCE Heat WITH heat <- h_heat, mirror <- h_mirror, fuel <- h_fuel,
    burnEnergy <- h_burnEnergy, steam <- h_steam, jobs <- h_jobs, burnt <- h_burnt,
    cooled <- h_cooled, spent <- h_spent, given <- h_given, fed <- h_fed, View <- HtView,
    Neighbours <- HtNeighbours, Capacity <- HtCapacity, Sources <- HtSources, Sinks <- HtSinks,
    Mirrored <- HtMirrored, Generators <- HtGenerators, Boilers <- HtBoilers,
    Workers <- HtWorkers, Wet <- HtWet, MaxOutput <- 3, FuelValue <- 5, Cooling <- 1,
    WetCooling <- 2, ConversionRate <- 1, SteamCapacity <- 2, MaxFuel <- 4, MaxJobs <- 2,
    Cost <- 1

\* What takes no steps starts in one of its states.
MCInit ==
    /\ turn \in {"machines", "multiblocks", "heat"}
    /\ turn # "machines" => kind = OneAnd("electric", "none") /\ zero = None
    /\ Init /\ Mb!Init /\ Ht!Init

MCNext ==
    \/ turn = "machines" /\ Next /\ UNCHANGED <<turn, mbVars, htVars>>
    \/ turn = "multiblocks" /\ Mb!Next /\ UNCHANGED <<turn, vars, htVars>>
    \/ turn = "heat" /\ Ht!Next /\ UNCHANGED <<turn, vars, mbVars>>
MCSpec ==
    /\ MCInit /\ [][MCNext]_allVars

\* Once every event is in, the engine shows ChunkStore's block wherever it has
\* an entity, and the anchor of a live controller is left to its own system
\* (SimulationEngine::onBlockChanged, MachineSystem::update).
MultiblocksSettle ==
    turn = "multiblocks" => Mb!SettlesToWorld /\ Mb!OneSystemRunsIt
\* SimulationEngine gives a controller's anchor its id and, as
\* ExplosionSystem.cpp:49-53 has it, leaves it there until the controller is
\* destroyed.
AnchorKeepsId == turn = "multiblocks" => Mb!AnchorKeepsId
\* Every unit of heat comes from fuel and is still there, and no sink with room
\* is left beside a source with heat (AdjacencyTransferSystem::tick).
HeatIsPaid == turn = "heat" => Ht!HeatIsPaid /\ Ht!ServedInOneTick
==============================================================================
