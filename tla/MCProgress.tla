----------------------------- MODULE MCProgress ------------------------------
(*****************************************************************************)
(* A player's quests, from SimulationCore to the rows of MetaDB, and the     *)
(* recipes machines and crafting grids ask for, each with its own variables, *)
(* checked in one run: turn says which of them takes the steps of a          *)
(* behaviour.                                                                *)
(*****************************************************************************)
EXTENDS Quests, TLC

CONSTANT Entities

VARIABLES turn,
    r_todo, r_recipes, r_byClass, r_variants, r_blocks, r_active, r_timer, r_reply

rcVars == <<r_todo, r_recipes, r_byClass, r_variants, r_blocks, r_active, r_timer, r_reply>>
allVars == <<turn, vars, rcVars>>

\* Quest 1 is a craft quest of item 1 and the first era with quest 2, which
\* follows it and waits for the player's button; quest 3, of the second era,
\* wants item 2 held and follows quest 1; quest 4 exchanges item 1 for item 2.
MCPrereqs == <<{}, {1}, {1}, {}>>
MCEraOf == <<1, 1, 2, 2>>
MCDetect == <<"craft", "craft", "inventory", "exchange">>
MCTarget == <<1, 1, 2, 0>>
MCReward == <<[id |-> 2, n |-> 1], [id |-> 0, n |-> 0], [id |-> 1, n |-> 2], [id |-> 2, n |-> 2]>>
MCCost == <<NoItem, NoItem, NoItem, [id |-> 1, n |-> 1]>>

Name(x) == [form |-> "name", v |-> x]
Packed(x) == [form |-> "id", v |-> x]
NoName == [form |-> "none", v |-> 0]
In(x, n) == [item |-> x, n |-> n, consume |-> TRUE, replace |-> NoName]
Keep(x, r) == [item |-> x, n |-> 1, consume |-> FALSE, replace |-> r]
Out(x, n) == [item |-> x, meta |-> 0, n |-> n]
NoConditions == [environment |-> [temperature |-> << >>, biomes |-> {}],
                 machine |-> [min |-> 0, max |-> 9, facing |-> "any"], special |-> {}]
Base == [id |-> "a", class |-> "mill", min |-> 0, max |-> 9, energy |-> "any", eu |-> 0,
         inputs |-> <<In(Name(1), 1), In(Name(1), 2)>>, pattern |-> << >>, outputs |-> <<Out(Name(2), 1)>>,
         reqs |-> << >>, fluids |-> << >>, duration |-> 2, conditions |-> NoConditions]
Doc(y) == [k |-> "recipe", y |-> y]
\* 1 ore, 2 dust, 3 and 4 a full and an empty bucket, 5 steam; 9 is no name.
RcRecipeDocs ==
    {Doc(Base),
     Doc([Base EXCEPT !.id = "b", !.min = 1, !.energy = "ELECTRICITY", !.eu = 1, !.duration = 1,
              !.inputs = <<In(Name(1), 2)>>]),
     Doc([Base EXCEPT !.id = "c", !.inputs = <<In(Name(1), 1), Keep(Name(3), Name(4))>>, !.duration = 0,
              !.reqs = <<[kind |-> "FLUID", id |-> Packed(5), amount |-> 1, tier |-> 0]>>,
              !.conditions.environment.temperature = <<1, 2>>]),
     Doc([Base EXCEPT !.id = "d", !.inputs = <<In(Name(1), 1), In(Name(9), 1)>>]),
     Doc([Base EXCEPT !.id = "e", !.class = "boiler", !.inputs = << >>, !.pattern = <<Name(1), NoName>>,
              !.fluids = <<[item |-> Name(5), amount |-> 1]>>])}
Variant(b, t, e) == [block |-> b, tier |-> t, energy |-> e]
RcClassDocs ==
    {[k |-> "class", class |-> "mill", variants |-> {Variant("lv", 0, "STEAM"), Variant("mv", 1, "ELECTRICITY")}],
     [k |-> "class", class |-> "boiler", variants |-> {Variant("fire", 0, "HEAT")}]}
NoSlot == [id |-> 0, meta |-> 0, n |-> 0]
Slot(x, n) == IF n = 0 THEN NoSlot ELSE [id |-> x, meta |-> 0, n |-> n]
RcContainers ==
    {<<Slot(1, 1), NoSlot>>, <<Slot(1, 1), Slot(1, 3)>>, <<Slot(1, 3), Slot(3, 1)>>,
     <<Slot(1, 2), Slot(1, 1), Slot(2, 2)>>}
MCSymmetry == Permutations(Entities)

\* The constants of each.
RcNames == 0 .. 5
RcFluids == {5}
RcNoRow == {9}
RcAsks == {2}
RcGarbage == {0, 7}

Rc == INSTANCE Recipes WITH todo <- r_todo, recipes <- r_recipes, byClass <- r_byClass,
    variants <- r_variants, blocks <- r_blocks, active <- r_active, timer <- r_timer,
    reply <- r_reply, ClassDocs <- RcClassDocs, RecipeDocs <- RcRecipeDocs, Names <- RcNames,
    Fluids <- RcFluids, NoRow <- RcNoRow, Asks <- RcAsks, Cells <- 2,
    Containers <- RcContainers, StackMax <- 2, Byte <- 8, Garbage <- RcGarbage

MCInit ==
    /\ turn \in {"quests", "recipes"}
    /\ Init /\ Rc!Init

MCNext ==
    \/ turn = "quests" /\ Next /\ UNCHANGED <<turn, rcVars>>
    \/ turn = "recipes" /\ Rc!Next /\ UNCHANGED <<turn, vars>>
MCSpec ==
    /\ MCInit /\ [][MCNext]_allVars

\* A craft takes exactly what is written of every ingredient, a machine gets
\* the lowest recipe its tier and energy allow or there is none, and a recipe
\* that runs is ticked until it is done (RecipeManager::findRecipeByInputs,
\* RecipeManagerService::onTimerTick).
RecipesAsWritten ==
    turn = "recipes" => Rc!InputsPaid /\ Rc!BestForTheMachine /\ Rc!TicksUntilDone
==============================================================================
