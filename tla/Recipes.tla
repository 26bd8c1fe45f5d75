------------------------------- MODULE Recipes -------------------------------
(***************************************************************************)
(* RecipeManager: the documents it loads, the recipes it accepts, how a    *)
(* container is matched and what a craft leaves of it; and                 *)
(* RecipeManagerService, which times the recipe of a block entity.         *)
(*                                                                         *)
(* A stack is [id, meta, n], id 0 an empty slot.  An item in a document is *)
(* [form, v]: "name" (v resolves if it is in Names), "id" (packed, never   *)
(* looked up) or "none" (the key is absent).                               *)
(*                                                                         *)
(*   todo       the documents not read yet                                 *)
(*   recipes    recipes_, id -> recipe with its document; byClass          *)
(*   variants   classes_; blocks: classByBlockId_, tierByBlockId_ and      *)
(*              energyInByBlockId_ in one                                  *)
(*   active     activeRecipes_; timer: the tick is armed                   *)
(*   reply      what the last step published: an answer, the recipes       *)
(*              completed, or nothing                                      *)
(***************************************************************************)
EXTENDS Integers, Sequences, FiniteSets, SequencesExt, FiniteSetsExt, Functions

CONSTANTS
    ClassDocs, RecipeDocs,  \* the documents of the data directory
    Names,                  \* names of the item registry; an item is its id
    Fluids, NoRow,          \* ids that are fluids; ids the registry lacks
    Cells,                  \* slots of a container (9)
    Containers, Entities,   \* containers of the requests, positions
    Asks,                   \* items recipes are asked for
    StackMax, Byte,         \* 64, and the width of a count
    Garbage                 \* values an uninitialized metadata may have

VARIABLES todo, recipes, byClass, variants, blocks, active, timer, reply

vars == <<todo, recipes, byClass, variants, blocks, active, timer, reply>>
catalog == <<recipes, byClass, variants, blocks>>
AnyEnergy == "any"
AnyFacing == "any"
Nothing == [k |-> "none"]
Empty == [id |-> 0, meta |-> 0, n |-> 0]
-----------------------------------------------------------------------------
(***************************************************************************)
(* Matching and crafting.                                                  *)
(***************************************************************************)
Same(s, x) == s.id = x.id /\ s.meta = x.meta

\* Cell by cell, an empty cell asking for an empty slot.
MatchesPattern(r, c) ==
    /\ Len(c) >= Cells
    /\ \A i \in 1 .. Cells :
          IF r.pattern[i].id = 0 THEN c[i].id = 0
          ELSE Same(c[i], r.pattern[i]) /\ c[i].n >= r.pattern[i].n

\* Each input takes the first slot left that has all of it; an input of id 0 asks
\* for nothing.  0 stands for an input without a slot.
Assigned(r, c) ==
    FoldLeft(LAMBDA used, x :
                LET fit == {i \in 1 .. Len(c) \ used : Same(c[i], x) /\ c[i].n >= x.n}
                IN  IF x.id = 0 THEN used ELSE used \cup {IF fit = {} THEN 0 ELSE Min(fit)},
             {}, r.inputs)
MatchesInputs(r, c) ==
    /\ Cardinality({i \in 1 .. Len(c) : c[i].id # 0 /\ c[i].n > 0})
         >= Cardinality({i \in 1 .. Len(r.inputs) : r.inputs[i].id # 0})
    /\ 0 \notin Assigned(r, c)

Matches(r, c) == IF r.hasPattern THEN MatchesPattern(r, c) ELSE MatchesInputs(r, c)

Minus(s, k) == IF s.n <= k THEN Empty ELSE [s EXCEPT !.n = @ - k]
Least(a, b) == IF a < b THEN a ELSE b

\* x is taken from the first slots that hold it.
Taken(c, x) ==
    FoldLeft(LAMBDA a, s :
                LET k == IF Same(s, x) THEN Least(s.n, a.left) ELSE 0
                IN  [left |-> a.left - k, c |-> Append(a.c, IF k > 0 THEN Minus(s, k) ELSE s)],
             [left |-> x.n, c |-> << >>], c).c

\* An input that is kept may turn the first stack of its kind into another.
Replaced(c, x) ==
    LET at == {i \in 1 .. Len(c) : Same(c[i], x)}
    IN  IF x.replace = 0 \/ at = {} THEN c
        ELSE [c EXCEPT ![Min(at)] = [@ EXCEPT !.id = x.replace, !.meta = 0]]

consumeInputs(r, c) ==
    IF r.hasPattern
    THEN [i \in 1 .. Len(c) |-> IF i <= Cells /\ r.pattern[i].id # 0 THEN Minus(c[i], r.pattern[i].n) ELSE c[i]]
    ELSE FoldLeft(LAMBDA d, x : IF x.consume THEN Taken(d, x) ELSE Replaced(d, x), c, r.inputs)

\* An output goes on the first stack with room for all of it, else in an empty
\* slot, else nowhere.  The room is a byte.
Placed(c, out) ==
    LET on == {i \in 1 .. Len(c) : Same(c[i], out) /\ (StackMax - c[i].n) % Byte >= out.n}
        free == {i \in 1 .. Len(c) : c[i].id = 0}
    IN  IF on # {} THEN [c EXCEPT ![Min(on)].n = (@ + out.n) % Byte]
        ELSE IF free # {} THEN [c EXCEPT ![Min(free)] = out]
        ELSE c
craft(r, c) == FoldLeft(Placed, consumeInputs(r, c), r.outputs)
-----------------------------------------------------------------------------
(***************************************************************************)
(* Loading.                                                                *)
(***************************************************************************)
\* resolveItemId(); a replace: is always looked up as a name.
Resolve(x) == IF x.form = "id" \/ (x.form = "name" /\ x.v \in Names) THEN x.v ELSE 0
ResolveName(x) == IF x.form = "name" /\ x.v \in Names THEN x.v ELSE 0
Unresolved(x) == x.form = "name" /\ x.v \notin Names
Known(x) == Resolve(x) # 0 /\ Resolve(x) \notin NoRow

InTier(t, lo, hi) == lo <= t /\ t <= hi

\* Mutant: names are not looked up before the recipe is stored.
namesUnchecked(y) == TRUE
NamesResolved(y) ==
    /\ \A i \in 1 .. Len(y.inputs) : ~Unresolved(y.inputs[i].item) /\ ~Unresolved(y.inputs[i].replace)
    /\ \A i \in 1 .. Len(y.pattern) : ~Unresolved(y.pattern[i])
    /\ \A i \in 1 .. Len(y.outputs) : ~Unresolved(y.outputs[i].item)

Producer(y) == y.class \in {"generator", "boiler"}
OutputsThere(y) == Producer(y) \/ y.outputs # << >>

\* A requirement needs a variant of the class that takes its kind at its tier.
EnergyOf == [EU |-> "ELECTRICITY", HU |-> "HEAT", FLUID |-> "STEAM", RU |-> "ROTATION"]
HasVariant(y, e, tier) ==
    y.class \in DOMAIN variants =>
        \E v \in variants[y.class] : v.energy = e /\ v.tier >= tier /\ InTier(v.tier, y.min, y.max)

RequirementOk(y, q) ==
    /\ q.amount > 0 /\ q.tier >= 0 /\ InTier(q.tier, y.min, y.max)
    /\ (q.kind \in {"FLUID", "ITEM"}) <=> Known(q.id)
    /\ q.kind = "FLUID" => Resolve(q.id) \in Fluids
    /\ q.kind # "ITEM" => HasVariant(y, EnergyOf[q.kind], q.tier)
    /\ y.energy # AnyEnergy => q.kind # "ITEM" /\ y.energy = EnergyOf[q.kind]

FluidsOk(y) == \A i \in 1 .. Len(y.fluids) :
    y.fluids[i].amount > 0 /\ Known(y.fluids[i].item) /\ Resolve(y.fluids[i].item) \in Fluids

EnergyOk(y) ==
    /\ y.energy \in {AnyEnergy, "HEAT", "STEAM", "ELECTRICITY", "ROTATION"} /\ y.eu >= 0
    /\ y.energy # AnyEnergy /\ y.eu > 0 => HasVariant(y, y.energy, y.min)

Accepts(y) ==
    /\ y.id # "" /\ y.class # ""
    /\ EnergyOk(y) /\ NamesResolved(y) /\ OutputsThere(y)
    /\ \A i \in 1 .. Len(y.reqs) : RequirementOk(y, y.reqs[i])
    /\ FluidsOk(y)

\* parseYamlInputItem() leaves the metadata of an input as it finds it: the item of
\* every turn of the loop is in the same place, so a document has one value.  An
\* input without an item is dropped.
Input(x, g) == [id |-> Resolve(x.item), meta |-> g, n |-> x.n, consume |-> x.consume,
                replace |-> ResolveName(x.replace)]
Output(x) == [id |-> Resolve(x.item), meta |-> x.meta, n |-> x.n]
Written(y) == SelectSeq(y.inputs, LAMBDA x : x.item.form # "none")
Parsed(y, g) ==
    [id |-> y.id, class |-> y.class, min |-> y.min, max |-> y.max, energy |-> y.energy,
     inputs |-> [i \in 1 .. Len(Written(y)) |-> Input(Written(y)[i], g)],
     hasPattern |-> y.pattern # << >>,
     pattern |-> [i \in 1 .. Cells |-> IF i <= Len(y.pattern) /\ Resolve(y.pattern[i]) # 0
                                       THEN [id |-> Resolve(y.pattern[i]), meta |-> 0, n |-> 1] ELSE Empty],
     outputs |-> IF Producer(y) THEN << >> ELSE [i \in 1 .. Len(y.outputs) |-> Output(y.outputs[i])],
     duration |-> IF y.duration = 0 THEN 1 ELSE y.duration, conditions |-> y.conditions, doc |-> y]

\* machines.yaml comes first; a block id belongs to the class that names it last.
parseYamlMachineClass(d) ==
    /\ d \in todo /\ d.k = "class"
    /\ todo' = todo \ {d}
    /\ variants' = [c \in DOMAIN variants \cup {d.class} |-> IF c = d.class THEN d.variants ELSE variants[c]]
    /\ blocks' = [b \in DOMAIN blocks \cup {v.block : v \in d.variants} |->
                    IF \E v \in d.variants : v.block = b
                    THEN LET v == CHOOSE w \in d.variants : w.block = b
                         IN  [class |-> d.class, tier |-> v.tier, energy |-> v.energy]
                    ELSE blocks[b]]
    /\ UNCHANGED <<recipes, byClass, active, timer, reply>>

\* The files of the directory come in any order.  A recipe that is read again
\* replaces the one of its name and is listed once more.
parseYamlRecipe(d) ==
    /\ d \in todo /\ d.k = "recipe" /\ \A o \in todo : o.k = "recipe"
    /\ todo' = todo \ {d}
    /\ IF ~Accepts(d.y) THEN UNCHANGED <<recipes, byClass>>
       ELSE \E g \in Garbage :
              /\ recipes' = [i \in DOMAIN recipes \cup {d.y.id} |->
                               IF i = d.y.id THEN Parsed(d.y, g) ELSE recipes[i]]
              /\ byClass' = [c \in DOMAIN byClass \cup {d.y.class} |->
                               LET old == IF c \in DOMAIN byClass THEN byClass[c] ELSE << >>
                               IN  IF c = d.y.class THEN Append(old, d.y.id) ELSE old]
    /\ UNCHANGED <<variants, blocks, active, timer, reply>>
-----------------------------------------------------------------------------
(***************************************************************************)
(* Queries.                                                                *)
(***************************************************************************)
ListedFor(b) ==
    IF b \notin DOMAIN blocks \/ blocks[b].class \notin DOMAIN byClass THEN << >>
    ELSE byClass[blocks[b].class]

\* Mutant: the tier and the energy of the machine are not asked.
runsAnything(b, r) == TRUE
RunsOn(b, r) == /\ InTier(blocks[b].tier, r.min, r.max)
                /\ r.energy # AnyEnergy => r.energy = blocks[b].energy

\* The first of the matching recipes with the highest min_tier; "" for none.
findRecipeByInputs(b, c) ==
    LET ok == SelectSeq(ListedFor(b), LAMBDA i : RunsOn(b, recipes[i]) /\ Matches(recipes[i], c))
        top == Max({recipes[i].min : i \in ToSet(ok)} \cup {-1})
        best == SelectSeq(ok, LAMBDA i : recipes[i].min = top)
    IN  IF top < 0 THEN "" ELSE best[1]

findRecipesForItem(x, mode) ==
    {i \in DOMAIN recipes :
        \/ mode \in {0, 1} /\ \E k \in 1 .. Len(recipes[i].outputs) : recipes[i].outputs[k].id = x
        \/ mode \in {0, 2} /\ \E k \in 1 .. Len(recipes[i].inputs) : recipes[i].inputs[k].id = x}
findRecipesForMachine(b) == ToSet(ListedFor(b))
collectRecipeItemIds ==
    UNION {{recipes[i].outputs[k].id : k \in 1 .. Len(recipes[i].outputs)}
             \cup {recipes[i].inputs[k].id : k \in 1 .. Len(recipes[i].inputs)} : i \in DOMAIN recipes} \ {0}

\* ConditionEvaluator against the state of a machine.
checkEnvironment(e, m) ==
    /\ e.temperature # << >> => InTier(m.temperature, e.temperature[1], e.temperature[2])
    /\ e.biomes # {} => m.biome \in e.biomes
checkMachine(k, m) == InTier(m.energy, k.min, k.max) /\ (k.facing # AnyFacing => m.facing = k.facing)
checkSpecial(want, have) == want \subseteq have
evaluate(r, m) ==
    LET q == r.conditions
    IN  /\ checkEnvironment(q.environment, m) /\ checkMachine(q.machine, m)
        /\ checkSpecial(q.special, m.tags)
\* A request names no machine: its state is MachineState{}.
BlankMachine == [temperature |-> 0, biome |-> 0, energy |-> 0, facing |-> 0, tags |-> {}]

Loaded == todo = {}
Answer(r) == Loaded /\ reply' = r /\ UNCHANGED <<todo, catalog, active, timer>>

handleCheckRecipeRequest(b, c) == Answer([k |-> "check", id |-> findRecipeByInputs(b, c), b |-> b, c |-> c])
handleCraftRequest(i, c) ==
    Answer(IF i \in DOMAIN recipes /\ Matches(recipes[i], c)
           THEN [k |-> "craft", id |-> i, was |-> c, now |-> craft(recipes[i], c)]
           ELSE [k |-> "error"])
handleEvaluateConditionsRequest(i) ==
    Answer([k |-> "evaluate", ok |-> i \in DOMAIN recipes /\ evaluate(recipes[i], BlankMachine)])
handleRecipesForItemRequest(x, mode) == Answer([k |-> "list", ids |-> findRecipesForItem(x, mode)])
handleRecipesForMachineRequest(b) == Answer([k |-> "list", ids |-> findRecipesForMachine(b)])
handleCatalogRequest == Answer([k |-> "items", ids |-> collectRecipeItemIds])
-----------------------------------------------------------------------------
(***************************************************************************)
(* The service's timed recipes.                                            *)
(***************************************************************************)
\* The result is computed here, from the slots the update shows.
\* Mutant: the timer is armed for a second recipe too late.
timerAfterSecond(n) == n = 2
ArmsTimer(n) == n = 1
handleBlockEntityUpdate(p, b, c) ==
    LET i == findRecipeByInputs(b, c)
    IN  /\ Loaded /\ p \notin DOMAIN active
        /\ i # ""
        /\ active' = [q \in DOMAIN active \cup {p} |->
                        IF q = p THEN [id |-> i, left |-> recipes[i].duration, was |-> c,
                                       now |-> craft(recipes[i], c)]
                        ELSE active[q]]
        /\ timer' = (timer \/ ArmsTimer(Cardinality(DOMAIN active')))
        /\ reply' = Nothing
        /\ UNCHANGED <<todo, catalog>>

onTimerTick ==
    LET left(p) == active[p].left - 1
        stay == {p \in DOMAIN active : left(p) > 0}
    IN  /\ timer
        /\ active' = [p \in stay |-> [active[p] EXCEPT !.left = left(p)]]
        /\ reply' = [k |-> "completed", slots |-> {<<p, active[p].now>> : p \in DOMAIN active \ stay}]
        /\ timer' = (stay # {})
        /\ UNCHANGED <<todo, catalog>>
-----------------------------------------------------------------------------
Init ==
    /\ todo = ClassDocs \cup RecipeDocs
    /\ recipes = << >> /\ byClass = << >> /\ variants = << >> /\ blocks = << >>
    /\ active = << >> /\ timer = FALSE /\ reply = Nothing

Ids == {d.y.id : d \in RecipeDocs}
Next ==
    \/ \E d \in todo : parseYamlMachineClass(d) \/ parseYamlRecipe(d)
    \/ \E b \in DOMAIN blocks, c \in Containers :
          handleCheckRecipeRequest(b, c) \/ (\E p \in Entities : handleBlockEntityUpdate(p, b, c))
    \/ \E i \in Ids : handleEvaluateConditionsRequest(i) \/ (\E c \in Containers : handleCraftRequest(i, c))
    \/ \E x \in Asks, mode \in 0 .. 2 : handleRecipesForItemRequest(x, mode)
    \/ \E b \in DOMAIN blocks : handleRecipesForMachineRequest(b)
    \/ handleCatalogRequest \/ onTimerTick

Spec == Init /\ [][Next]_vars
-----------------------------------------------------------------------------
Total(c, x) == MapThenSumSet(LAMBDA i : c[i].n, {i \in 1 .. Len(c) : c[i].id = x})

\* What a craft has done, wherever it came from.
Crafts == {[id |-> active[p].id, was |-> active[p].was, now |-> active[p].now] : p \in DOMAIN active}
            \cup (IF reply.k = "craft" THEN {[id |-> reply.id, was |-> reply.was, now |-> reply.now]} ELSE {})

\* What the document of a recipe asks for, by the names written in it.
Asked(y, x) ==
    IF y.pattern # << >> THEN Cardinality({i \in 1 .. Len(y.pattern) : y.pattern[i].v = x})
    ELSE MapThenSumSet(LAMBDA i : y.inputs[i].n,
                       {i \in 1 .. Len(y.inputs) : y.inputs[i].item.v = x /\ y.inputs[i].consume})
ItemsOf(y) == {y.inputs[i].item.v : i \in 1 .. Len(y.inputs)} \cup {y.pattern[i].v : i \in 1 .. Len(y.pattern)}
Changed(y) == {y.outputs[i].item.v : i \in 1 .. Len(y.outputs)}
                \cup UNION {{y.inputs[i].item.v, y.inputs[i].replace.v} :
                               i \in {j \in 1 .. Len(y.inputs) : ~y.inputs[j].consume}}

\* Nothing is crafted for free: of every ingredient a document writes, a craft
\* takes exactly what is written, however the slots are split, whichever of them
\* the match chose, and whatever name the document got wrong.
InputsPaid ==
    \A k \in Crafts :
        LET y == recipes[k.id].doc
        IN  \A x \in ItemsOf(y) \ (Changed(y) \cup {0}) : Total(k.was, x) - Total(k.now, x) = Asked(y, x)

\* A machine is given a recipe of its class that its tier and its energy allow,
\* and none of a higher tier, in whatever order the files were read; it is told
\* there is none only if there is none.
BestForTheMachine ==
    reply.k = "check" =>
        LET can == {i \in DOMAIN recipes :
                      /\ recipes[i].class = blocks[reply.b].class
                      /\ InTier(blocks[reply.b].tier, recipes[i].min, recipes[i].max)
                      /\ recipes[i].energy \in {AnyEnergy, blocks[reply.b].energy}
                      /\ Matches(recipes[i], reply.c)}
        IN  IF reply.id = "" THEN can = {}
            ELSE reply.id \in can /\ \A i \in can : recipes[i].min <= recipes[reply.id].min

\* A recipe that runs is ticked until it is done.
TicksUntilDone == active # << >> => timer

\* The recipe written for a container matches it when its ingredients are there.
WrittenMatches ==
    \A i \in DOMAIN recipes :
        recipes[i].doc.pattern = << >> =>
            Matches(recipes[i], [k \in 1 .. Len(recipes[i].inputs) |->
                                   [id |-> recipes[i].inputs[k].id, meta |-> 0, n |-> recipes[i].inputs[k].n]])
=============================================================================
