-------------------------------- MODULE Heat --------------------------------
(***************************************************************************)
(* Heat among neighbouring machines: one engine tick moves heat from        *)
(* sources to sinks nearest first (AdjacencyTransferSystem, pass 1), cools  *)
(* what holds some (pass 3), lets recipe machines spend theirs              *)
(* (MachineSystem), burns fuel (GeneratorSystem) and turns heat into steam  *)
(* (BoilerSystem), in the order main.cpp registers the systems.             *)
(*                                                                         *)
(* A machine keeps its heat twice: EnergyStorage::current (`heat') and      *)
(* HeatIntakeComponent::heat_stored (`mirror'); which system writes which   *)
(* is what the properties are about.                                        *)
(***************************************************************************)
EXTENDS Integers, SequencesExt, FiniteSetsExt

CONSTANTS
    View,            \* the machines in the order the ECS yields them
    Neighbours,      \* machine -> its neighbours, in the order of dirs
    Sources, Sinks,  \* the registry's energy_out / energy_in = HEAT
    Mirrored,        \* machines with a HeatIntakeComponent
    Generators, Boilers, Workers,
    Wet,             \* machines beside water
    Capacity, MaxOutput, FuelValue, Cooling, WetCooling, ConversionRate,
    SteamCapacity, Cost, MaxFuel, MaxJobs

VARIABLES
    heat,            \* EnergyStorage::current
    mirror,          \* HeatIntakeComponent::heat_stored
    fuel,            \* fuel items in a generator's slots
    burnEnergy,      \* GeneratorSystem::burnEnergy_
    steam,           \* SteamOutputComponent::steam_stored
    jobs,            \* ticks of recipe work waiting in a machine
    burnt,           \* ghost: fuel items burnt
    cooled, spent,   \* ghosts: heat that left by cooling, by recipes
    given,           \* ghost: heat that recipe machines were given
    fed              \* fuel and jobs put in, for the bounds

vars == <<heat, mirror, fuel, burnEnergy, steam, jobs, burnt, cooled, spent, given, fed>>

Viewed == ToSet(View)
Total(f, S) == FoldFunctionOnSet(+, 0, f, S)
\* v itself, computed here and not again at every use
Value(v) == CHOOSE x \in {v} : TRUE
Smaller(a, b) == IF a < b THEN a ELSE b
Larger(a, b) == IF a > b THEN a ELSE b

-----------------------------------------------------------------------------
(***************************************************************************)
(* Pass 1.  The search starts at sources that hold heat and goes on through *)
(* every source, cold ones too; a pure sink ends it.                        *)
(***************************************************************************)
Beside(m) == ToSet(Neighbours[m])

\* the distance of every machine from a source that holds heat; -1: none reaches it
Distances(h) ==
    LET seeds == [m \in Viewed |-> IF m \in Sources /\ h[m] > 0 THEN 0 ELSE -1]
        step(d, k) ==
            Value([m \in Viewed |->
                IF d[m] = -1 /\ m \in Sources \cup Sinks
                        /\ \E n \in Beside(m) \cap Sources : d[n] = k - 1
                THEN k ELSE d[m]])
    IN  FoldLeft(step, seeds, [k \in 1..Len(View) |-> k])

\* a mutant: the order the pass had before, the ECS's own
inViewOrder(h) == SelectSeq(View, LAMBDA m : m \in Sinks)

\* stable: equal distances keep the ECS's order
SweepOrder(h) ==
    LET d == Value(Distances(h))
        at(k) == SelectSeq(View, LAMBDA m : m \in Sinks /\ d[m] = k)
    IN  FoldLeft(LAMBDA found, k : found \o at(k - 2), <<>>,
                 [k \in 1..Len(View) + 2 |-> k])

\* what a donor gives a sink now, with the live amounts of both
Take(st, sink, donor) ==
    LET t == Smaller(Capacity[sink] - st.heat[sink], st.heat[donor])
        got == st.heat[sink] + t
    IN  IF donor \in Sources /\ donor # sink /\ t > 0
        THEN [heat |-> [st.heat EXCEPT ![donor] = @ - t, ![sink] = got],
              mirror |-> IF sink \in Mirrored
                         THEN [st.mirror EXCEPT ![sink] = got] ELSE st.mirror,
              given |-> st.given + (IF sink \in Workers THEN t ELSE 0)]
        ELSE st

Fill(st, sink) ==
    FoldLeft(LAMBDA s, donor : Value(Take(s, sink, donor)), st, Neighbours[sink])

Sweep(h, hm) ==
    FoldLeft(Fill, [heat |-> h, mirror |-> hm, given |-> 0], Value(SweepOrder(h)))

(***************************************************************************)
(* Pass 3: what the mirror holds cools, and becomes the machine's heat.     *)
(***************************************************************************)
CoolAmount(m, hm) ==
    Smaller(IF m \in Wet THEN WetCooling ELSE Cooling, hm[m])

Cools(hm) == {m \in Mirrored : hm[m] > 0}

Cool(h, hm) ==
    [heat   |-> [m \in Viewed |-> IF m \in Cools(hm) THEN hm[m] - CoolAmount(m, hm)
                                                       ELSE h[m]],
     mirror |-> [m \in Viewed |-> IF m \in Cools(hm) THEN hm[m] - CoolAmount(m, hm)
                                                       ELSE hm[m]],
     cooled |-> Total([m \in Viewed |-> IF m \in Cools(hm) /\ m \notin Workers
                                          THEN CoolAmount(m, hm) ELSE 0], Viewed)]

(***************************************************************************)
(* MachineSystem: a tick of recipe work takes its cost from the energy.     *)
(***************************************************************************)
Works(h, m) == m \in Workers /\ jobs[m] > 0 /\ h[m] >= Cost

(***************************************************************************)
(* GeneratorSystem: the burn pays for what the buffer accepted.             *)
(***************************************************************************)
Lights(h, g) == h[g] < Capacity[g] /\ burnEnergy[g] = 0 /\ fuel[g] > 0

Burning(h, g) ==
    IF h[g] >= Capacity[g] THEN 0
    ELSE IF Lights(h, g) THEN FuelValue ELSE burnEnergy[g]

Accepted(h, g) ==
    Smaller(Smaller(MaxOutput, Burning(h, g)), Capacity[g] - h[g])

\* a mutant: the burn pays for what was offered
paysTheOffer(h, g) ==
    IF h[g] >= Capacity[g] THEN burnEnergy[g]
    ELSE Burning(h, g) - Smaller(MaxOutput, Burning(h, g))

Remaining(h, g) ==
    IF h[g] >= Capacity[g] THEN burnEnergy[g] ELSE Burning(h, g) - Accepted(h, g)

(***************************************************************************)
(* BoilerSystem: the mirror is raised to the heat, never lowered, and both  *)
(* pay for the steam.                                                       *)
(***************************************************************************)
Raised(h, hm, b) == Larger(hm[b], h[b])

Converted(h, hm, b) ==
    IF b \in Boilers
    THEN Smaller(ConversionRate, Smaller(Raised(h, hm, b), SteamCapacity - steam[b]))
    ELSE 0

-----------------------------------------------------------------------------
AddFuel(g) ==
    /\ g \in Generators /\ fed.fuel < MaxFuel
    /\ fuel' = [fuel EXCEPT ![g] = @ + 1]
    /\ fed' = [fed EXCEPT !.fuel = @ + 1]
    /\ UNCHANGED <<heat, mirror, burnEnergy, steam, jobs, burnt, cooled, spent, given>>

AddJob(w) ==
    /\ w \in Workers /\ fed.jobs < MaxJobs
    /\ jobs' = [jobs EXCEPT ![w] = @ + 1]
    /\ fed' = [fed EXCEPT !.jobs = @ + 1]
    /\ UNCHANGED <<heat, mirror, fuel, burnEnergy, steam, burnt, cooled, spent, given>>

DrainSteam(b) ==
    /\ b \in Boilers /\ steam[b] > 0
    /\ steam' = [steam EXCEPT ![b] = 0]
    /\ spent' = spent + steam[b]
    /\ UNCHANGED <<heat, mirror, fuel, burnEnergy, jobs, burnt, cooled, given, fed>>

Tick ==
    \E s \in {Sweep(heat, mirror)} : \E c \in {Cool(s.heat, s.mirror)} :
    \E h \in {[m \in Viewed |-> IF Works(c.heat, m) THEN c.heat[m] - Cost
                                                      ELSE c.heat[m]]} :
    \E g \in {[m \in Viewed |-> IF m \in Generators /\ h[m] < Capacity[m]
                                   THEN h[m] + Accepted(h, m) ELSE h[m]]} :
        /\ heat' = [m \in Viewed |-> g[m] - Converted(g, c.mirror, m)]
        /\ mirror' = [m \in Viewed |->
                IF m \in Boilers THEN Raised(g, c.mirror, m) - Converted(g, c.mirror, m)
                                 ELSE c.mirror[m]]
        /\ steam' = [b \in Boilers |-> steam[b] + Converted(g, c.mirror, b)]
        /\ fuel' = [m \in Generators |-> IF Lights(h, m) THEN fuel[m] - 1 ELSE fuel[m]]
        /\ burnEnergy' = [m \in Generators |-> Remaining(h, m)]
        /\ burnt' = burnt + Cardinality({m \in Generators : Lights(h, m)})
        /\ jobs' = [w \in Workers |-> IF Works(c.heat, w) THEN jobs[w] - 1 ELSE jobs[w]]
        /\ cooled' = cooled + c.cooled
        /\ given' = given + s.given
        /\ UNCHANGED <<spent, fed>>

Init ==
    /\ heat = [m \in Viewed |-> 0]
    /\ mirror = [m \in Viewed |-> 0]
    /\ fuel = [g \in Generators |-> 0]
    /\ burnEnergy = [g \in Generators |-> 0]
    /\ steam = [b \in Boilers |-> 0]
    /\ jobs = [w \in Workers |-> 0]
    /\ burnt = 0 /\ cooled = 0 /\ spent = 0 /\ given = 0
    /\ fed = [fuel |-> 0, jobs |-> 0]

Next ==
    \/ \E m \in Viewed : AddFuel(m) \/ AddJob(m) \/ DrainSteam(m)
    \/ Tick

Spec == Init /\ [][Next]_vars

-----------------------------------------------------------------------------
(* Every unit of heat comes from fuel and is still there: what the sources, *)
(* relays and boilers hold, the steam made of it, what cooled away and what *)
(* recipe machines were given is exactly what was burnt.  It holds because  *)
(* only those machines' heat is also in a mirror that someone keeps up.     *)
HeatIsPaid ==
    Total(heat, Viewed \ Workers) + Total(steam, Boilers) + spent + cooled + given
        + Total(burnEnergy, Generators) = FuelValue * burnt

(* A pure sink with room is not left beside a source that still has heat,   *)
(* however long the chain of cold relays that fed it this tick.             *)
ServedInOneTick ==
    LET h == Value(Sweep(heat, mirror).heat)
    IN  \A s \in Sinks \ Sources :
            h[s] < Capacity[s] => \A d \in Beside(s) \cap Sources : h[d] = 0

-----------------------------------------------------------------------------
(* A claim the code does not keep: heat-management/spec.md:15, "heat_stored *)
(* is synced to EnergyStorage.current".  MachineSystem spends the energy    *)
(* and leaves the mirror; pass 3 then writes the mirror back, and the heat  *)
(* a recipe spent is there again.                                           *)
MirrorsAgree ==
    \A m \in Sinks \cap Mirrored : mirror[m] = heat[m]
=============================================================================
