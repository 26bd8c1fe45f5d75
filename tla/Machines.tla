------------------------------ MODULE Machines ------------------------------
(***************************************************************************)
(* The machines of SimulationCore and the resources they wait for.         *)
(*                                                                         *)
(*   MachineSystem            single-block machines: "electric", "mixer"   *)
(*                            (typed and fluid requirements) and "steam"   *)
(*   EBFSystem, LCRSystem,    multiblock controllers ("ebf", "lcr"): the   *)
(*   LargeBoilerSystem        last two tick EVERY controller               *)
(*   BatteryBufferSystem      "battery"                                    *)
(*   CraftReservationClient   typed reservations and per-tick charges      *)
(*   SimCoreMessageHandler    who sees an answer first                     *)
(*                                                                         *)
(* A machine is one record.  A request leaves in its field wire, PipeNet-  *)
(* work answers with any amount up to the one asked for, and the answer    *)
(* waits in resp until the main thread takes it between two ticks.  What   *)
(* the router loses is counted in lost.  Request ids are abstracted to     *)
(* "fresh": the lowest number no message, entry or leg of the machine      *)
(* bears.  A recipe is a number; Eu, Fluid and Cost are its typed          *)
(* requirement per tick, its fluid input and its legacy energy_cost.       *)
(***************************************************************************)
EXTENDS Integers, FiniteSets, FiniteSetsExt

CONSTANTS
    Machines,   \* entities
    Layouts,    \* the functions Machines -> Kinds a run starts from
    Recipes,    \* recipe numbers, in the order the recipes are searched
    Eu, Fluid, Cost,            \* per recipe
    Accepts,    \* per kind, the recipes of the machine id
    Duration,   \* ticks of a recipe
    Cap,        \* capacity of an energy buffer
    OutCap,     \* items the output slots hold
    MaxIn,      \* bound on the inputs of one recipe a machine holds
    MaxRetries, Backoff, Expiry,   \* kMaxRetries, kRetryBackoffTicks, ...
    MaxWire,    \* bound on the requests of a machine that are under way
    MaxLoss,    \* bound on what the router loses
    MaxRemove   \* bound on the machines that are broken

ASSUME RecipeAssumption ==
    /\ Recipes \subseteq Nat \ {0}
    /\ \A r \in Recipes : Eu[r] \in 0 .. Cap /\ Fluid[r] \in Nat /\ Cost[r] \in 0 .. Cap
ASSUME BoundAssumption ==
    /\ {Cap, OutCap, MaxIn, Duration, MaxRetries, MaxWire} \subseteq Nat \ {0}
    /\ {Backoff, Expiry, MaxLoss, MaxRemove} \subseteq Nat

VARIABLES
    kind,       \* what each machine is
    zero,       \* the machine that is entity 0 of the registry, if one is
    mach,       \* the components of each machine, and what is kept about it
    resp,       \* answers that are under way
    link,       \* the router connection is up
    lost,       \* messages the router lost
    removed     \* machines that were broken

vars == <<kind, zero, mach, resp, link, lost, removed>>

Kinds == {"none", "electric", "mixer", "steam", "ebf", "lcr", "battery"}
Single == {"electric", "mixer", "steam"}
Multiblock == {"ebf", "lcr"}
None == 0
NoPend == [rec |-> None]

\* A machine as onBlockChanged() creates it, and what the systems and the
\* reservation client keep about its entity from before.
Fresh == [inp |-> [r \in Recipes |-> 0], coal |-> 0, out |-> 0, buf |-> 0,
          rec |-> None, left |-> 0, needs |-> FALSE, pend |-> NoPend,
          here |-> TRUE, charges |-> 0, wait |-> {}, wire |-> {}, outs |-> {}]

PerTick(r) == IF Eu[r] > 0 THEN Eu[r] ELSE Cost[r]
Least(a, b) == IF a < b THEN a ELSE b
\* Mutant of Credit: the sum is not clamped to the capacity.
creditsPastCap(s, k) == [s EXCEPT !.buf = @ + k]
Credit(s, k) == [s EXCEPT !.buf = Least(Cap, @ + k)]
-----------------------------------------------------------------------------
(***************************************************************************)
(* Requests.  leg 0 is a charge, 1 the typed requirement, 2 the fluid.     *)
(***************************************************************************)
Answers(m) == {p \in resp : p.to = m}
Ids(m, s) == {q.id : q \in s.wire \cup s.outs \cup Answers(m)}
             \cup (IF s.pend = NoPend THEN {} ELSE {s.pend.id[l] : l \in DOMAIN s.pend.id})
FreshId(m, s, n) == CHOOSE i \in 1 .. Cardinality(Ids(m, s)) + 2 :
                        /\ i \notin Ids(m, s)
                        /\ Cardinality((1 .. i) \ Ids(m, s)) = n

Publish(m, s, topic, id, amt) ==
    IF link THEN [s EXCEPT !.wire = @ \cup {[id |-> id, topic |-> topic, amt |-> amt]}] ELSE s

\* publishConsumeRequest() of one leg and the entry that awaits its answer; a
\* publish that fails leaves no entry.
Request(m, s, leg, id, amt) ==
    IF link
    THEN [Publish(m, s, "typed", id, amt) EXCEPT
             !.outs = @ \cup {[id |-> id, leg |-> leg, amt |-> amt]}]
    ELSE s

AllGot(p) == \A l \in DOMAIN p.need : p.got[l] = p.need[l]
Legs(r) == {l \in {1, 2} : (l = 1 /\ Eu[r] > 0) \/ (l = 2 /\ Fluid[r] > 0)}
Needs(r, l) == IF l = 1 THEN Eu[r] ELSE Fluid[r]

\* Ask for every leg that is not yet accepted, under a fresh id each; the
\* entries of earlier ids stay.
AskLegs(m, s) ==
    LET open == {l \in DOMAIN s.pend.need : s.pend.got[l] < s.pend.need[l]}
        id(l) == FreshId(m, s, l)
        left(l) == s.pend.need[l] - s.pend.got[l]
        ask(t, l) == IF l \in open THEN Request(m, t, l, id(l), left(l)) ELSE t
    IN  [ask(ask(s, 1), 2) EXCEPT
            !.pend.id = [l \in DOMAIN @ |-> IF l \notin open THEN @[l]
                                            ELSE IF link THEN id(l) ELSE 0],
            !.pend.due = IF link THEN Backoff ELSE 0]

beginReservation(m, s, r) ==
    AskLegs(m, [s EXCEPT !.pend =
        [rec |-> r, need |-> [l \in Legs(r) |-> Needs(r, l)],
         got |-> [l \in Legs(r) |-> 0], id |-> [l \in Legs(r) |-> 0],
         tries |-> 0, age |-> 0, due |-> Backoff]])

cancel(s) == [s EXCEPT !.charges = 0, !.outs = {}, !.pend = NoPend]

tickPending(m, s) ==
    CASE AllGot(s.pend) -> s
      [] ~AllGot(s.pend) /\ (s.pend.age >= Expiry \/ s.pend.tries >= MaxRetries) -> cancel(s)
      [] ~AllGot(s.pend) /\ s.pend.age < Expiry /\ s.pend.tries < MaxRetries ->
            IF s.pend.due > 0 THEN s
            ELSE [AskLegs(m, s) EXCEPT !.pend.tries = @ + 1]

beginPerTickCharge(m, s) ==
    IF s.charges > 0 \/ ~link THEN s
    ELSE [Request(m, s, 0, FreshId(m, s, 1), Eu[s.rec]) EXCEPT !.charges = 1]
-----------------------------------------------------------------------------
(***************************************************************************)
(* Recipes: found among the inputs, paid for when they start.              *)
(***************************************************************************)
Found(s) == {r \in Recipes : s.inp[r] > 0}

Start(s, r) == [s EXCEPT !.inp[r] = @ - 1, !.rec = r, !.left = Duration]

\* Mutant of commitPendingCraft: the inputs are left in their slots.
commitsUnpaid(s) == [s EXCEPT !.rec = s.pend.rec, !.left = Duration, !.pend = NoPend]
commitPendingCraft(s) == [Start(s, s.pend.rec) EXCEPT !.pend = NoPend]

tickOrchestratedStart(m, s0, r) ==
    LET s == IF s0.pend.rec \notin {None, r} THEN cancel(s0) ELSE s0
        t == tickPending(m, s)
    IN  CASE s.pend = NoPend -> beginReservation(m, s, r)
          [] s.pend # NoPend /\ t.pend # NoPend /\ AllGot(t.pend) -> commitPendingCraft(t)
          [] s.pend # NoPend /\ (t.pend = NoPend \/ ~AllGot(t.pend)) -> t

\* Outputs go into the output slots; what does not fit is dropped.
Finish(s) == IF s.left > 0 THEN s
             ELSE [s EXCEPT !.out = Least(OutCap, @ + 1), !.needs = TRUE, !.rec = None]

Debit(s, c) == Finish([s EXCEPT !.buf = @ - c, !.left = @ - 1])

\* A request of the untyped protocols; the system notes that it waits whether
\* or not the publish succeeded.
Ask(m, s, who, topic, amt) ==
    [Publish(m, s, topic, FreshId(m, s, 1), amt) EXCEPT !.wait = @ \cup {who}]
-----------------------------------------------------------------------------
(***************************************************************************)
(* MachineSystem::tick(): start, passive steam top-up, run.                *)
(***************************************************************************)
PassStart(m, s) ==
    LET r == Min(Found(s))
        t == [s EXCEPT !.needs = FALSE]
    IN  IF s.rec # None \/ (s.needs /\ s.out > 0) THEN s
        ELSE IF Found(s) = {} THEN t
        ELSE IF Legs(r) # {} THEN tickOrchestratedStart(m, t, r) ELSE Start(t, r)

PassTopUp(m, s) ==
    IF kind[m] = "steam" /\ s.rec = None /\ s.buf < Cap /\ "fluid" \notin s.wait
    THEN Ask(m, s, "fluid", "fluid", Cap - s.buf)
    ELSE s

\* One consume request at a time to each pool of the pipe network.
AskEnergy(m, s, who, c) == IF who \in s.wait THEN s ELSE Ask(m, s, who, "energy", c)
AskSteam(m, s, c) == IF "fluid" \in s.wait THEN s ELSE Ask(m, s, "fluid", "fluid", c)

PassRun(m, s) ==
    LET c == PerTick(s.rec)
    IN  IF s.rec = None THEN s
        ELSE IF s.buf >= c THEN Debit(s, c)
        ELSE IF Eu[s.rec] > 0 THEN beginPerTickCharge(m, s)
        ELSE IF kind[m] = "steam" THEN AskSteam(m, s, c)
        ELSE AskEnergy(m, s, "machine", c)

MachineTick(m, s) == PassRun(m, PassTopUp(m, PassStart(m, s)))
-----------------------------------------------------------------------------
(***************************************************************************)
(* The multiblock systems.  None of them looks at needs_output.            *)
(***************************************************************************)
\* The same reservation as a single block's, over the slots of the hatches.
EBFOrchestratedStart(m, s, r) == tickOrchestratedStart(m, s, r)

EBFStart(m, s) ==
    LET r == Min(Found(s))
    IN  IF Found(s) = {} THEN s
        ELSE IF Eu[r] > 0 THEN EBFOrchestratedStart(m, s, r) ELSE Start(s, r)

EBFRun(m, s) ==
    LET c == PerTick(s.rec)
    IN  IF s.buf >= c THEN Debit(s, c) ELSE AskEnergy(m, s, "ebf", c)

EBFTick(m, s) == IF s.rec = None THEN EBFStart(m, s) ELSE EBFRun(m, s)

LargeBoilerTick(s) == IF s.coal = 0 THEN s ELSE Credit([s EXCEPT !.coal = @ - 1], 1)

LCRStart(s) == IF Found(s) = {} THEN s ELSE Start(s, Min(Found(s)))

\* Every requirement is EU here, so nothing is reserved and a request goes out
\* every tick, whether or not one is under way.
LCRRun(m, s) ==
    LET c == PerTick(s.rec)
    IN  IF s.buf >= c THEN Debit(s, c) ELSE Ask(m, s, "lcr", "energy", c)

LCRTick(m, s) == IF s.rec = None THEN LCRStart(s) ELSE LCRRun(m, s)

MultiblockTick(m, s) ==
    LCRTick(m, LargeBoilerTick(IF kind[m] = "ebf" THEN EBFTick(m, s) ELSE s))

\* BatteryBufferSystem: charge the tool in the slot (out is its charge), then
\* ask for what is missing.
BatteryTick(m, s0) ==
    LET s == IF s0.buf > 0 /\ s0.out < OutCap
             THEN [s0 EXCEPT !.buf = @ - 1, !.out = @ + 1] ELSE s0
    IN  IF s.buf < Cap /\ "battery" \notin s.wait
        THEN Ask(m, s, "battery", "energy", Cap - s.buf) ELSE s

\* The time a pending craft has waited, and has left until its next retry.
Clock(s) == IF s.pend = NoPend THEN s
            ELSE [s EXCEPT !.pend.age = Least(Expiry, @ + 1),
                           !.pend.due = IF @ > 0 THEN @ - 1 ELSE 0]

TickMachine(m) ==
    LET s == Clock(mach[m])
    IN  CASE ~s.here \/ kind[m] = "none"    -> mach[m]
          [] s.here /\ kind[m] \in Single   -> MachineTick(m, s)
          [] s.here /\ kind[m] \in Multiblock -> MultiblockTick(m, s)
          [] s.here /\ kind[m] = "battery"  -> BatteryTick(m, s)

UnderWay(m) == Cardinality(mach[m].wire) + Cardinality(Answers(m))

Tick ==
    /\ \A m \in Machines : UnderWay(m) < MaxWire
    /\ mach' = [m \in Machines |-> TickMachine(m)]
    /\ UNCHANGED <<kind, zero, resp, link, lost, removed>>
-----------------------------------------------------------------------------
(***************************************************************************)
(* Answers.                                                                *)
(***************************************************************************)
\* External: PipeNetwork grants any part of what is asked for.
Serve(m, q, k) ==
    /\ k <= q.amt
    /\ mach' = [mach EXCEPT ![m].wire = @ \ {q}]
    /\ resp' = resp \cup {[to |-> m, topic |-> q.topic, id |-> q.id, got |-> k]}
    /\ UNCHANGED <<kind, zero, link, lost, removed>>

\* Mutant of Accepted: what was asked for counts as accepted.
acceptsRequested(p, e) == e.amt
Accepted(p, e) == Least(p.got, e.amt)

\* CraftReservationClient::onConsumeResponse()
onTypedResponse(s, p) ==
    LET e == CHOOSE o \in s.outs : o.id = p.id
        t == [s EXCEPT !.outs = @ \ {e}]
        k == Accepted(p, e)
    IN  CASE p.id \notin {o.id : o \in s.outs} -> s
          [] p.id \in {o.id : o \in s.outs} /\ e.leg = 0 ->
                Credit([t EXCEPT !.charges = IF @ > 1 THEN @ - 1 ELSE 0], k)
          [] p.id \in {o.id : o \in s.outs} /\ e.leg # 0 ->
                IF s.pend # NoPend /\ e.leg \in DOMAIN s.pend.id /\ s.pend.id[e.leg] = p.id
                THEN [Credit(t, k) EXCEPT
                         !.pend.got[e.leg] = Least(s.pend.need[e.leg], @ + k)]
                ELSE t

\* The chain of SimCoreMessageHandler.  The systems that name the machine
\* come first; MachineSystem credits whoever is named.
onBatteryResponse(s, k) ==
    [(IF s.here THEN Credit(s, k) ELSE s) EXCEPT !.wait = @ \ {"battery"}]
onMultiblockResponse(s, who, k) ==
    [(IF s.here THEN Credit(s, k) ELSE s) EXCEPT !.wait = @ \ {who}]
onLCRResponse(s, k) == onMultiblockResponse(s, "lcr", k)
onEBFResponse(s, k) == onMultiblockResponse(s, "ebf", k)
\* Mutant of onMachineResponse: an empty answer leaves the entry behind.
keepsWaiting(s, k) ==
    IF k = 0 \/ ~s.here THEN s ELSE [Credit(s, k) EXCEPT !.wait = @ \ {"machine"}]
onMachineResponse(s, k) ==
    [(IF s.here THEN Credit(s, k) ELSE s) EXCEPT !.wait = @ \ {"machine"}]

\* Entity 0 is "no node" to MachineSystem: an empty answer is ignored, another
\* one goes to some machine that waits.
onUndirectedResponse(k) ==
    LET waiting == {n \in Machines : "machine" \in mach[n].wait}
    IN  IF k = 0 \/ waiting = {} THEN mach' = mach
        ELSE \E n \in waiting : mach' = [mach EXCEPT ![n] = onMachineResponse(@, k)]

EnergyAnswer(p) ==
    LET m == p.to
        w == mach[m].wait
        to(s) == mach' = [mach EXCEPT ![m] = s]
    IN  /\ p.topic = "energy"
        /\ IF p.got > 0 /\ "battery" \in w THEN to(onBatteryResponse(mach[m], p.got))
           ELSE IF "lcr" \in w THEN to(onLCRResponse(mach[m], p.got))
           ELSE IF "ebf" \in w THEN to(onEBFResponse(mach[m], p.got))
           ELSE IF m = zero THEN onUndirectedResponse(p.got)
           ELSE to(onMachineResponse(mach[m], p.got))

\* FluidConsumeResp names nobody: it settles the first entry of an unordered
\* map, an empty one too.
FluidAnswer(p) ==
    LET waiting == {n \in Machines : "fluid" \in mach[n].wait}
        settle(s) == [(IF s.here THEN Credit(s, p.got) ELSE s) EXCEPT !.wait = @ \ {"fluid"}]
    IN  /\ p.topic = "fluid"
        /\ IF waiting = {} THEN mach' = mach
           ELSE \E n \in waiting : mach' = [mach EXCEPT ![n] = settle(@)]

TypedAnswer(p) ==
    /\ p.topic = "typed"
    /\ mach' = [mach EXCEPT ![p.to] = onTypedResponse(@, p)]

Deliver(p) ==
    /\ resp' = resp \ {p}
    /\ EnergyAnswer(p) \/ FluidAnswer(p) \/ TypedAnswer(p)
    /\ UNCHANGED <<kind, zero, link, lost, removed>>
-----------------------------------------------------------------------------
(***************************************************************************)
(* The router loses a message or its connection; players handle items and  *)
(* break and place machines.                                               *)
(***************************************************************************)
LoseRequest(m, q) ==
    /\ lost < MaxLoss
    /\ lost' = lost + 1
    /\ mach' = [mach EXCEPT ![m].wire = @ \ {q}]
    /\ UNCHANGED <<kind, zero, resp, link, removed>>

LoseAnswer(p) ==
    /\ lost < MaxLoss
    /\ lost' = lost + 1
    /\ resp' = resp \ {p}
    /\ UNCHANGED <<kind, zero, mach, link, removed>>

LinkDown ==
    /\ link /\ lost < MaxLoss
    /\ link' = FALSE /\ lost' = lost + 1
    /\ UNCHANGED <<kind, zero, mach, resp, removed>>

LinkUp ==
    /\ ~link /\ link' = TRUE
    /\ UNCHANGED <<kind, zero, mach, resp, lost, removed>>

Insert(m, r) ==
    /\ mach[m].here /\ r \in Accepts[kind[m]] /\ mach[m].inp[r] < MaxIn
    /\ mach' = [mach EXCEPT ![m].inp[r] = @ + 1]
    /\ UNCHANGED <<kind, zero, resp, link, lost, removed>>

Withdraw(m, r) ==
    /\ mach[m].inp[r] > 0
    /\ mach' = [mach EXCEPT ![m].inp[r] = @ - 1]
    /\ UNCHANGED <<kind, zero, resp, link, lost, removed>>

InsertCoal(m) ==
    /\ mach[m].here /\ kind[m] \in Multiblock /\ mach[m].coal = 0
    /\ mach' = [mach EXCEPT ![m].coal = 1]
    /\ UNCHANGED <<kind, zero, resp, link, lost, removed>>

\* The output is taken out (for a battery: the tool, and an empty one put in).
TakeOut(m) ==
    /\ mach[m].out > 0
    /\ mach' = [mach EXCEPT ![m].out = 0]
    /\ UNCHANGED <<kind, zero, resp, link, lost, removed>>

\* onBlockChanged() with air: the components go, the entity stays, and only
\* the reservation client is told.
Remove(m) ==
    /\ mach[m].here /\ kind[m] # "none" /\ removed < MaxRemove
    /\ removed' = removed + 1
    /\ mach' = [mach EXCEPT ![m] =
          [Fresh EXCEPT !.here = FALSE, !.wait = mach[m].wait, !.wire = mach[m].wire]]
    /\ UNCHANGED <<kind, zero, resp, link, lost>>

Place(m) ==
    /\ ~mach[m].here
    /\ mach' = [mach EXCEPT ![m].here = TRUE]
    /\ UNCHANGED <<kind, zero, resp, link, lost, removed>>

Init ==
    /\ kind \in Layouts
    /\ zero \in {None} \cup {m \in Machines : kind[m] = "electric"}
    /\ mach = [m \in Machines |-> Fresh]
    /\ resp = {} /\ link = TRUE /\ lost = 0 /\ removed = 0

Player == \E m \in Machines :
    \/ \E r \in Recipes : Insert(m, r) \/ Withdraw(m, r)
    \/ InsertCoal(m) \/ TakeOut(m) \/ Remove(m) \/ Place(m)

Next ==
    \/ Tick
    \/ \E m \in Machines : \E q \in mach[m].wire :
          LoseRequest(m, q) \/ \E k \in 0 .. Cap : Serve(m, q, k)
    \/ \E p \in resp : Deliver(p) \/ LoseAnswer(p)
    \/ LinkDown \/ LinkUp
    \/ Player

Spec == Init /\ [][Next]_vars
-----------------------------------------------------------------------------
\* Every number stays within its buffer, slot or budget.
TypeOK ==
    /\ kind \in [Machines -> Kinds]
    /\ \A m \in Machines :
          /\ mach[m].buf \in 0 .. Cap /\ mach[m].out \in 0 .. OutCap
          /\ mach[m].rec \in Recipes \cup {None} /\ mach[m].left \in 0 .. Duration
          /\ mach[m].inp \in [Recipes -> 0 .. MaxIn]
          /\ mach[m].charges \in 0 .. 1
          /\ mach[m].pend # NoPend => mach[m].pend.tries \in 0 .. MaxRetries
    /\ lost \in 0 .. MaxLoss /\ removed \in 0 .. MaxRemove

\* Resources stored or on their way.
Stored == MapThenSumSet(LAMBDA m : mach[m].buf, Machines)
          + MapThenSumSet(LAMBDA p : p.got, resp)

\* What is stored or on its way grows only by what PipeNetwork grants to one
\* request, or by the coal a large boiler burns.
Granted ==
    Stored' > Stored =>
        \/ \E m \in Machines : \E q \in mach[m].wire :
              q \notin mach'[m].wire /\ Stored' - Stored <= q.amt
        \/ Stored' - Stored <= Cardinality({m \in Machines : mach[m].coal > 0 /\ mach'[m].coal = 0})

Goods(s) == MapThenSumSet(LAMBDA r : s.inp[r], Recipes) + s.out
            + (IF s.rec = None THEN 0 ELSE 1)

\* A tick turns every input it takes into one run of a recipe and every run
\* into one output: a single-block machine loses nothing and no machine makes
\* an output it has no input for.
InputsTaken ==
    Tick => \A m \in Machines : kind[m] # "battery" =>
          /\ Goods(mach'[m]) <= Goods(mach[m])
          /\ kind[m] \notin Multiblock => Goods(mach'[m]) = Goods(mach[m])

\* A craft is paid for in items and in resources, although two systems tick one
\* controller and a reservation can complete at any moment: its inputs are taken
\* when it starts, and what its machine is credited was granted, once, to a
\* request, whichever of several answers comes after a retry, short, late or to a
\* reservation that was cancelled (tickPending(), onConsumeResponse(),
\* commitPendingCraft()).
CraftsArePaid == [][Granted /\ InputsTaken]_vars

\* Messages under way that will settle what m waits for as `who'.
Owed(m, topic) == {q \in mach[m].wire : q.topic = topic} \cup
                  {p \in resp : p.topic = topic /\ p.to = m}

\* A machine that waits is owed an answer, so it cannot wait for ever: as long
\* as the router loses nothing, every entry of pendingConsumes_, of
\* pendingFluidConsumes_ and of charge_by_entity_ has its message under way.
\* (The entry of entity 0 and of a battery can be left behind.)
WaitsForSomething ==
    lost = 0 =>
      /\ \A m \in Machines \ {zero} :
            /\ mach[m].wait \cap {"machine", "ebf", "lcr"} # {} => Owed(m, "energy") # {}
            /\ mach[m].charges > 0 => \E o \in mach[m].outs :
                  o.leg = 0 /\ o.id \in {q.id : q \in Owed(m, "typed")}
      /\ Cardinality({m \in Machines : "fluid" \in mach[m].wait})
            <= MapThenSumSet(LAMBDA m : Cardinality(Owed(m, "fluid")), Machines)

\* What the comment in BatteryBufferSystem::onConsumeResponse() asks for: no
\* request is left behind once nothing of it is under way.
BatteryIsOwed ==
    \A m \in Machines : "battery" \in mach[m].wait => Owed(m, "energy") # {}
=============================================================================
