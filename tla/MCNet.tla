-------------------------------- MODULE MCNet --------------------------------
(***************************************************************************)
(* The three parts a message passes, each with its own variables, checked  *)
(* in one run: turn says which of them takes the steps of a behaviour.     *)
(***************************************************************************)
EXTENDS Router, NetConnection

VARIABLES turn,
    conn, phase, gen, ctrl, bulk, known, last, router, pubs, sent, saved, online, gFaults

gVars == <<conn, phase, gen, ctrl, bulk, known, last, router, pubs, sent, saved, online, gFaults>>
allVars == <<turn, vars, connVars, gVars>>

PlayerActions == <<"player", "actions">>
Quest == <<"quest", "completed">>
Sub(p) == [k |-> "sub", p |-> p]
Pub(t) == [k |-> "pub", t |-> t]
MCFrames ==
    [a |-> {Pub(PlayerActions), Pub(Quest)},
     b |-> {Pub(PlayerActions), [k |-> "hreq", nonce |-> 1],
            [k |-> "reg", name |-> "gateway", topics |-> {}]},
     s |-> {Sub(<<"quest", "#">>), [k |-> "unsub", p |-> Quest],
            [k |-> "reg", name |-> "sim", topics |-> {<<"player", "+">>, Quest}],
            [k |-> "hresp", nonce |-> 1], [k |-> "hreq", nonce |-> 1], [k |-> "beat"]}]

MCFrameLen == <<3, 2, 3>>
G == INSTANCE Gateway WITH faults <- gFaults, Spots <- {1, 2}, Spawn <- 1, MaxSessions <- 2,
        MaxPubs <- 1, MaxFaults <- 1

MCInit == turn \in {"router", "connection", "gateway"} /\ Init /\ ConnInit /\ G!Init
MCNext ==
    \/ turn = "router" /\ Next /\ UNCHANGED <<turn, connVars, gVars>>
    \/ turn = "connection" /\ ConnNext /\ UNCHANGED <<turn, vars, gVars>>
    \/ turn = "gateway" /\ G!Next /\ UNCHANGED <<turn, vars, connVars>>
MCSpec == MCInit /\ [][MCNext]_allVars

\* The player of the newest open session stays known and announced, however late the
\* connection it replaced ends (gateway.cpp: on_accept, on_closed).
PlayerHeld == G!PlayerHeld
=============================================================================
