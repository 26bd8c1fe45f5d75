------------------------------- MODULE Gateway -------------------------------
(***************************************************************************)
(* IoUringGateway: the control connections of the one client, the player   *)
(* state they share, and what passes between client and router.            *)
(*                                                                         *)
(*   conn[s]   control connection of session s: "none"; "open"; "closed":  *)
(*             its socket is closed and on_closed has not run; "leaving":  *)
(*             on_closed found its session current and holds               *)
(*             client_state_mutex_; "over"                                 *)
(*   phase     the accept handler: "idle", or the step it is at with the   *)
(*             session it accepted and the connection that one replaced    *)
(*   gen       session_gen_; ctrl, bulk: client_ctrl_ (0: null), whether   *)
(*             a bulk connection is up                                     *)
(*   known, last     player_id_known_, last_x_ .. last_z_ (NoPos: not set)     *)
(*   pubs      what was published: joined, left, chunk requests, requests  *)
(*   sent      where the last message for the client went                  *)
(*   saved, online    the position MetaDB has for the player, whether the  *)
(*             last it was told of the player was player.joined (external) *)
(*                                                                         *)
(* A position is that of a block or, in a CHUNK_REQUEST, that of a chunk.  *)
(***************************************************************************)
EXTENDS Integers, Sequences, FiniteSets

CONSTANTS
    Spots,          \* positions of the player
    Spawn,          \* the one used until another is known
    MaxSessions,    \* bound on the connections accepted
    MaxPubs,        \* bound on what is published
    MaxFaults       \* bound on the losses of the router

VARIABLES conn, phase, gen, ctrl, bulk, known, last, router, pubs, sent, saved, online, faults

vars == <<conn, phase, gen, ctrl, bulk, known, last, router, pubs, sent, saved, online, faults>>
player == <<known, last>>
Sessions == 1 .. MaxSessions
-----------------------------------------------------------------------------
\* publish() is silent while the router is not connected.
Publish(ms) == pubs' = IF router THEN pubs \o ms ELSE pubs
NoPos == [unit |-> "none"]
Block(p) == [unit |-> "block", at |-> p]
ChunkAt(p) == [unit |-> "chunk", at |-> p]

Joined == [m |-> "joined"]
Left(p) == [m |-> "left", pos |-> p]
ChunkRequest(l) == [m |-> "chunk.requests", pos |-> ChunkAt(l.at)]
Room == Len(pubs) < MaxPubs

\* Where on_router_publish() sends a topic; every other topic of main()'s list is
\* for the control connection.
BulkTopics == {"world.chunk.loaded.compressed", "world.blocks.changed", "entities"}
OwnTopics == {"player.position.load", "metadb.player.online"}
CtrlTopics == {"player.actions.ack", "quest.unlocked", "sim.craft.response"}

\* What a client message becomes: MOVE and UNLOAD are dropped.
TopicOf == [CHUNK_REQUEST |-> "chunk.requests", ITEM_ACTION |-> "player.actions",
            SetBlock |-> "player.actions.setblock"]
-----------------------------------------------------------------------------
(***************************************************************************)
(* ctrl_server_.on_accept, step by step: the reads of the new connection   *)
(* start before client_ctrl_ is swapped and the player state is reset, and *)
(* the old connection, a local of the handler, is destroyed as it returns. *)
(* session_gen_ moves without client_state_mutex_.                         *)
(***************************************************************************)
\* client_state_mutex_ is free: no on_closed is between its check and its act.
StateFree == \A s \in Sessions : conn[s] # "leaving"
Handler(at, s, old) == phase' = [at |-> at, s |-> s, old |-> old]

\* start_reading() may fail: close() runs on_closed, and nothing else is done.
Accept ==
    /\ phase.at = "idle" /\ gen < MaxSessions
    /\ gen' = gen + 1
    /\ \/ conn' = [conn EXCEPT ![gen + 1] = "open"] /\ Handler("swap", gen + 1, 0)
       \/ conn' = [conn EXCEPT ![gen + 1] = "closed"] /\ Handler("return", 0, gen + 1)
    /\ UNCHANGED <<ctrl, bulk, player, router, pubs, sent, saved, online, faults>>

SwapCtrl ==
    /\ phase.at = "swap"
    /\ ctrl' = phase.s
    /\ Handler("reset", phase.s, ctrl)
    /\ UNCHANGED <<conn, gen, bulk, player, router, pubs, sent, saved, online, faults>>

ResetPlayer ==
    /\ phase.at = "reset" /\ StateFree
    /\ known' = TRUE
    /\ last' = IF last = NoPos THEN Block(Spawn) ELSE last
    /\ Publish(<<Joined>>)
    /\ Handler("request", phase.s, phase.old)
    /\ UNCHANGED <<conn, gen, ctrl, bulk, router, sent, saved, online, faults>>

RequestChunk ==
    /\ phase.at = "request" /\ StateFree
    /\ Publish(<<ChunkRequest(last)>>)
    /\ Handler("return", phase.s, phase.old)
    /\ UNCHANGED <<conn, gen, ctrl, bulk, player, router, sent, saved, online, faults>>

\* ~IoUringConnection closes the old one. One with writes in flight is given up
\* without cleanup(), and its on_closed never runs.
DestroyOld ==
    /\ phase.at = "return" /\ phase.old # 0 /\ conn[phase.old] = "open"
    /\ \E end \in {"closed", "over"} : conn' = [conn EXCEPT ![phase.old] = end]
    /\ UNCHANGED <<phase, gen, ctrl, bulk, player, router, pubs, sent, saved, online, faults>>

\* It has joined the old poll thread.
Return ==
    /\ phase.at = "return"
    /\ phase.old # 0 => conn[phase.old] = "over"
    /\ Handler("idle", 0, 0)
    /\ UNCHANGED <<conn, gen, ctrl, bulk, player, router, pubs, sent, saved, online, faults>>

\* The peer goes and the poll thread gets to on_closed; after bad input the loop ends
\* without cleanup().
PeerGone(s) ==
    /\ conn[s] = "open"
    /\ \E end \in {"closed", "over"} : conn' = [conn EXCEPT ![s] = end]
    /\ UNCHANGED <<phase, gen, ctrl, bulk, player, router, pubs, sent, saved, online, faults>>

\* on_closed: the check of session_gen_, then the act, under client_state_mutex_.
\* Mutant: on_closed acts for whatever session is current.
neverStale(s) == FALSE
Stale(s) == gen # s
OnClosed(s) ==
    /\ conn[s] = "closed" /\ StateFree
    /\ conn' = [conn EXCEPT ![s] = IF Stale(s) THEN "over" ELSE "leaving"]
    /\ UNCHANGED <<phase, gen, ctrl, bulk, player, router, pubs, sent, saved, online, faults>>

PlayerGone(s) ==
    /\ conn[s] = "leaving"
    /\ conn' = [conn EXCEPT ![s] = "over"]
    /\ known' = FALSE
    /\ Publish(IF known THEN <<Left(last)>> ELSE << >>)
    /\ UNCHANGED <<phase, gen, ctrl, bulk, last, router, sent, saved, online, faults>>

\* bulk_server_.on_accept, and the end of the bulk connection.
BulkAccept == /\ bulk' = ~bulk
              /\ UNCHANGED <<conn, phase, gen, ctrl, player, router, pubs, sent, saved, online, faults>>
-----------------------------------------------------------------------------
(***************************************************************************)
(* Client and router messages.                                             *)
(***************************************************************************)
\* A PlayerAction or SetBlockAction: passed on, the first of a session announces
\* the player, and its position, whatever it is the position of, becomes last.
on_client_ctrl_message(s, k, p) ==
    /\ conn[s] = "open" /\ Room /\ StateFree
    /\ known' = TRUE
    /\ last' = IF k = "CHUNK_REQUEST" THEN ChunkAt(p) ELSE Block(p)
    /\ Publish((IF k \in DOMAIN TopicOf THEN <<[m |-> TopicOf[k], pos |-> last']>> ELSE << >>)
                 \o (IF known THEN << >> ELSE <<Joined>>))
    /\ UNCHANGED <<conn, phase, gen, ctrl, bulk, router, sent, saved, online, faults>>

\* The other kinds are checked and passed on under a topic of their own.
ForwardClientRequest(s) ==
    /\ conn[s] = "open" /\ Room
    /\ Publish(<<[m |-> "request"]>>)
    /\ UNCHANGED <<conn, phase, gen, ctrl, bulk, player, router, sent, saved, online, faults>>

\* A message for a client that is not there is dropped, and nobody is told.
ToBulk == IF bulk THEN "bulk" ELSE "dropped"
ToCtrl == IF ctrl # 0 /\ conn[ctrl] = "open" THEN "ctrl" ELSE "dropped"
on_router_publish(t) ==
    /\ router
    /\ sent' = IF t \in BulkTopics THEN ToBulk ELSE ToCtrl
    /\ UNCHANGED <<conn, phase, gen, ctrl, bulk, player, router, pubs, saved, online, faults>>

\* MetaDB (external) takes what was published to it in order, saves the position
\* of player.left, and answers player.joined with the one it has.
MetaDB ==
    /\ pubs # << >>
    /\ pubs' = Tail(pubs)
                 \o (IF Head(pubs).m = "joined" /\ saved # NoPos THEN <<[m |-> "load", pos |-> saved]>> ELSE << >>)
    /\ saved' = IF Head(pubs).m = "left" THEN Head(pubs).pos ELSE saved
    /\ online' = CASE Head(pubs).m = "joined" -> TRUE [] Head(pubs).m = "left" -> FALSE [] OTHER -> online
    /\ Head(pubs).m # "load"
    /\ UNCHANGED <<conn, phase, gen, ctrl, bulk, player, router, sent, faults>>

PositionLoad ==
    /\ pubs # << >> /\ Head(pubs).m = "load" /\ StateFree
    /\ last' = Head(pubs).pos
    /\ pubs' = IF router THEN Append(Tail(pubs), ChunkRequest(last')) ELSE Tail(pubs)
    /\ UNCHANGED <<conn, phase, gen, ctrl, bulk, known, router, sent, saved, online, faults>>

\* metadb.player.online: the player is announced again.
publish_player_joined ==
    /\ router /\ known /\ Room /\ StateFree
    /\ Publish(<<Joined>>)
    /\ UNCHANGED <<conn, phase, gen, ctrl, bulk, player, router, sent, saved, online, faults>>

\* The router's connection is lost, and the main loop connects it again.
RouterLost ==
    /\ router /\ faults < MaxFaults
    /\ router' = FALSE /\ faults' = faults + 1
    /\ UNCHANGED <<conn, phase, gen, ctrl, bulk, player, pubs, sent, saved, online>>
connect_router ==
    /\ ~router
    /\ router' = TRUE
    /\ UNCHANGED <<conn, phase, gen, ctrl, bulk, player, pubs, sent, saved, online, faults>>

Init ==
    /\ conn = [s \in Sessions |-> "none"] /\ phase = [at |-> "idle", s |-> 0, old |-> 0]
    /\ gen = 0 /\ ctrl = 0 /\ bulk = FALSE /\ known = FALSE /\ last = NoPos
    /\ router = TRUE /\ pubs = << >> /\ sent = "dropped" /\ saved = NoPos
    /\ online = FALSE /\ faults = 0

Next ==
    \/ Accept \/ SwapCtrl \/ ResetPlayer \/ RequestChunk \/ DestroyOld \/ Return \/ BulkAccept
    \/ \E s \in Sessions : PeerGone(s) \/ OnClosed(s) \/ PlayerGone(s) \/ ForwardClientRequest(s)
    \/ \E s \in Sessions, k \in DOMAIN TopicOf \cup {"MOVE"}, p \in Spots : on_client_ctrl_message(s, k, p)
    \/ \E t \in BulkTopics \cup CtrlTopics : on_router_publish(t)
    \/ MetaDB \/ PositionLoad \/ publish_player_joined \/ RouterLost \/ connect_router

Spec == Init /\ [][Next]_vars
-----------------------------------------------------------------------------
\* What MetaDB takes the player for once it has read all that was published.
ToldOnline ==
    LET Presence(m) == m.m \in {"joined", "left"}
        said == SelectSeq(pubs, Presence)
    IN  IF said = << >> THEN online ELSE said[Len(said)].m = "joined"

\* The handler of session gen has reset the player and its connection is open.
Current == ctrl = gen /\ ctrl # 0 /\ phase.at \in {"request", "return", "idle"} /\ conn[ctrl] = "open"

\* A client that comes back is not taken for gone: from the moment its accept handler
\* has reset the player, and for as long as that newest session's connection is open,
\* the player is known, and what MetaDB hears last of it, if the router loses nothing,
\* is player.joined; however late the connection it replaced gets to its on_closed,
\* on its poll thread or when the handler destroys it. An accept that fails moves
\* session_gen_ past the open session, which then is no longer the newest.
PlayerHeld == Current => known /\ (faults = 0 => ToldOnline)

\* main() shuts down through publish_player_left() "to persist last player position":
\* what player.left carries are block coordinates.
LeftIsABlock == \A i \in 1 .. Len(pubs) : pubs[i].m = "left" => pubs[i].pos.unit = "block"
=============================================================================
