------------------------------ MODULE MCPlayer -------------------------------
(*****************************************************************************)
(* The containers and machines players open, the blocks they place and       *)
(* break, and the client: its windows, meshes, recipe queries,               *)
(* buffers and connections, each with its own variables, checked in one run: *)
(* turn says which of them takes the steps of a behaviour. Players are       *)
(* interchangeable.                                                          *)
(*****************************************************************************)
EXTENDS Containers

CONSTANT NoBlock

VARIABLES turn,
    b_inv, b_mode, b_world, b_cas, b_mainq, b_contents, b_cells, b_tank, b_ledger, b_damage,
    b_events,
    s_open, s_loaded, s_cursor, s_last, s_hover, s_mouse, s_sent,
    m_stored, m_claims, m_jobs, m_evicted, m_creates, m_destroys, m_mesh, m_told, m_events,
    r_cache, r_inFlight, r_pending, r_nextRid, r_requests, r_queries, r_fired, r_gaveUp, r_grid,
    r_gen, r_result, r_snapshots, r_replaced, r_catalog,
    l_conn, l_alive, l_closing, l_connected, l_reconnecting, l_requested, l_queue, l_game,
    l_attempt, l_conns, l_handled, l_asks, l_used,
    d_machines, d_sequence, d_life, d_pipes, d_asks, d_wire, d_up, d_store, d_contents, d_sent,
    d_told, d_events

blkVars == <<b_inv, b_mode, b_world, b_cas, b_mainq, b_contents, b_cells, b_tank, b_ledger,
             b_damage, b_events>>
sltVars == <<s_open, s_loaded, s_cursor, s_last, s_hover, s_mouse, s_sent>>
mshVars == <<m_stored, m_claims, m_jobs, m_evicted, m_creates, m_destroys, m_mesh, m_told,
             m_events>>
rcpVars == <<r_cache, r_inFlight, r_pending, r_nextRid, r_requests, r_queries, r_fired,
             r_gaveUp, r_grid, r_gen, r_result, r_snapshots, r_replaced, r_catalog>>
lnkVars == <<l_conn, l_alive, l_closing, l_connected, l_reconnecting, l_requested, l_queue,
             l_game, l_attempt, l_conns, l_handled, l_asks, l_used>>
bufVars == <<d_machines, d_sequence, d_life, d_pipes, d_asks, d_wire, d_up, d_store,
             d_contents, d_sent, d_told, d_events>>
allVars == <<turn, vars, blkVars, sltVars, mshVars, rcpVars, lnkVars, bufVars>>

\* Blocks: two cells of a multiblock and a free one; items 1 and 2 are blocks,
\* 3 and 4 the empty and the filled bucket, and 9 is item 2 with another meta.
\* Placed into air 2 turns into 1.
StackId(i) == IF i = 9 THEN 2 ELSE i
TurnsInto(i) == IF i = 2 THEN 1 ELSE i
Stack1(i) == [item |-> i, count |-> 1]
ConInv == <<[item |-> 1, count |-> 2], Stack1(9)>>
BlkInv == <<Stack1(2), [item |-> 3, count |-> 2]>>
MCSymmetry == Permutations(Players)

\* The kind of a query; one query of a kind may be under way.
QueryKind(k) == IF k = "item" THEN "item" ELSE "grid"
OneFlight(kind) == 1

\* The constants of each.
BlkItems == {1, 2, 3, 4, 9}
BlkPos == {1, 2, 3}
BlkMbCells == {1, 2}
BlkDrop == <<2, 2, 3, 4>>
BlkStartWorld == <<1, 1, 0>>
BlkStartContents == <<Stack1(9)>>
MshChunks == {1, 2}
MshValues == {0, 1}
RcpKeys == {"item", "g1", "g2"}
RcpGrids == {"g1", "g2"}
BufSpots == {1, 2}

Blk == INSTANCE BlockActions WITH inv <- b_inv, mode <- b_mode, world <- b_world, cas <- b_cas,
    mainq <- b_mainq, contents <- b_contents, cells <- b_cells, tank <- b_tank,
    ledger <- b_ledger, damage <- b_damage, events <- b_events, MaxStack <- 2,
    Items <- BlkItems, Pos <- BlkPos, Anchor <- 1, MbCells <- BlkMbCells, EmptyBucket <- 3,
    FilledBucket <- 4, Drop <- BlkDrop, Transform <- TurnsInto, StartWorld <- BlkStartWorld, StartInv <- BlkInv,
    StartContents <- BlkStartContents, StartTank <- 2, MaxEvents <- 3
Win == INSTANCE ClientWindows WITH open <- s_open, loaded <- s_loaded, cursor <- s_cursor,
    last <- s_last, hover <- s_hover, mouse <- s_mouse, sent <- s_sent, HotbarSlots <- 1,
    ContainerSlots <- 2, MachineIn <- 1,
    cache <- r_cache, inFlight <- r_inFlight,
    pending <- r_pending, nextRid <- r_nextRid, requests <- r_requests, queries <- r_queries,
    fired <- r_fired, gaveUp <- r_gaveUp, grid <- r_grid, gen <- r_gen, result <- r_result,
    snapshots <- r_snapshots, replaced <- r_replaced, catalog <- r_catalog, Keys <- RcpKeys, KindOf <- QueryKind,
    Cap <- OneFlight, Grids <- RcpGrids, Nothing <- "nothing", Crafted <- "crafted",
    MaxQueries <- 4, MaxSnapshots <- 3
Msh == INSTANCE ClientMeshes WITH stored <- m_stored, claims <- m_claims, jobs <- m_jobs,
    evicted <- m_evicted, creates <- m_creates, destroys <- m_destroys, mesh <- m_mesh,
    told <- m_told, events <- m_events, Chunks <- MshChunks, Values <- MshValues, Air <- 0,
    None <- NoBlock, MaxEvents <- 4
Lnk == INSTANCE ClientLink WITH conn <- l_conn, alive <- l_alive, closing <- l_closing,
    connected <- l_connected, reconnecting <- l_reconnecting, requested <- l_requested,
    queue <- l_queue, game <- l_game, attempt <- l_attempt, conns <- l_conns,
    handled <- l_handled, asks <- l_asks, used <- l_used, MaxAttempts <- 2, MaxMessages <- 2,
    MaxLost <- 2, MaxConns <- 6
Buf == INSTANCE ClientBuffers WITH machines <- d_machines, sequence <- d_sequence,
    life <- d_life, pipes <- d_pipes, asks <- d_asks, wire <- d_wire, up <- d_up,
    store <- d_store, contents <- d_contents, sent <- d_sent, told <- d_told,
    events <- d_events, Spots <- BufSpots, MaxWire <- 4, MaxEvents <- 5

MCInit ==
    /\ turn \in {"containers", "blocks", "slots", "meshes", "recipes", "link", "buffers"}
    /\ Init /\ Blk!Init /\ Win!SlotInit /\ Msh!Init /\ Win!RecipeInit /\ Lnk!Init /\ Buf!Init

MCNext ==
    \/ /\ turn = "containers" /\ Next
       /\ UNCHANGED <<turn, blkVars, sltVars, mshVars, rcpVars, lnkVars, bufVars>>
    \/ /\ turn = "blocks" /\ Blk!Next
       /\ UNCHANGED <<turn, vars, sltVars, mshVars, rcpVars, lnkVars, bufVars>>
    \/ /\ turn = "slots" /\ Win!SlotNext
       /\ UNCHANGED <<turn, vars, blkVars, mshVars, rcpVars, lnkVars, bufVars>>
    \/ /\ turn = "meshes" /\ Msh!Next
       /\ UNCHANGED <<turn, vars, blkVars, sltVars, rcpVars, lnkVars, bufVars>>
    \/ /\ turn = "recipes" /\ Win!RecipeNext
       /\ UNCHANGED <<turn, vars, blkVars, sltVars, mshVars, lnkVars, bufVars>>
    \/ /\ turn = "link" /\ Lnk!Next
       /\ UNCHANGED <<turn, vars, blkVars, sltVars, mshVars, rcpVars, bufVars>>
    \/ /\ turn = "buffers" /\ Buf!Next
       /\ UNCHANGED <<turn, vars, blkVars, sltVars, mshVars, rcpVars, lnkVars>>
MCSpec ==
    /\ MCInit /\ [][MCNext]_allVars

\* Blocks and items are exchanged one for one, however placements, breaks,
\* bucket fills, mode changes and their late or failed compare-and-swaps
\* interleave (PlaceBlockHandler, BreakBlockHandler, MachineInteractHandler).
BlocksAccounted == turn = "blocks" => Blk!BlocksAccounted
\* A right click makes its grid send that click and nothing more, and the
\* workbench's grid, the one grid that is kept from frame to frame, sends nothing
\* while the button stays down on one slot (SlotGrid.cpp).
GridActsOnce == Win!GridActsOnce
\* What the client holds is current: a chunk's claim is held by one build and
\* given back on every way out, the preview shows the grid there is, or
\* nothing, what waits on the bulk connection was read from the connection there
\* is, and a port or pipe shows the last its server told of it (tryClaimRebuild,
\* ApplyServerResult, NetClient::do_reconnect, ResourceBufferStateStore::Apply).
ClientIsCurrent ==
    /\ turn = "meshes" => Msh!ClaimsAreHeld
    /\ turn = "recipes" => Win!PreviewIsCurrent /\ Win!QueriesAreKept
    /\ turn = "link" => Lnk!BulkIsCurrent
    /\ turn = "buffers" => Buf!BuffersAreShown
==============================================================================
