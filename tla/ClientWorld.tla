----------------------------- MODULE ClientWorld -----------------------------
(***************************************************************************)
(* The world a game client shows: the chunks it holds, the requests it has *)
(* out, the block changes it keeps to lay over stale snapshots, the clicks *)
(* waiting for their acknowledgement.                                      *)
(* Three threads work on it: the game thread (network poll, clicks, frame),*)
(* the ClientWorld thread (work, in order) and the ChunkLoad thread, which *)
(* asks for near chunks and evicts far ones. Each chunk stands for one     *)
(* block of it.                                                            *)
(***************************************************************************)
EXTENDS Integers, Sequences, FiniteSets, SequencesExt, TLAPS

CONSTANTS Chunks, Values, Air, None,
    Near0,            \* the chunks within VIEW_RADIUS at the start
    MaxChunks,        \* maxChunks_
    MaxChanges, MaxDrops, MaxMoves  \* bounds of the runs

VARIABLES
    loaded,     \* storage_: the block of each loaded chunk, None when absent
    requested,  \* pendingRequests_
    changes,    \* pendingChanges_
    actions,    \* pendingBlockActions_
    evicting,   \* evictionQueue_
    work,       \* what is posted to worldContext_
    world, acking, load, \* where each of the three threads is
    near, up,   \* the chunks in view, and whether the server is connected
    asked, clicked, bulk, acks, real, old, \* the server and both connections
    raced, used
dataVars == <<loaded, requested, changes, actions>>
loadVars == <<evicting, load, near>>
netVars == <<up, asked, clicked, bulk, acks, real, old>>
worldVars == <<dataVars, loadVars, work, world, acking, netVars, raced, used>>

Has(c) == loaded[c] # None
Idle == [at |-> "idle"]

WorldInit ==
    /\ loaded = [c \in Chunks |-> None] /\ changes = loaded
    /\ requested = {} /\ actions = {} /\ evicting = {}
    /\ work = <<>> /\ world = Idle /\ acking = Idle /\ load = Idle
    /\ near = Near0 /\ up = TRUE /\ asked = {} /\ clicked = {} /\ bulk = <<>> /\ acks = <<>>
    /\ real \in [Chunks -> Values \ {Air}] /\ old = real
    /\ raced = {} /\ used = [changes |-> 0, drops |-> 0, moves |-> 0]

-----------------------------------------------------------------------------
(* The ChunkLoad thread.                                                   *)

TryRequestChunk(S) == asked' = IF up THEN asked \union S ELSE asked
\* Every near chunk that is neither loaded nor asked for is requested, a near
\* one that is loaded is taken off the eviction queue, and chunks beyond the
\* limit, which are not near, go on it.
RunLoadPass ==
    LET new == {c \in near : ~Has(c) /\ c \notin requested}
        here == {c \in Chunks : Has(c)}
        far == here \ near
    IN /\ load = Idle
       /\ requested' = requested \union new /\ TryRequestChunk(new)
       /\ \E S \in SUBSET far :
            /\ Cardinality(S) = IF Cardinality(here) > MaxChunks THEN Cardinality(here) - MaxChunks ELSE 0
            /\ evicting' = (evicting \ (near \cap here)) \union S
       /\ UNCHANGED <<loaded, changes, actions, load, near, work, world, acking, up, clicked,
                      bulk, acks, real, old, raced, used>>
\* The TTL of a queued chunk runs out: EvictChunk, its first part.
ProcessEvictionQueue(c) ==
    /\ load = Idle /\ c \in evicting
    /\ evicting' = evicting \ {c} /\ load' = [at |-> "remove", c |-> c]
    /\ changes' = [changes EXCEPT ![c] = None]
    /\ UNCHANGED <<loaded, requested, actions, near, work, world, acking, netVars, raced, used>>
RemoveChunk ==
    LET c == load.c IN
    /\ load.at = "remove" /\ load' = [at |-> "forget", c |-> c]
    /\ loaded' = [loaded EXCEPT ![c] = None]
    /\ UNCHANGED <<requested, changes, actions, evicting, near, work, world, acking, netVars, raced, used>>
EvictChunk ==
    /\ load.at = "forget" /\ load' = Idle
    /\ requested' = requested \ {load.c}
    /\ UNCHANGED <<loaded, changes, actions, evicting, near, work, world, acking, netVars, raced, used>>

-----------------------------------------------------------------------------
(* A block change, on the ClientWorld thread or, for an acknowledgement, on *)
(* the game thread: it is saved, then set.                                  *)

SavedChange(c, v) == [changes EXCEPT ![c] = v]
SetChange(c, v) == [loaded EXCEPT ![c] = IF @ = None THEN None ELSE v]
OnBlockUpdate(c, v) == loaded' = SetChange(c, v)

Overlaps(c) == (world # Idle /\ world.c = c) \/ (acking # Idle /\ acking.c = c)
StartUpdate ==
    /\ world = Idle /\ work # <<>> /\ work[1].kind = "update"
    /\ world' = [at |-> "set", c |-> work[1].c, v |-> work[1].v] /\ work' = Tail(work)
    /\ changes' = SavedChange(work[1].c, work[1].v)
    /\ raced' = IF Overlaps(work[1].c) THEN raced \union {work[1].c} ELSE raced
    /\ UNCHANGED <<loaded, requested, actions, loadVars, acking, netVars, used>>
SetUpdate ==
    /\ world.at = "set" /\ world' = Idle
    /\ OnBlockUpdate(world.c, world.v)
    /\ UNCHANGED <<requested, changes, actions, loadVars, work, acking, netVars, raced, used>>

\* A snapshot nobody waits for any more is dropped; one for a chunk that is
\* loaded already is not stored.
StoreChunk ==
    LET c == work[1].c IN
    /\ world = Idle /\ work # <<>> /\ work[1].kind = "chunk" /\ work' = Tail(work)
    /\ IF c \in requested
       THEN /\ loaded' = [loaded EXCEPT ![c] = IF @ = None THEN work[1].v ELSE @]
            /\ world' = [at |-> "replay", c |-> c, v |-> work[1].v]
       ELSE UNCHANGED <<loaded, world>>
    /\ UNCHANGED <<requested, changes, actions, loadVars, acking, netVars, raced, used>>
storesOnly(c) == loaded
\* The pending changes are laid over it.
Replayed(c) == [loaded EXCEPT ![c] = IF @ # None /\ changes[c] # None THEN changes[c] ELSE @]
OnChunkData ==
    /\ world.at = "replay" /\ world' = Idle /\ loaded' = Replayed(world.c)
    /\ UNCHANGED <<requested, changes, actions, loadVars, work, acking, netVars, raced, used>>
\* Clicks are old enough to be forgotten, but not those on a chunk that is
\* still counted as requested.
ClearExpiredBlockActions ==
    /\ world = Idle /\ actions # {} /\ actions' = actions \cap requested
    /\ UNCHANGED <<loaded, requested, changes, loadVars, work, world, acking, netVars, raced, used>>

-----------------------------------------------------------------------------
(* The game thread: clicks, the poll of both connections, the player moves.*)

Sends(c, click) ==
    /\ acking = Idle /\ Has(c) /\ loaded[c] # Air /\ used.changes < MaxChanges
    /\ used' = [used EXCEPT !.changes = @ + 1]
    /\ clicked' = IF up THEN clicked \union click ELSE clicked
    /\ actions' = actions \union {c}
    /\ UNCHANGED <<loaded, requested, changes, loadVars, work, world, acking, up, asked, bulk, acks, real,
                   old, raced>>
\* The left button breaks a block nothing is out for; the right one uses it
\* whatever is out, or turns a pipe with the wrench, which the server answers
\* without an acknowledgement.
LeftClick(c) == c \notin actions /\ Sends(c, {[c |-> c, kind |-> "break", v |-> loaded[c]]})
RightClick(c) == Sends(c, {[c |-> c, kind |-> "use", v |-> loaded[c]]})
Wrench(c) == Sends(c, {})
\* Of one batch the block updates go before the chunks.
Updates(q) == SelectSeq(q, LAMBDA m : m.kind = "update")
Snapshots(q) == SelectSeq(q, LAMBDA m : m.kind = "chunk")
PollBulk ==
    /\ acking = Idle /\ bulk # <<>> /\ bulk' = <<>>
    /\ work' = work \o Updates(bulk) \o Snapshots(bulk)
    /\ UNCHANGED <<dataVars, loadVars, world, acking, up, asked, clicked, acks, real, old, raced,
                   used>>
\* An acknowledgement is applied by the game thread itself, one that rejects
\* the click changes nothing.
PollAck ==
    LET a == acks[1] IN
    /\ acking = Idle /\ acks # <<>> /\ a.v # None /\ acks' = Tail(acks)
    /\ acking' = [at |-> "set", c |-> a.c, v |-> a.v]
    /\ changes' = SavedChange(a.c, a.v)
    /\ raced' = IF Overlaps(a.c) THEN raced \union {a.c} ELSE raced
    /\ UNCHANGED <<loaded, requested, actions, loadVars, work, world, up, asked, clicked, bulk,
                   real, old, used>>
PollRejected ==
    /\ acking = Idle /\ acks # <<>> /\ acks[1].v = None /\ acks' = Tail(acks)
    /\ actions' = actions \ {acks[1].c}
    /\ UNCHANGED <<loaded, requested, changes, loadVars, work, world, acking, up, asked, clicked, bulk,
                   real, old, raced, used>>
OnBlockAck ==
    /\ acking.at = "set" /\ acking' = Idle
    /\ OnBlockUpdate(acking.c, acking.v) /\ actions' = actions \ {acking.c}
    /\ UNCHANGED <<requested, changes, loadVars, work, world, netVars, raced, used>>
Move ==
    /\ used.moves < MaxMoves /\ used' = [used EXCEPT !.moves = @ + 1]
    /\ near' \in {S \in SUBSET Chunks : S # near /\ Cardinality(S) = Cardinality(near)}
    /\ UNCHANGED <<dataVars, evicting, load, work, world, acking, netVars, raced>>
\* The link is lost with all that is on it and made again, and every request
\* is forgotten.
Lose ==
    /\ up /\ used.drops < MaxDrops /\ used' = [used EXCEPT !.drops = @ + 1]
    /\ up' = FALSE /\ asked' = {} /\ clicked' = {} /\ bulk' = <<>> /\ acks' = <<>>
    /\ UNCHANGED <<dataVars, loadVars, work, world, acking, real, old, raced>>
keepsRequests ==
    /\ ~up /\ acking = Idle /\ up' = TRUE
    /\ UNCHANGED <<dataVars, loadVars, work, world, acking, asked, clicked, bulk, acks, real, old, raced, used>>
OnReconnect ==
    /\ ~up /\ acking = Idle /\ up' = TRUE /\ requested' = {}
    /\ UNCHANGED <<loaded, changes, actions, loadVars, work, world, acking, asked, clicked, bulk,
                   acks, real, old, raced, used>>

-----------------------------------------------------------------------------
(* The server: a snapshot may be taken before the last change of its chunk.*)

ServerAnswers(c) ==
    /\ up /\ c \in asked /\ asked' = asked \ {c}
    /\ \E v \in {real[c], old[c]} : bulk' = Append(bulk, [kind |-> "chunk", c |-> c, v |-> v])
    /\ UNCHANGED <<dataVars, loadVars, work, world, acking, up, clicked, acks, real, old, raced,
                   used>>
ServerSets(c, v) ==
    /\ up /\ v # real[c] /\ real' = [real EXCEPT ![c] = v] /\ old' = [old EXCEPT ![c] = real[c]]
    /\ bulk' = Append(bulk, [kind |-> "update", c |-> c, v |-> v])
    /\ UNCHANGED <<dataVars, loadVars, work, world, acking, up, asked, raced>>
Answers(k, v) ==
    /\ up /\ k \in clicked /\ clicked' = clicked \ {k}
    /\ acks' = Append(acks, [c |-> k.c, v |-> v])
ServerBreaks(k) ==
    /\ k.kind = "break" /\ real[k.c] = k.v /\ Answers(k, Air) /\ ServerSets(k.c, Air) /\ UNCHANGED used
\* The block is another one by now, and the acknowledgement carries it; or the
\* block is only used, and it carries the one the client named; or it rejects.
ServerAcks(k) ==
    /\ \/ k.kind = "break" /\ real[k.c] # k.v /\ Answers(k, real[k.c])
       \/ k.kind = "use" /\ Answers(k, k.v)
       \/ Answers(k, None)
    /\ UNCHANGED <<dataVars, loadVars, work, world, acking, up, asked, bulk, real, old, raced, used>>
ServerChanges(c, v) ==
    /\ used.changes < MaxChanges /\ used' = [used EXCEPT !.changes = @ + 1] /\ ServerSets(c, v)
    /\ UNCHANGED <<clicked, acks>>

WorldNext ==
    \/ RunLoadPass \/ RemoveChunk \/ EvictChunk \/ StartUpdate \/ SetUpdate \/ StoreChunk \/ OnChunkData
    \/ ClearExpiredBlockActions \/ PollBulk \/ PollAck \/ PollRejected \/ OnBlockAck \/ Move \/ Lose \/ OnReconnect
    \/ \E c \in Chunks : \/ ProcessEvictionQueue(c) \/ LeftClick(c) \/ RightClick(c) \/ Wrench(c)
                         \/ ServerAnswers(c) \/ \E v \in Values : ServerChanges(c, v)
    \/ \E k \in clicked : ServerBreaks(k) \/ ServerAcks(k)

\* Every thread runs on, the game thread frames and polls, the ChunkLoad
\* thread passes again and again, the link comes back and the server answers.
WorldSpec ==
    /\ WorldInit /\ [][WorldNext]_worldVars
    /\ WF_worldVars(RunLoadPass) /\ WF_worldVars(RemoveChunk \/ EvictChunk)
    /\ WF_worldVars(StartUpdate \/ SetUpdate \/ StoreChunk \/ OnChunkData)
    /\ WF_worldVars(PollBulk) /\ WF_worldVars(PollAck \/ PollRejected \/ OnBlockAck)
    /\ WF_worldVars(OnReconnect) /\ WF_worldVars(ClearExpiredBlockActions)
    /\ WF_worldVars(\E k \in clicked : ServerBreaks(k) \/ ServerAcks(k))
    /\ \A c \in Chunks : WF_worldVars(ServerAnswers(c))

-----------------------------------------------------------------------------
\* A loaded chunk shows the last change the client was told of its block,
\* whichever of snapshot, update and eviction came in between, as long as no
\* two changes of one block ran at the same time (World::OnBlockUpdate and
\* World::OnChunkData, which replays the pending changes).
ShowsLastChange ==
    \A c \in Chunks : Has(c) /\ changes[c] # None /\ c \notin raced /\ ~Overlaps(c)
                        => loaded[c] = changes[c]
\* When the player stands still, what is near is loaded in the end, whatever
\* was lost with a link (TryRequestChunk, ClearPendingRequests, OnChunkData).
NearLoads == \A c \in Chunks : <>[](c \in near => Has(c))
\* A click on a block is forgotten in the end, acknowledged or expired.
ActionsExpire == \A c \in Chunks : c \in actions ~> c \notin actions

-----------------------------------------------------------------------------
(* The proof of ShowsLastChange, for any chunks, values and bounds.        *)

\* storage_ and pendingChanges_ have an entry for every chunk.
Maps ==
    /\ loaded = [c \in Chunks |-> loaded[c]]
    /\ changes = [c \in Chunks |-> changes[c]]
\* A change that is saved and not yet set is the one that is kept for its
\* chunk, unless the chunk was evicted in between.
KeptIsSet(at, c) == at.at = "set" /\ at.c = c => changes[c] \in {at.v, None}
\* The inductive invariant: ShowsLastChange says nothing of a chunk while a
\* change of it is between its two steps, KeptIsSet does.
ShowsInv ==
    /\ Maps /\ ShowsLastChange
    /\ \A c \in Chunks \ raced : KeptIsSet(world, c) /\ KeptIsSet(acking, c)

\* What a step may do to a chunk without a word on the invariant: nothing to
\* what is shown, or forget it, or forget its pending change.
LEMMA LeavesShown ==
    ASSUME ShowsInv, UNCHANGED <<world, acking, raced>>, Maps',
           \A c \in Chunks : /\ loaded'[c] \in {loaded[c], None}
                             /\ changes'[c] \in {changes[c], None}
    PROVE  ShowsInv'
BY DEF ShowsInv, ShowsLastChange, KeptIsSet, Has, Overlaps, Idle

LEMMA ShowsInit == WorldInit => ShowsInv
BY DEF WorldInit, ShowsInv, ShowsLastChange, Maps, KeptIsSet, Has, Idle

\* A change of chunk k is saved, to be set by the thread that saved it. When
\* the other thread is at the same chunk, the chunk counts as raced; the others
\* keep what they had.
LEMMA SavesChange ==
    ASSUME ShowsInv, NEW k, NEW v,
           loaded' = loaded, changes' = SavedChange(k, v),
           raced' = IF Overlaps(k) THEN raced \union {k} ELSE raced,
           \/ world = Idle /\ world' = [at |-> "set", c |-> k, v |-> v] /\ acking' = acking
           \/ acking = Idle /\ acking' = [at |-> "set", c |-> k, v |-> v] /\ world' = world
    PROVE  ShowsInv'
<1> DEFINE said == [at |-> "set", c |-> k, v |-> v]
<1>1. said.at = "set" /\ said.c = k /\ said.v = v /\ said # Idle /\ Idle.at # "set"
  <2>1. said.at # Idle.at /\ said.at = "set" /\ said.c = k /\ said.v = v
    BY DEF Idle
  <2> QED
    BY <2>1
<1> HIDE DEF said
<1>2. Maps'
  BY DEF ShowsInv, Maps, SavedChange
<1>3. ASSUME NEW d \in Chunks, d # k
      PROVE  /\ changes'[d] = changes[d] /\ (d \in raced' <=> d \in raced)
             /\ Overlaps(d)' <=> Overlaps(d)
  BY <1>1, <1>3 DEF ShowsInv, Maps, SavedChange, Overlaps, said
<1>4. k \in Chunks => changes'[k] = v /\ Overlaps(k)' /\ raced \subseteq raced'
  BY <1>1 DEF ShowsInv, Maps, SavedChange, Overlaps, said
<1>5. ASSUME NEW d \in Chunks \ raced'
      PROVE  KeptIsSet(world, d)' /\ KeptIsSet(acking, d)'
  <2>1. CASE d # k
    BY <1>1, <1>3, <2>1 DEF ShowsInv, KeptIsSet, said
  <2>2. CASE d = k
    BY <1>1, <1>4, <2>2 DEF KeptIsSet, Overlaps, said, Idle
  <2> QED
    BY <2>1, <2>2
<1>6. ShowsLastChange'
  BY <1>3, <1>4 DEF ShowsInv, ShowsLastChange, Has
<1> QED
  BY <1>2, <1>5, <1>6 DEF ShowsInv

\* The steps of the ClientWorld thread and of the game thread that save, set,
\* store and replay.
LEMMA ShowsUpdate == ShowsInv /\ StartUpdate => ShowsInv'
BY SavesChange DEF StartUpdate

LEMMA ShowsSet == ShowsInv /\ SetUpdate => ShowsInv'
BY DEF SetUpdate, ShowsInv, ShowsLastChange, Maps, KeptIsSet, Has, Overlaps, Idle, OnBlockUpdate,
       SetChange

LEMMA ShowsStore == ShowsInv /\ StoreChunk => ShowsInv'
BY DEF StoreChunk, ShowsInv, ShowsLastChange, Maps, KeptIsSet, Has, Overlaps, Idle

LEMMA ShowsReplay == ShowsInv /\ OnChunkData => ShowsInv'
BY DEF OnChunkData, ShowsInv, ShowsLastChange, Maps, KeptIsSet, Has, Overlaps, Idle, Replayed

LEMMA ShowsPoll == ShowsInv /\ PollAck => ShowsInv'
BY SavesChange DEF PollAck

LEMMA ShowsAck == ShowsInv /\ OnBlockAck => ShowsInv'
BY DEF OnBlockAck, ShowsInv, ShowsLastChange, Maps, KeptIsSet, Has, Overlaps, Idle, OnBlockUpdate,
       SetChange

LEMMA ShowsEvict ==
    ASSUME ShowsInv, RemoveChunk \/ EvictChunk \/ \E c \in Chunks : ProcessEvictionQueue(c)
    PROVE  ShowsInv'
<1>1. UNCHANGED <<world, acking, raced>> /\ Maps'
      /\ \A c \in Chunks : loaded'[c] \in {loaded[c], None} /\ changes'[c] \in {changes[c], None}
  BY DEF RemoveChunk, EvictChunk, ProcessEvictionQueue, ShowsInv, Maps
<1> QED
  BY <1>1, LeavesShown

\* Every other step leaves the blocks, the kept changes and both threads alone.
LEMMA ShowsRest ==
    ASSUME ShowsInv, UNCHANGED <<loaded, changes, world, acking, raced>>
    PROVE  ShowsInv'
BY LeavesShown DEF ShowsInv, Maps

LEMMA ShowsNext == ShowsInv /\ [WorldNext]_worldVars => ShowsInv'
<1> SUFFICES ASSUME ShowsInv, [WorldNext]_worldVars PROVE ShowsInv'
  OBVIOUS
<1>1. CASE RunLoadPass \/ ClearExpiredBlockActions \/ PollBulk \/ PollRejected \/ Move \/ Lose
           \/ OnReconnect \/ UNCHANGED worldVars
  <2>1. UNCHANGED <<loaded, changes, world, acking, raced>>
    BY <1>1 DEF RunLoadPass, ClearExpiredBlockActions, PollBulk, PollRejected, Move, Lose, OnReconnect,
                worldVars, dataVars, loadVars, netVars
  <2> QED
    BY <2>1, ShowsRest
<1>2. CASE \E c \in Chunks : \/ LeftClick(c) \/ RightClick(c) \/ Wrench(c) \/ ServerAnswers(c)
                             \/ \E v \in Values : ServerChanges(c, v)
  <2>1. UNCHANGED <<loaded, changes, world, acking, raced>>
    BY <1>2 DEF LeftClick, RightClick, Wrench, Sends, ServerAnswers, ServerChanges, ServerSets,
                dataVars, loadVars
  <2> QED
    BY <2>1, ShowsRest
<1>3. CASE \E k \in clicked : ServerBreaks(k) \/ ServerAcks(k)
  <2>1. UNCHANGED <<loaded, changes, world, acking, raced>>
    BY <1>3 DEF ServerBreaks, ServerAcks, ServerSets, dataVars, loadVars
  <2> QED
    BY <2>1, ShowsRest
<1>4. CASE RemoveChunk \/ EvictChunk \/ \E c \in Chunks : ProcessEvictionQueue(c)
  BY <1>4, ShowsEvict
<1>5. CASE StartUpdate \/ SetUpdate \/ StoreChunk \/ OnChunkData \/ PollAck \/ OnBlockAck
  BY <1>5, ShowsUpdate, ShowsSet, ShowsStore, ShowsReplay, ShowsPoll, ShowsAck
<1> QED
  BY <1>1, <1>2, <1>3, <1>4, <1>5 DEF WorldNext

\* A loaded chunk shows the last change the client was told of its block,
\* however the three threads, the link and the server take their steps
\* (World::OnBlockUpdate, World::OnChunkData, World::EvictChunk).
THEOREM ShowsLastChangeHolds == WorldSpec => []ShowsLastChange
<1>1. ShowsInv => ShowsLastChange
  BY DEF ShowsInv
<1> QED
  BY ShowsInit, ShowsNext, <1>1, PTL DEF WorldSpec
=============================================================================
