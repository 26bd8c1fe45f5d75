---------------------------- MODULE ClientMeshes -----------------------------
(***************************************************************************)
(* The meshes of a game client: a change of a block or a new chunk asks    *)
(* for the mesh of the chunk and of its neighbours, a pool builds them,    *)
(* and the game thread takes over what is built and drops what was evicted.*)
(* Each chunk stands for one block on the border to the others, so its mesh*)
(* shows the block and those it could see.                                 *)
(***************************************************************************)
EXTENDS Integers, Sequences, FiniteSets, SequencesExt

CONSTANTS Chunks, Values, Air, None, MaxEvents

VARIABLES
    stored,   \* the block of each chunk in storage_, None when it is absent
    claims,   \* pendingRebuilds_
    jobs,     \* builds waiting or running; view is None while the chunk is stored
    evicted,  \* pendingEvicted_
    creates, destroys, mesh,  \* ChunkMeshCache
    told,     \* a neighbour's block changed since the last mesh was asked for
    events
poolVars == <<claims, jobs>>
cacheVars == <<creates, destroys, mesh>>
meshVars == <<stored, poolVars, evicted, cacheVars, told, events>>

Has(c) == stored[c] # None
Init ==
    /\ stored = [c \in Chunks |-> None] /\ mesh = stored /\ claims = {} /\ jobs = {}
    /\ evicted = {} /\ creates = <<>> /\ destroys = {} /\ told = {} /\ events = 0
Event == events < MaxEvents /\ events' = events + 1

\* The hash of a chunk is over its own blocks.
CheckBuildHash(c, hash) == mesh[c] # None /\ mesh[c].own = hash
\* Builds are queued for the chunks nobody holds the claim of.
tryClaimRebuild(S) ==
    LET new == S \ claims IN
    /\ claims' = claims \union new
    /\ jobs' = jobs \union {[c |-> c, view |-> None, at |-> "queued", own |-> None, other |-> None] : c \in new}
releaseRebuild(c) == claims' = claims \ {c}

\* A block changes: the meshes of its chunk and of the neighbours are rebuilt.
OnBlockUpdate(c, v) ==
    LET now == [stored EXCEPT ![c] = v] IN
    /\ Event /\ Has(c) /\ v # stored[c] /\ stored' = now
    /\ tryClaimRebuild({d \in Chunks : Has(d) /\ ~CheckBuildHash(d, now[d])})
    /\ told' = told \union {d \in Chunks \ {c} : mesh[d] # None}
    /\ UNCHANGED <<evicted, cacheVars>>
OnChunkData(c, v) ==
    /\ Event /\ ~Has(c) /\ stored' = [stored EXCEPT ![c] = v]
    /\ tryClaimRebuild(IF CheckBuildHash(c, v) THEN {} ELSE {c})
    /\ UNCHANGED <<evicted, cacheVars, told>>
\* A queued build keeps the view it was given when the chunk goes.
EvictChunk(c) ==
    /\ Event /\ Has(c)
    /\ stored' = [stored EXCEPT ![c] = None] /\ evicted' = evicted \union {c}
    /\ jobs' = {IF j.c = c /\ j.view = None THEN [j EXCEPT !.view = stored[c]] ELSE j : j \in jobs}
    /\ told' = told \ {c}
    /\ UNCHANGED <<claims, cacheVars>>

\* A build looks whether its chunk is still there, and reads the blocks; one
\* whose chunk is gone gives its claim back after that.
Build(j) ==
    /\ j \in jobs /\ j.at = "queued"
    /\ jobs' = (jobs \ {j}) \union
         {IF Has(j.c)
          THEN [j EXCEPT !.at = "built", !.own = IF j.view = None THEN stored[j.c] ELSE j.view,
                         !.other = [d \in Chunks \ {j.c} |-> stored[d]]]
          ELSE [j EXCEPT !.at = "gone"]}
    /\ UNCHANGED <<stored, claims, evicted, cacheVars, told, events>>
keepsClaim(j) ==
    /\ j \in jobs /\ j.at = "gone" /\ jobs' = jobs \ {j}
    /\ UNCHANGED <<stored, claims, evicted, cacheVars, told, events>>
GiveUp(j) ==
    /\ j \in jobs /\ j.at = "gone" /\ jobs' = jobs \ {j} /\ releaseRebuild(j.c)
    /\ UNCHANGED <<stored, evicted, cacheVars, told, events>>
EnqueueCreateMesh(j) ==
    /\ j \in jobs /\ j.at = "built" /\ jobs' = jobs \ {j} /\ releaseRebuild(j.c)
    /\ creates' = Append(creates, [c |-> j.c, own |-> j.own, other |-> j.other])
    /\ UNCHANGED <<stored, evicted, destroys, mesh, told, events>>

\* A mesh without vertices is no mesh.
ApplyMeshData(m, r) == [m EXCEPT ![r.c] = IF r.own = Air THEN None ELSE [own |-> r.own, other |-> r.other]]
DestroyMesh(S) == [c \in Chunks |-> IF c \in S THEN None ELSE mesh[c]]
ProcessPendingOps == mesh' = FoldLeft(ApplyMeshData, DestroyMesh(destroys), creates)
\* One frame: the finished work is applied, and the evicted chunks handed on.
Frame ==
    /\ creates # <<>> \/ destroys # {} \/ evicted # {}
    /\ ProcessPendingOps /\ creates' = <<>> /\ destroys' = evicted /\ evicted' = {}
    /\ UNCHANGED <<stored, poolVars, told, events>>

Next ==
    \/ \E c \in Chunks : EvictChunk(c) \/ \E v \in Values : OnBlockUpdate(c, v) \/ OnChunkData(c, v)
    \/ \E j \in jobs : Build(j) \/ GiveUp(j) \/ EnqueueCreateMesh(j)
    \/ Frame
Spec == Init /\ [][Next]_meshVars

-----------------------------------------------------------------------------
Quiet == jobs = {} /\ creates = <<>> /\ destroys = {} /\ evicted = {}
\* A chunk's claim is held by one build and given back by it on every way out,
\* so that a chunk can always be asked for again (tryClaimRebuild and the
\* returns of the build's body).
ClaimsAreHeld == claims = {j.c : j \in jobs} /\ Cardinality(jobs) = Cardinality(claims)
\* When all is quiet, only loaded chunks have a mesh (the looks of a build and
\* ProcessPendingOps, which takes the evictions first).
NoOrphanMesh == Quiet => \A c \in Chunks : mesh[c] # None => Has(c)
\* ... and the mesh of a loaded chunk shows the block it holds.
MeshShowsBlock == Quiet => \A c \in Chunks : Has(c) /\ mesh[c] # None => mesh[c].own = stored[c]
\* ... and the blocks of its neighbours.
BorderIsRebuilt ==
    Quiet => \A c \in told : mesh[c] # None =>
        \A d \in Chunks \ {c} : Has(d) => mesh[c].other[d] = stored[d]
=============================================================================
