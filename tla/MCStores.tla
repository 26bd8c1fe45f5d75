------------------------------ MODULE MCStores -------------------------------
(*****************************************************************************)
(* The two stores over LMDB, the client that brings a service its messages,  *)
(* the packed sections chunks are kept in and the generation of neighbouring *)
(* chunks, each with its own variables, checked in one run: turn says which  *)
(* of them takes the steps of a behaviour.                                   *)
(*****************************************************************************)
EXTENDS LmdbStore, EntityStore, Integers

VARIABLES turn,
    s_sec, s_plain, s_plainMeta, s_wrapped, s_edits,
    g_world, g_chunks

secVars == <<s_sec, s_plain, s_plainMeta, s_wrapped, s_edits>>
genVars == <<g_world, g_chunks>>
allVars == <<turn, vars, entityVars, secVars, genVars>>

\* Block ids are interchangeable: a section to begin with names new ones in
\* their order.
Sections ==
    {s \in [1 .. 4 -> 0 .. 5] : \A c \in 1 .. 4 : s[c] <= 1 \/ \E d \in 1 .. c - 1 : s[c] <= 1 + s[d]}

\* Terrains with trees near the border of two chunks, and with ore veins.
Columns == -7 .. 15
Bare == [x \in Columns |-> 0]
Slopes == {[x \in Columns |-> IF x < j THEN a ELSE b] : j \in 3..5, a \in {1, 2, 6}, b \in {1, 2, 6}}
Scores == {[x \in Columns |-> IF x = p THEN s ELSE IF x = q THEN t ELSE 0] : p \in 0..5, q \in 2..7, s \in 0..2, t \in 1..2}
Woods == {[height |-> h, score |-> s, trunk |-> [x \in Columns |-> k], caves |-> {}, veins |-> << >>] :
            h \in Slopes, s \in Scores, k \in {4, 5}}
Vein(x2, y, sp, ore) == [x2 |-> x2, y |-> y, r |-> 3, sporadic |-> sp, ore |-> ore]
Veins == {<<Vein(7, 4, TRUE, "iron")>>, <<Vein(3, 1, FALSE, "iron"), Vein(9, 3, TRUE, "tin")>>, <<Vein(-1, 5, TRUE, "tin")>>}
Mines == {[height |-> [x \in Columns |-> 11], score |-> Bare, trunk |-> Bare, caves |-> cs, veins |-> vs] :
            cs \in {{}, {<<3, 2>>, <<4, 2>>}}, vs \in Veins}
GenWorlds == Woods \cup Mines

\* The constants of each.
SecCells == 1 .. 4
SecIds == 1 .. 5
SecMetas == {1}
GenChunksX == {0, 1}
GenChunksY == {0, 1}

Sec == INSTANCE MutableSection WITH sec <- s_sec, plain <- s_plain, plainMeta <- s_plainMeta,
    wrapped <- s_wrapped, edits <- s_edits, Cells <- SecCells, Ids <- SecIds, Air <- 0,
    Metas <- SecMetas, MAX4 <- 2, MAX8 <- 4, WIDTH4 <- 1, WIDTH8 <- 2, SPARSE_THRESHOLD <- 2,
    MaxEdits <- 3
Gen == INSTANCE WorldGen WITH world <- g_world, chunks <- g_chunks, CHUNK_SIZE <- 4,
    ChunksX <- GenChunksX, ChunksY <- GenChunksY, Worlds <- GenWorlds

\* What takes no steps starts in one of its states.
MCInit ==
    /\ turn \in {"batch", "entities", "section", "world"}
    /\ s_plain \in IF turn = "section" THEN Sections ELSE {<<0, 0, 0, 0>>}
    /\ g_world \in IF turn = "world" THEN GenWorlds ELSE {CHOOSE w \in GenWorlds : TRUE}
    /\ Init /\ EntityInit /\ Sec!Init /\ Gen!Init

MCNext ==
    \/ turn = "batch" /\ Next /\ UNCHANGED <<turn, entityVars, secVars, genVars>>
    \/ turn = "entities" /\ EntityNext /\ UNCHANGED <<turn, vars, secVars, genVars>>
    \/ turn = "section" /\ Sec!Next /\ UNCHANGED <<turn, vars, entityVars, genVars>>
    \/ turn = "world" /\ Gen!Next /\ UNCHANGED <<turn, vars, entityVars, secVars>>
MCSpec ==
    /\ MCInit /\ [][MCNext]_allVars

\* The terrain reads as it was made: a packed section as the cells it stands
\* for, and chunks generated one by one as a world generated at once, but for
\* the cases their modules name (MutableSection::setBlock and its promotions;
\* TreeGenerator, OreGenerator).
TerrainReads ==
    /\ turn = "section" => Sec!SectionReads
    /\ turn = "world" => Gen!BordersAgree
==============================================================================
