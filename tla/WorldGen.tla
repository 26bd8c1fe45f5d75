------------------------------ MODULE WorldGen ------------------------------
(***************************************************************************)
(* The generation of a chunk by WorldGenerator: terrain and caves          *)
(* (GenerateTerrain), ore veins (OreGenerator) and oak trees               *)
(* (TreeGenerator), each chunk alone, in the order the workers take them.  *)
(*                                                                         *)
(* One horizontal axis is modelled, the code treats both alike.  The noise *)
(* and the random draws are external: a world gives each column its        *)
(* height, tree score (0: below TREE_SCORE_THRESHOLD) and trunk length,    *)
(* the caves, and the veins of the nine regions in the order of the loops. *)
(* A vein's centre is half way between two columns; its x is doubled.  A   *)
(* height is never a whole number: the world has the whole part of it.     *)
(***************************************************************************)
EXTENDS Integers, Sequences, FiniteSets

CONSTANTS
    CHUNK_SIZE,
    ChunksX, ChunksY,   \* the chunks asked for
    Worlds              \* what the noise may be

VARIABLES
    world,
    chunks              \* the blocks of the chunks generated so far

vars == <<world, chunks>>

Coords == ChunksX \X ChunksY
Local == 0..CHUNK_SIZE - 1
Cells == Local \X Local
SLOPE_MAX == 1
marginForCanopy == 2
GRID_MARGIN == 4
Abs(n) == IF n < 0 THEN -n ELSE n
Larger(a, b) == IF a > b THEN a ELSE b
Smaller(a, b) == IF a < b THEN a ELSE b

-----------------------------------------------------------------------------
(* Terrain and veins.                                                      *)

Terrain(w, x, y) ==
    LET h == w.height[x]
    IN IF y <= h
       THEN IF <<x, y>> \in w.caves /\ y <= h - 5 THEN (IF y < 0 THEN "water" ELSE "air")
            ELSE IF y <= h - 4 THEN "stone" ELSE IF y <= h - 1 THEN "dirt" ELSE "grass"
       ELSE IF y < 0 THEN "water" ELSE "air"

\* A cast to int32_t cuts towards zero.
Halved(n) == IF n >= 0 THEN n \div 2 ELSE -((-n) \div 2)
Dist2(v, x, y) == (2 * x - v.x2) * (2 * x - v.x2) + 4 * (y - v.y) * (y - v.y)
Radius2(v) == 4 * v.r * v.r

\* The rows and columns of the chunk the vein's box covers, with the chunk's
\* corner at `base`; the loops leave out the last of each.
StartOf(low, base) == Larger(0, low - base)
EndOf(high, base) == Smaller(CHUNK_SIZE - 1, high - base)
CutOf(v, bx, by) ==
    [x |-> StartOf(Halved(v.x2 - 2 * v.r), bx)..EndOf(Halved(v.x2 + 2 * v.r), bx) - 1,
     y |-> StartOf(v.y - v.r, by)..EndOf(v.y + v.r, by) - 1]

\* The box test: the point of the chunk that is closest to the centre.
Closest(low, high, at) == Larger(low, Smaller(at, high))
Reaches(v, bx, by) ==
    LET dx == Closest(2 * bx, 2 * (bx + CHUNK_SIZE), v.x2) - v.x2
        dy == Closest(by, by + CHUNK_SIZE, v.y) - v.y
    IN dx * dx + 4 * dy * dy <= Radius2(v)

\* What the vein puts in place of stone.
OreAt(v, x, y) ==
    LET d == Dist2(v, x, y)
    IN CASE 100 * d < 16 * Radius2(v) -> v.ore
         [] 100 * d >= 16 * Radius2(v) /\ 100 * d < 49 * Radius2(v) -> "secondary"
         [] 100 * d >= 49 * Radius2(v) /\ d < Radius2(v) /\ v.sporadic -> "sporadic"
         [] OTHER -> "stone"

\* generateOres(): the first vein that puts anything in a cell keeps it.
generateOres(w, bx, by, blocks) ==
    LET paint[i \in 0..Len(w.veins)] ==
            IF i = 0 THEN blocks
            ELSE LET v == w.veins[i] cut == CutOf(v, bx, by)
                 IN [c \in Cells |->
                        IF /\ paint[i - 1][c] = "stone" /\ Reaches(v, bx, by)
                           /\ c[1] \in cut.x /\ c[2] \in cut.y
                        THEN OreAt(v, bx + c[1], by + c[2]) ELSE paint[i - 1][c]]
    IN paint[Len(w.veins)]

-----------------------------------------------------------------------------
(* Trees.  The grid is the chunk with GRID_MARGIN columns on each side.    *)

Grid(bx) == bx - GRID_MARGIN..bx + CHUNK_SIZE + GRID_MARGIN - 1

\* Neighbours outside the grid are passed over.
slopeOK(w, grid, x) ==
    \A n \in {x - 1, x + 1} \cap grid : Abs(w.height[n] - w.height[x]) <= SLOPE_MAX
isStrictLocalMax(w, grid, x) ==
    \A n \in (x - 2..x + 2) \cap grid : n # x => w.score[n] < w.score[x]
TreeMap(w, grid) ==
    {x \in grid : w.score[x] > 0 /\ isStrictLocalMax(w, grid, x) /\ slopeOK(w, grid, x)}

\* The early return: the chunk is above or below every surface of its grid.
AboveGround(w, grid, by) == \A x \in grid : w.height[x] < by
BelowGround(w, grid, by) == \A x \in grid : w.height[x] >= by + CHUNK_SIZE

Trunk(w, x) == w.height[x] + 1..w.height[x] + w.trunk[x]
CentreY(w, t) == w.height[t] + w.trunk[t]

\* The ellipsoid (dx^2)/4 + dy^2/2.25 <= 1 around the top of the trunk t.
InCanopy(w, t, x, y) ==
    LET dx == x - t
        dy == y - CentreY(w, t)
    IN Abs(dx) <= 2 /\ 9 * dx * dx + 16 * dy * dy <= 36 /\ x # t

generateTrees(w, bx, by, blocks) ==
    LET grid == Grid(bx)
        trees == TreeMap(w, grid)
        trunks == [c \in Cells |-> IF bx + c[1] \in trees /\ by + c[2] \in Trunk(w, bx + c[1])
                                   THEN "log" ELSE blocks[c]]
    IN IF AboveGround(w, grid, by) \/ BelowGround(w, grid, by) THEN blocks
       ELSE [c \in Cells |->
                IF trunks[c] = "air" /\ \E t \in trees : InCanopy(w, t, bx + c[1], by + c[2])
                THEN "leaves" ELSE trunks[c]]

-----------------------------------------------------------------------------
GenerateTerrain(w, cx, cy) ==
    LET bx == cx * CHUNK_SIZE
        by == cy * CHUNK_SIZE
        terrain == [c \in Cells |-> Terrain(w, bx + c[1], by + c[2])]
    IN generateTrees(w, bx, by, generateOres(w, bx, by, terrain))

Init == world \in Worlds /\ chunks = << >>

\* workerLoop() of GenerationQueue: one chunk, whichever is taken next.
Generate(c) ==
    /\ c \notin DOMAIN chunks
    /\ \E blocks \in {GenerateTerrain(world, c[1], c[2])} :
          chunks' = [d \in DOMAIN chunks \cup {c} |-> IF d = c THEN blocks ELSE chunks[d]]
    /\ UNCHANGED world

Next == \E c \in Coords : Generate(c)

Spec == Init /\ [][Next]_vars

-----------------------------------------------------------------------------
(* The world generated as a whole.                                         *)

WholeTree(x) ==
    /\ world.score[x] > 0
    /\ \A d \in {-2, -1, 1, 2} : world.score[x + d] < world.score[x]
    /\ \A d \in {-1, 1} : Abs(world.height[x + d] - world.height[x]) <= SLOPE_MAX
WholeOre(x, y) ==
    LET vs == {i \in DOMAIN world.veins : OreAt(world.veins[i], x, y) # "stone"}
    IN IF vs = {} THEN "stone" ELSE OreAt(world.veins[CHOOSE i \in vs : \A j \in vs : i <= j], x, y)
WholeWorld(x, y) ==
    LET t == Terrain(world, x, y)
    IN IF WholeTree(x) /\ y \in Trunk(world, x) THEN "log"
       ELSE IF t = "stone" THEN WholeOre(x, y)
       ELSE IF t = "air" /\ \E s \in x - 2..x + 2 : WholeTree(s) /\ InCanopy(world, s, x, y) THEN "leaves"
       ELSE t

\* The last row and column a vein has in a chunk, where the loops stop short.
Rim(c, cell) ==
    \E i \in DOMAIN world.veins :
        LET v == world.veins[i]
        IN \/ cell[1] = EndOf(Halved(v.x2 + 2 * v.r), c[1] * CHUNK_SIZE)
           \/ cell[2] = EndOf(v.y + v.r, c[2] * CHUNK_SIZE)
Agrees(c, cell) ==
    chunks[c][cell] = WholeWorld(c[1] * CHUNK_SIZE + cell[1], c[2] * CHUNK_SIZE + cell[2])

\* Chunks generated one by one, without a look at their neighbours, fit
\* together: each cell is what it would be in a world generated at once, so no
\* canopy, trunk or vein is cut at a border between chunks.  Two cases are
\* excepted: the rim of a vein, and a chunk above every surface of its grid.
BordersAgree ==
    \A c \in DOMAIN chunks : \A cell \in Cells :
        \/ Agrees(c, cell)
        \/ Rim(c, cell)
        \/ AboveGround(world, Grid(c[1] * CHUNK_SIZE), c[2] * CHUNK_SIZE)

\* openspec/specs/tree-generation/spec.md: "the combined trunk SHALL be a
\* continuous column with no gap or overlap".
TrunksAreWhole ==
    \A c \in DOMAIN chunks : \A cell \in Cells :
        LET x == c[1] * CHUNK_SIZE + cell[1] IN
        WholeTree(x) /\ c[2] * CHUNK_SIZE + cell[2] \in Trunk(world, x) => chunks[c][cell] = "log"

\* OreGenerator.cpp: a vein may cross the borders of chunks.
VeinsAreWhole ==
    \A c \in DOMAIN chunks : \A cell \in Cells :
        LET y == c[2] * CHUNK_SIZE + cell[2] x == c[1] * CHUNK_SIZE + cell[1] IN
        Terrain(world, x, y) = "stone" => chunks[c][cell] = WholeOre(x, y)
=============================================================================
