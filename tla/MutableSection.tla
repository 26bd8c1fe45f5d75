--------------------------- MODULE MutableSection ---------------------------
(***************************************************************************)
(* One section of a chunk in ChunkStore (Storage/cache/MutableSection.cpp):*)
(* the blocks under a palette that grows from 4-bit to 8-bit indices and   *)
(* to a plain array, the metadata in a sorted list that becomes an array,  *)
(* and the wire format the section is stored in.                           *)
(*                                                                         *)
(* A section is a value: its type, the palette and the index of each cell  *)
(* (BITPACK4, FLAT), the plain array (OVERFLOW) and the metadata.  plain   *)
(* and plainMeta are what an array of cells would hold after the same      *)
(* calls.  The multiblock ids are kept by the same code as the metadata,   *)
(* and nothing but the wire format sets them.  MAX4 and MAX8 stand for 16  *)
(* and 256, WIDTH4 and WIDTH8 for the index widths 4 and 8.                *)
(***************************************************************************)
EXTENDS Naturals, Sequences, FiniteSets, Functions

CONSTANTS
    Cells,              \* the local indices 1..SEC_VOL
    Ids, Air,           \* the blocks but air; air (0)
    Metas,              \* the metadata values but 0
    MAX4, MAX8, WIDTH4, WIDTH8,
    SPARSE_THRESHOLD,
    MaxEdits            \* cells written

VARIABLES
    sec,                \* the section
    plain, plainMeta,   \* what an array of cells holds
    wrapped,            \* a palette got more entries than its indices count
    edits               \* cells written so far

vars == <<sec, plain, plainMeta, wrapped, edits>>

NoCells == << >>
Clear == [type |-> "AIR", palette |-> << >>, idx |-> NoCells, overflow |-> NoCells,
          meta |-> NoCells, metaFlat |-> FALSE]

-----------------------------------------------------------------------------
(* Reading a cell.                                                         *)

getBlock(s, li) ==
    CASE s.type = "AIR" -> Air
      [] s.type = "OVERFLOW" -> s.overflow[li]
      [] OTHER -> s.palette[s.idx[li] + 1]
Blocks(s) == [li \in Cells |-> getBlock(s, li)]
getMeta(s, li) == IF li \in DOMAIN s.meta THEN s.meta[li] ELSE 0

\* The entry of a block in a palette: the first one, 0 when it has none.
EntryOf(pal, id) ==
    LET at == {i \in DOMAIN pal : pal[i] = id}
    IN IF at = {} THEN 0 ELSE (CHOOSE i \in at : \A j \in at : i <= j) - 1

-----------------------------------------------------------------------------
(* Representations of an array of blocks.                                  *)

\* The different blocks of an array in the order of their first cells, after
\* those of `first`.
Unique(first, blocks) ==
    LET step[li \in 0..Cardinality(Cells)] ==
            IF li = 0 THEN first
            ELSE IF blocks[li] \in Range(step[li - 1]) THEN step[li - 1]
            ELSE Append(step[li - 1], blocks[li])
    IN step[Cardinality(Cells)]

\* An index is cut to the bits it is stored in.
Packed(s, type, pal, blocks, max) ==
    [s EXCEPT !.type = type, !.palette = pal, !.overflow = NoCells,
              !.idx = [li \in Cells |-> EntryOf(pal, blocks[li]) % max]]
Flattened(s, blocks) ==
    [s EXCEPT !.type = "OVERFLOW", !.palette = << >>, !.idx = NoCells, !.overflow = blocks]

\* fromBlocks(): what the generator made, air first in the palette.
fromBlocks(blocks) ==
    LET u == Unique(<<Air>>, blocks)
    IN IF Len(u) = 1 THEN Clear
       ELSE IF Len(u) <= MAX4 THEN Packed(Clear, "BITPACK4", u, blocks, MAX4)
       ELSE IF Len(u) <= MAX8 THEN Packed(Clear, "FLAT", u, blocks, MAX8)
       ELSE Flattened(Clear, blocks)

\* promoteToFlatOrOverflow(): the palette is made anew, of the new block and
\* those still there, with air in front whether it is one of them or not.
Promoted(new, blocks) ==
    <<Air>> \o SelectSeq(Unique(<<new>>, blocks), LAMBDA u : u # Air)
promoteToFlatOrOverflow(s, new) ==
    IF Len(Unique(<<new>>, Blocks(s))) <= MAX8
    THEN Packed(s, "FLAT", Promoted(new, Blocks(s)), Blocks(s), MAX8)
    ELSE Flattened(s, Blocks(s))
Wraps(s, new) ==
    LET u == Unique(<<new>>, Blocks(s)) IN Len(u) <= MAX8 /\ Len(Promoted(new, Blocks(s))) > MAX8

\* checkOverflowDemote(): back to indices once they can count the blocks.
checkOverflowDemote(s) ==
    LET u == Unique(<<Air>>, s.overflow)
    IN IF Len(u) > MAX8 THEN s ELSE Packed(s, "FLAT", u, s.overflow, MAX8)

-----------------------------------------------------------------------------
(* Writing a cell.                                                         *)

PaletteFull(s) == Len(s.palette) >= (IF s.type = "BITPACK4" THEN MAX4 ELSE MAX8)
InPalette(s, id) == id \in Range(s.palette)
writeBitpacked(s, li, i) ==
    [s EXCEPT !.idx[li] = i % (IF s.type = "BITPACK4" THEN MAX4 ELSE MAX8)]

\* setBlock() in a section with room for the block: the array, or an index
\* into a palette that has the block or a free entry.
Placed(s, li, id) ==
    IF s.type = "OVERFLOW"
    THEN LET t == [s EXCEPT !.overflow[li] = id]
         IN IF s.overflow[li] # id THEN checkOverflowDemote(t) ELSE t
    ELSE IF InPalette(s, id) THEN writeBitpacked(s, li, EntryOf(s.palette, id))
    ELSE writeBitpacked([s EXCEPT !.palette = Append(@, id)], li, Len(s.palette))

NeedsRoom(s, id) == s.type \in {"BITPACK4", "FLAT"} /\ ~InPalette(s, id) /\ PaletteFull(s)
promotesOnly(s, li, id) ==
    CASE s.type = "AIR" /\ id = Air -> s
      [] s.type = "AIR" /\ id # Air ->
            Packed(s, "BITPACK4", <<Air, id>>, [c \in Cells |-> IF c = li THEN id ELSE Air], MAX4)
      [] NeedsRoom(s, id) -> promoteToFlatOrOverflow(s, id)
      [] OTHER -> Placed(s, li, id)
setBlock(s, li, id) ==
    CASE s.type = "AIR" /\ id = Air -> s
      [] s.type = "AIR" /\ id # Air ->
            Packed(s, "BITPACK4", <<Air, id>>, [c \in Cells |-> IF c = li THEN id ELSE Air], MAX4)
      [] NeedsRoom(s, id) -> Placed(promoteToFlatOrOverflow(s, id), li, id)
      [] OTHER -> Placed(s, li, id)

\* setMeta(): the list has no entries of 0; above the threshold it becomes an
\* array and stays one.
flattenMeta(s) ==
    [s EXCEPT !.metaFlat = TRUE, !.meta = [li \in Cells |-> getMeta(s, li)]]
removeMetaEntry(s, li) ==
    IF s.metaFlat THEN [s EXCEPT !.meta[li] = 0]
    ELSE [s EXCEPT !.meta = Restrict(@, DOMAIN @ \ {li})]
setMeta(s, li, m) ==
    IF m = 0 THEN removeMetaEntry(s, li)
    ELSE IF s.metaFlat THEN [s EXCEPT !.meta[li] = m]
    ELSE LET t == [s EXCEPT !.meta = [c \in DOMAIN @ \cup {li} |-> IF c = li THEN m ELSE @[c]]]
         IN IF Cardinality(DOMAIN t.meta) > SPARSE_THRESHOLD THEN flattenMeta(t) ELSE t

-----------------------------------------------------------------------------
(* The wire format.                                                        *)

\* writeMetaMbToWire(): the entries that are not 0.
writeMetaMbToWire(s) == Restrict(s.meta, {li \in DOMAIN s.meta : s.meta[li] # 0})

\* The bits of the largest index of a palette of n.
Bits(n) == CHOOSE w \in 0..n : 2^w > n - 1 /\ \A v \in 0..n : 2^v > n - 1 => w <= v

encodeToWire(s) ==
    LET pal == IF s.type = "OVERFLOW" THEN Unique(<<Air>>, s.overflow)
               ELSE IF s.type = "AIR" THEN <<Air>> ELSE s.palette
        bpi == CASE s.type = "AIR" -> 0 [] s.type = "BITPACK4" -> WIDTH4 [] s.type = "FLAT" -> WIDTH8
                 [] OTHER -> Bits(Len(pal))
    IN [pal |-> pal, bpi |-> bpi, meta |-> writeMetaMbToWire(s),
        idx |-> CASE s.type = "AIR" -> NoCells
                  [] s.type = "OVERFLOW" -> [li \in Cells |-> EntryOf(pal, s.overflow[li])]
                  [] OTHER -> s.idx]

\* fromWire(): the representation follows from the palette and the width, the
\* metadata is set entry by entry; an air section skips it.
WithMetas(s, metas) ==
    LET set[k \in SUBSET DOMAIN metas] ==
            IF k = {} THEN s
            ELSE LET li == CHOOSE c \in k : \A d \in k : c >= d
                 IN setMeta(set[k \ {li}], li, metas[li])
    IN set[DOMAIN metas]
fromWire(w) ==
    LET n == Len(w.pal)
        t == CASE n <= MAX4 /\ w.bpi = WIDTH4 ->
                    [Clear EXCEPT !.type = "BITPACK4", !.palette = w.pal, !.idx = w.idx]
               [] n <= MAX8 /\ w.bpi = WIDTH8 /\ ~(n <= MAX4 /\ w.bpi = WIDTH4) ->
                    [Clear EXCEPT !.type = "FLAT", !.palette = w.pal, !.idx = w.idx]
               [] w.bpi = 0 ->
                    [Clear EXCEPT !.type = "BITPACK4", !.palette = w.pal, !.idx = [li \in Cells |-> 0]]
               [] OTHER ->
                    [Clear EXCEPT !.type = "OVERFLOW", !.overflow = [li \in Cells |-> w.pal[w.idx[li] + 1]]]
    IN IF n = 1 /\ w.pal[1] = Air /\ w.bpi = 0 THEN Clear ELSE WithMetas(t, w.meta)

-----------------------------------------------------------------------------
\* A section starts as what WorldGenerator answered.
Init ==
    /\ plain \in [Cells -> Ids \cup {Air}] /\ plainMeta = [li \in Cells |-> 0]
    /\ sec = fromBlocks(plain) /\ wrapped = FALSE /\ edits = 0

\* ChunkStore::setBlock() and CASHandler: the block, then its metadata; air
\* comes with metadata 0.
Edit(li, id, m) ==
    /\ (id = Air => m = 0) /\ edits < MaxEdits /\ edits' = edits + 1
    /\ \E s \in {setMeta(setBlock(sec, li, id), li, m)} : sec' = s
    /\ plain' = [plain EXCEPT ![li] = id]
    /\ plainMeta' = [plainMeta EXCEPT ![li] = m]
    /\ wrapped' = (wrapped \/ (NeedsRoom(sec, id) /\ Wraps(sec, id)))

\* The section is stored, leaves the cache, and is read back.
Reload ==
    /\ \E s \in {fromWire(encodeToWire(sec))} : sec' = s
    /\ UNCHANGED <<plain, plainMeta, wrapped, edits>>

Next ==
    \/ \E li \in Cells, id \in Ids \cup {Air}, m \in Metas \cup {0} : Edit(li, id, m)
    \/ Reload

Spec == Init /\ [][Next]_vars

-----------------------------------------------------------------------------
\* A section reads as the array of cells it stands for, through every change
\* of its representation and every trip to the disk: no promotion, demotion,
\* reused palette entry or flattened list loses a block or its metadata.  One
\* case is excepted, a section without air that has as many blocks as its
\* indices count: promoteToFlatOrOverflow() puts air in front of all of them.
SectionReads ==
    ~wrapped => \A li \in Cells : getBlock(sec, li) = plain[li] /\ getMeta(sec, li) = plainMeta[li]

\* The same without the exception, as the header says of FLAT
\* (MutableSection.h: "1 byte/entry").
SectionReadsAlways ==
    \A li \in Cells : getBlock(sec, li) = plain[li] /\ getMeta(sec, li) = plainMeta[li]
=============================================================================
