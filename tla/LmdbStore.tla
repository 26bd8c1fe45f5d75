------------------------------ MODULE LmdbStore ------------------------------
(***************************************************************************)
(* LmdbStore's batch write (chunk_store/Storage/disk/LmdbStore.cpp) over   *)
(* an LMDB environment whose map is bounded: growMapSize(), writeBatch(),  *)
(* persistPrefixAndReturnRemainder() and, as the other writer that         *)
(* competes for the map, writeRaw().                                       *)
(*                                                                         *)
(* LMDB itself is external: a write transaction excludes every other       *)
(* writer; mdb_put takes one unit of map per new entry and reports         *)
(* MDB_MAP_FULL when there is none; an aborted or failed transaction       *)
(* leaves no trace.  Every LMDB call may fail, according to Faults.        *)
(***************************************************************************)
EXTENDS Naturals, Sequences, FiniteSets

CONSTANTS
    Entry,      \* encoded chunks handed to writeBatch()
    Other,      \* chunks written by writeRaw() from the flush thread
    MapSize,    \* initial map size, in entries
    MaxMapSize, \* maxMapSize_
    MaxRounds,  \* kMaxRounds
    Faults      \* LMDB calls that may fail: "begin", "put", "commit", "grow"

ASSUME SizesAssumption ==
    /\ MapSize \in Nat \ {0} /\ MaxMapSize \in Nat /\ MapSize <= MaxMapSize
    /\ MaxRounds \in Nat \ {0}
ASSUME FaultsAssumption == Faults \subseteq {"begin", "put", "commit", "grow"}
ASSUME EntriesAssumption == Entry \cap Other = {}

VARIABLES
    db,         \* committed entries
    mapsize,    \* me_mapsize
    items,      \* the caller's vector (EncodePipeline's local_palettes)
    given,      \* every entry the caller ever put in items (history)
    pc,         \* where writeBatch() is
    txn,        \* entries put by the open transaction
    i,          \* entries of items handled so far
    round,      \* grow-and-rewrite round
    result      \* what the last writeBatch() returned

vars == <<db, mapsize, items, given, pc, txn, i, round, result>>

Elems(s) == {s[n] : n \in 1 .. Len(s)}
Drop(s, n) == SubSeq(s, n + 1, Len(s))

\* mdb_put() finds room for e in the open transaction.
Fits(e) == Cardinality(db \cup txn \cup {e}) <= mapsize
Fails(call) == call \in Faults

Init ==
    /\ db = {}
    /\ mapsize = MapSize
    /\ items = <<>>
    /\ given = {}
    /\ pc = "idle"
    /\ txn = {}
    /\ i = 0
    /\ round = 0
    /\ result = TRUE

Return(r) ==
    /\ pc' = "idle"
    /\ result' = r
    /\ txn' = {}
    /\ i' = 0
    /\ round' = 0

\* Mutant: the cap is not applied.
DoubledUncapped == mapsize * 2

\* std::min(old * 2, maxMapSize_)
Doubled == IF mapsize * 2 < MaxMapSize THEN mapsize * 2 ELSE MaxMapSize

------------------------------------------------------------------------------
(* The callers.                                                             *)

\* EncodePipeline adds an encoded chunk to what the last batch left over.
AddItem(e) ==
    /\ pc = "idle"
    /\ e \notin given
    /\ items' = Append(items, e)
    /\ given' = given \cup {e}
    /\ UNCHANGED <<db, mapsize, pc, txn, i, round, result>>

CallBatch ==
    /\ pc = "idle"
    /\ items # <<>>
    /\ pc' = "begin"
    /\ UNCHANGED <<db, mapsize, items, given, txn, i, round, result>>

\* writeRaw(), between two transactions of the batch: one attempt, then one
\* more if the map is full and could be grown.
WriteRaw(e) ==
    /\ pc \in {"idle", "begin", "full", "prefix"}
    /\ e \notin db
    /\ \/ /\ Cardinality(db \cup {e}) <= mapsize
          /\ db' = db \cup {e}
          /\ UNCHANGED mapsize
       \/ /\ Cardinality(db \cup {e}) > mapsize
          /\ Doubled > mapsize
          /\ mapsize' = Doubled
          /\ db' = IF Cardinality(db \cup {e}) <= Doubled THEN db \cup {e} ELSE db
    /\ UNCHANGED <<items, given, pc, txn, i, round, result>>

------------------------------------------------------------------------------
(* writeBatch().                                                            *)

Begin ==
    /\ pc = "begin"
    /\ \/ Fails("begin") /\ Return(FALSE)
       \/ /\ pc' = "put"
          /\ txn' = {}
          /\ i' = 0
          /\ UNCHANGED <<round, result>>
    /\ UNCHANGED <<db, mapsize, items, given>>

Put ==
    /\ pc = "put"
    /\ i < Len(items)
    /\ \/ /\ Fits(items[i + 1])
          /\ txn' = txn \cup {items[i + 1]}
          /\ i' = i + 1
          /\ UNCHANGED pc
       \/ /\ ~Fits(items[i + 1])
          /\ pc' = "full"
          /\ txn' = {}
          /\ UNCHANGED i
       \/ /\ Fails("put")
          /\ pc' = "put_error"
          /\ UNCHANGED <<txn, i>>
    /\ UNCHANGED <<db, mapsize, items, given, round, result>>

\* Mutant: the entry that failed is erased with the ones before it.
PutErrorErasesOneMore ==
    /\ pc = "put_error"
    /\ \/ /\ i > 0
          /\ db' = db \cup txn
          /\ items' = Drop(items, i + 1)
       \/ /\ i = 0 \/ Fails("commit")
          /\ UNCHANGED <<db, items>>
    /\ Return(FALSE)
    /\ UNCHANGED <<mapsize, given>>

\* mdb_put failed and growing cannot help: commit what was accepted.
PutError ==
    /\ pc = "put_error"
    /\ \/ /\ i > 0
          /\ db' = db \cup txn
          /\ items' = Drop(items, i)
       \/ /\ i = 0 \/ Fails("commit")
          /\ UNCHANGED <<db, items>>
    /\ Return(FALSE)
    /\ UNCHANGED <<mapsize, given>>

\* Mutant: a failed commit is reported as a success.
CommitUnchecked ==
    /\ pc = "put"
    /\ i = Len(items)
    /\ \/ db' = db \cup txn
       \/ Fails("commit") /\ UNCHANGED db
    /\ items' = <<>>
    /\ Return(TRUE)
    /\ UNCHANGED <<mapsize, given>>

Commit ==
    /\ pc = "put"
    /\ i = Len(items)
    /\ \/ /\ db' = db \cup txn
          /\ items' = <<>>
          /\ Return(TRUE)
       \/ /\ Fails("commit")
          /\ Return(FALSE)
          /\ UNCHANGED <<db, items>>
    /\ UNCHANGED <<mapsize, given>>

\* growMapSize() doubles the map up to the cap, and the batch is rewritten; at
\* the cap the entries are written one by one.
Full ==
    /\ pc = "full"
    /\ \/ /\ Doubled > mapsize
          /\ mapsize' = Doubled
          /\ IF round + 1 < MaxRounds
             THEN /\ pc' = "begin"
                  /\ round' = round + 1
                  /\ UNCHANGED <<txn, i, result>>
             ELSE Return(FALSE)
       \/ /\ Doubled <= mapsize \/ Fails("grow")
          /\ pc' = "prefix"
          /\ i' = 0
          /\ UNCHANGED <<mapsize, txn, round, result>>
    /\ UNCHANGED <<db, items, given>>

\* persistPrefixAndReturnRemainder(): one transaction per entry, until one does
\* not fit; a begin or a commit that fails returns at once.
Prefix ==
    /\ pc = "prefix"
    /\ \/ /\ i < Len(items)
          /\ Fits(items[i + 1])
          /\ db' = db \cup {items[i + 1]}
          /\ i' = i + 1
          /\ UNCHANGED <<items, pc, txn, round, result>>
       \/ /\ i < Len(items)
          /\ Fails("begin") \/ (Fails("commit") /\ Fits(items[i + 1]))
          /\ Return(FALSE)
          /\ UNCHANGED <<db, items>>
       \/ /\ i = Len(items) \/ ~Fits(items[i + 1]) \/ Fails("put")
          /\ items' = Drop(items, i)
          /\ Return(FALSE)
          /\ UNCHANGED db
    /\ UNCHANGED <<mapsize, given>>

Next ==
    \/ \E e \in Entry : AddItem(e)
    \/ CallBatch
    \/ \E e \in Other : WriteRaw(e)
    \/ Begin \/ Put \/ PutError \/ Commit \/ Full \/ Prefix

Spec == Init /\ [][Next]_vars

------------------------------------------------------------------------------
(* Properties.                                                              *)

\* Type invariant.
TypeOK ==
    /\ db \subseteq Entry \cup Other
    /\ mapsize \in MapSize .. MaxMapSize
    /\ items \in Seq(Entry)
    /\ given \subseteq Entry
    /\ pc \in {"idle", "begin", "put", "put_error", "full", "prefix"}
    /\ txn \subseteq Entry
    /\ i \in 0 .. Len(items)
    /\ round \in 0 .. MaxRounds
    /\ result \in BOOLEAN

\* "no chunk is ever dropped": whatever fails, and however often the batch is
\* retried, an entry handed to writeBatch() is on disk or still in items.
NothingDropped == given \subseteq db \cup Elems(items)

\* "`items` comes back holding exactly the entries that are not on disk": none
\* of those left over is on disk.
LeftoverIsUnwritten == pc = "idle" => Elems(items) \cap db = {}

\* writeBatch() returns true only when everything it was ever given is on disk
\* ("A failed commit means the write never reached disk, so it MUST be
\* propagated").
TrueMeansWritten == [][pc # "idle" /\ pc' = "idle" /\ result' => given \subseteq db']_vars
==============================================================================
