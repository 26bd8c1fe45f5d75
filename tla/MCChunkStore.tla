---------------------------- MODULE MCChunkStore -----------------------------
(*****************************************************************************)
(* The chunk store under two threads, and the requests of its client, each   *)
(* with its own variables, checked in one run: turn says which of them takes *)
(* the steps of a behaviour. A behaviour of the store either uses every      *)
(* operation on two chunks, MixedOps of them, or writes and reads one chunk  *)
(* (turn), up to MaxOps times. Threads, chunks, blocks and objects are       *)
(* interchangeable.                                                          *)
(*****************************************************************************)
EXTENDS ChunkStore, ChunkLink, TLC

CONSTANT MixedOps

VARIABLE turn

allVars == <<turn, vars, linkVars>>

MCSymmetry == Permutations(Thread) \cup Permutations(Key) \cup Permutations(Block)
              \cup Permutations(Obj)

\* What takes no steps starts in one of its states, and so does a chunk that
\* nobody uses.
MCInit ==
    /\ turn \in {"store", "link"} \cup Key
    /\ Init /\ LinkInit
    /\ turn # "store" => \A key \in Key \ {turn} : disk[key] = None
    /\ turn \in Key => disk[turn] # Undecodable
    /\ turn # "link" => blocks = [pos \in Positions |-> NoBlock]

\* Only writes and reads, and of chunk turn alone.
OneChunk ==
    \A t \in Thread :
        /\ th[t].key \in {None, turn}
        /\ th[t].pc \notin {"cas_hit", "cas_set", "cas_read", "block_read"}

MCNext ==
    \/ turn = "store" /\ UNCHANGED <<turn, linkVars>> /\ Next /\ ops' <= MixedOps
    \/ turn \in Key /\ UNCHANGED <<turn, linkVars>> /\ Next /\ OneChunk'
    \/ turn = "link" /\ UNCHANGED <<turn, vars>> /\ LinkNext
MCSpec ==
    /\ MCInit /\ [][MCNext]_allVars
==============================================================================
