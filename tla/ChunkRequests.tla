---------------------------- MODULE ChunkRequests ----------------------------
(***************************************************************************)
(* How a chunk that is not stored reaches those who asked for it:          *)
(* AsyncGetChunk() (chunk_store/Storage/ChunkStore.cpp) leaves a callback  *)
(* in pending_gen_cbs_ and asks GenerationQueue (world_generator) for the  *)
(* chunk; a worker generates it; an encode thread (EncodePipeline.cpp)     *)
(* encodes it, caches it, answers the callbacks and writes the bytes to    *)
(* LMDB in a batch.                                                        *)
(*                                                                         *)
(* A lock-protected section is one step.  Chunk contents are left to       *)
(* ChunkStore.tla: here a chunk is cached or not, stored or not.           *)
(***************************************************************************)
EXTENDS Naturals, Sequences, FiniteSets

CONSTANTS
    Req,        \* requests
    Key,        \* chunk keys
    Worker,     \* GenerationQueue worker threads
    Encoder,    \* encode threads
    NoKey       \* no key: not one of Key

ASSUME NoKeyAssumption == NoKey \notin Key

VARIABLES
    req,            \* each request: where it is and for which key
    answers,        \* callbacks invoked, per request
    pending_gen_cbs_, \* callbacks waiting for a key
    dedup_,         \* keys requested and not generated yet
    tasks_,         \* keys waiting for a worker
    popFront_,      \* which end the next worker pops
    worker,         \* each worker: where it is and for which key
    encode_queue_,  \* generated chunks waiting for an encode thread
    enc,            \* each encode thread
    cached,         \* keys in the cache
    stored,         \* keys in LMDB
    crashed         \* the process died

vars == <<req, answers, pending_gen_cbs_, dedup_, tasks_, popFront_, worker,
          encode_queue_, enc, cached, stored, crashed>>

EncIdle == [pc |-> "wait", tasks |-> <<>>, key |-> NoKey, cbs |-> {}, palettes |-> {}]

Init ==
    /\ req = [r \in Req |-> [pc |-> "new", key |-> NoKey]]
    /\ answers = [r \in Req |-> 0]
    /\ pending_gen_cbs_ = [key \in Key |-> {}]
    /\ dedup_ = {}
    /\ tasks_ = <<>>
    /\ popFront_ = FALSE
    /\ worker = [w \in Worker |-> [pc |-> "wait", key |-> NoKey]]
    /\ encode_queue_ = <<>>
    /\ enc = [e \in Encoder |-> EncIdle]
    /\ cached = {}
    /\ stored = {}
    /\ crashed = FALSE

Gen == <<dedup_, tasks_, popFront_, worker>>
Enc == <<encode_queue_, enc>>

------------------------------------------------------------------------------
(* AsyncGetChunk().                                                         *)

Answer(r) ==
    /\ answers' = [answers EXCEPT ![r] = @ + 1]
    /\ req' = [req EXCEPT ![r].pc = "end"]

\* A hit answers at once; a miss goes to the I/O pool.
AsyncGetChunk(r, key) ==
    /\ ~crashed
    /\ req[r].pc = "new"
    /\ \/ /\ key \in cached
          /\ req' = [req EXCEPT ![r] = [pc |-> "end", key |-> key]]
          /\ answers' = [answers EXCEPT ![r] = @ + 1]
       \/ /\ key \notin cached
          /\ req' = [req EXCEPT ![r] = [pc |-> "read", key |-> key]]
          /\ UNCHANGED answers
    /\ UNCHANGED <<pending_gen_cbs_, Gen, Enc, cached, stored, crashed>>

\* LMDB: a failed read answers null, a stored chunk is cached and answered.
Read(r) ==
    /\ ~crashed
    /\ req[r].pc = "read"
    /\ \/ Answer(r) /\ UNCHANGED cached
       \/ /\ req[r].key \in stored
          /\ cached' = cached \cup {req[r].key}
          /\ Answer(r)
       \/ /\ req[r].key \notin stored
          /\ req' = [req EXCEPT ![r].pc = "push"]
          /\ UNCHANGED <<answers, cached>>
    /\ UNCHANGED <<pending_gen_cbs_, Gen, Enc, stored, crashed>>

\* The callback is queued before the chunk is requested.
PushCallback(r) ==
    /\ ~crashed
    /\ req[r].pc = "push"
    /\ req' = [req EXCEPT ![r].pc = "request"]
    /\ pending_gen_cbs_' = [pending_gen_cbs_ EXCEPT ![req[r].key] = @ \cup {r}]
    /\ UNCHANGED <<answers, Gen, Enc, cached, stored, crashed>>

\* GenerationQueue::requestChunk().
RequestChunk(r) ==
    /\ ~crashed
    /\ req[r].pc = "request"
    /\ req' = [req EXCEPT ![r].pc = "end"]
    /\ IF req[r].key \in dedup_
       THEN UNCHANGED <<dedup_, tasks_>>
       ELSE /\ dedup_' = dedup_ \cup {req[r].key}
            /\ tasks_' = Append(tasks_, req[r].key)
    /\ UNCHANGED <<answers, pending_gen_cbs_, popFront_, worker, Enc, cached, stored,
                   crashed>>

------------------------------------------------------------------------------
(* GenerationQueue::workerLoop().                                           *)

\* Take the oldest and the newest task in turn.
PopTask(w) ==
    /\ ~crashed
    /\ worker[w].pc = "wait"
    /\ tasks_ # <<>>
    /\ worker' = [worker EXCEPT ![w] =
                     [pc |-> "generate", key |-> tasks_[IF popFront_ THEN 1 ELSE Len(tasks_)]]]
    /\ tasks_' = IF popFront_ THEN Tail(tasks_) ELSE SubSeq(tasks_, 1, Len(tasks_) - 1)
    /\ popFront_' = ~popFront_
    /\ UNCHANGED <<req, answers, pending_gen_cbs_, dedup_, Enc, cached, stored, crashed>>

\* Mutant: the generated key stays in dedup_.
GeneratedStillDedup(w) ==
    /\ ~crashed
    /\ worker[w].pc = "generate"
    /\ worker' = [worker EXCEPT ![w].pc = "output"]
    /\ UNCHANGED <<req, answers, pending_gen_cbs_, dedup_, tasks_, popFront_, Enc,
                   cached, stored, crashed>>

\* The key may be requested again from here on.
Generated(w) ==
    /\ ~crashed
    /\ worker[w].pc = "generate"
    /\ worker' = [worker EXCEPT ![w].pc = "output"]
    /\ dedup_' = dedup_ \ {worker[w].key}
    /\ UNCHANGED <<req, answers, pending_gen_cbs_, tasks_, popFront_, Enc, cached,
                   stored, crashed>>

\* Mutant: the key is read after the task was reset.
OutputMovedKey(w) ==
    /\ ~crashed
    /\ worker[w].pc = "output"
    /\ worker' = [worker EXCEPT ![w] = [pc |-> "wait", key |-> NoKey]]
    /\ encode_queue_' = Append(encode_queue_, worker'[w].key)
    /\ UNCHANGED <<req, answers, pending_gen_cbs_, dedup_, tasks_, popFront_, enc,
                   cached, stored, crashed>>

\* output_ is ChunkStore's enqueueEncode().
Output(w) ==
    /\ ~crashed
    /\ worker[w].pc = "output"
    /\ worker' = [worker EXCEPT ![w] = [pc |-> "wait", key |-> NoKey]]
    /\ encode_queue_' = Append(encode_queue_, worker[w].key)
    /\ UNCHANGED <<req, answers, pending_gen_cbs_, dedup_, tasks_, popFront_, enc,
                   cached, stored, crashed>>

------------------------------------------------------------------------------
(* EncodePipeline::encodeLoop().                                            *)

\* An encode thread takes the whole queue.
SwapQueue(e) ==
    /\ ~crashed
    /\ enc[e].pc = "wait"
    /\ encode_queue_ # <<>>
    /\ enc' = [enc EXCEPT ![e].pc = "encode", ![e].tasks = encode_queue_]
    /\ encode_queue_' = <<>>
    /\ UNCHANGED <<req, answers, pending_gen_cbs_, Gen, cached, stored, crashed>>

\* Encode and cache the next chunk, or write the batch when there is none.
Encode(e) ==
    /\ ~crashed
    /\ enc[e].pc = "encode"
    /\ IF enc[e].tasks # <<>>
       THEN LET key == Head(enc[e].tasks)
            IN /\ enc' = [enc EXCEPT ![e].pc = "take", ![e].tasks = Tail(@), ![e].key = key,
                                     ![e].palettes = @ \cup {key}]
               /\ cached' = cached \cup {key}
       ELSE /\ enc' = [enc EXCEPT ![e].pc = "write"]
            /\ UNCHANGED cached
    /\ UNCHANGED <<req, answers, pending_gen_cbs_, Gen, encode_queue_, stored, crashed>>

\* Mutant: the callbacks are copied and the list is not erased.
TakeCallbacksCopied(e) ==
    /\ ~crashed
    /\ enc[e].pc = "take"
    /\ enc' = [enc EXCEPT ![e].pc = "front", ![e].cbs = pending_gen_cbs_[enc[e].key]]
    /\ UNCHANGED <<req, answers, pending_gen_cbs_, Gen, encode_queue_, cached, stored,
                   crashed>>

TakeCallbacks(e) ==
    /\ ~crashed
    /\ enc[e].pc = "take"
    /\ enc' = [enc EXCEPT ![e].pc = "front", ![e].cbs = pending_gen_cbs_[enc[e].key]]
    /\ pending_gen_cbs_' = [pending_gen_cbs_ EXCEPT ![enc[e].key] = {}]
    /\ UNCHANGED <<req, answers, Gen, encode_queue_, cached, stored, crashed>>

\* Mutant: only the first callback is called.
CallFrontOnly(e) ==
    /\ ~crashed
    /\ enc[e].pc = "front"
    /\ IF enc[e].cbs = {}
       THEN /\ crashed' = TRUE
            /\ UNCHANGED <<answers, enc>>
       ELSE /\ \E r \in enc[e].cbs : answers' = [answers EXCEPT ![r] = @ + 1]
            /\ enc' = [enc EXCEPT ![e].pc = "encode", ![e].cbs = {}, ![e].key = NoKey]
            /\ UNCHANGED crashed
    /\ UNCHANGED <<req, pending_gen_cbs_, Gen, encode_queue_, cached, stored>>

\* callbacks.front() on an empty vector reads through a null pointer: the
\* process dies.  Otherwise the callbacks are called one after another.
CallCallbacks(e) ==
    /\ ~crashed
    /\ enc[e].pc = "front"
    /\ IF enc[e].cbs = {}
       THEN /\ crashed' = TRUE
            /\ UNCHANGED <<answers, enc>>
       ELSE /\ answers' = [r \in Req |-> IF r \in enc[e].cbs THEN answers[r] + 1 ELSE answers[r]]
            /\ enc' = [enc EXCEPT ![e].pc = "encode", ![e].cbs = {}, ![e].key = NoKey]
            /\ UNCHANGED crashed
    /\ UNCHANGED <<req, pending_gen_cbs_, Gen, encode_queue_, cached, stored>>

\* flushPalettes(): the batch is written, or (LMDB refuses) kept for the next.
FlushPalettes(e) ==
    /\ ~crashed
    /\ enc[e].pc = "write"
    /\ \/ /\ stored' = stored \cup enc[e].palettes
          /\ enc' = [enc EXCEPT ![e].pc = "wait", ![e].palettes = {}]
       \/ /\ enc' = [enc EXCEPT ![e].pc = "wait"]
          /\ UNCHANGED stored
    /\ UNCHANGED <<req, answers, pending_gen_cbs_, Gen, encode_queue_, cached, crashed>>

\* CLOCK evicts any cached chunk when it needs the room.
Evict(key) ==
    /\ ~crashed
    /\ key \in cached
    /\ cached' = cached \ {key}
    /\ UNCHANGED <<req, answers, pending_gen_cbs_, Gen, Enc, stored, crashed>>

------------------------------------------------------------------------------
IoStep(r) == Read(r) \/ PushCallback(r) \/ RequestChunk(r)
WorkerStep(w) == PopTask(w) \/ Generated(w) \/ Output(w)
EncoderStep(e) ==
    SwapQueue(e) \/ Encode(e) \/ TakeCallbacks(e) \/ CallCallbacks(e) \/ FlushPalettes(e)

Next ==
    \/ \E r \in Req, key \in Key : AsyncGetChunk(r, key)
    \/ \E r \in Req : IoStep(r)
    \/ \E w \in Worker : WorkerStep(w)
    \/ \E e \in Encoder : EncoderStep(e)
    \/ \E key \in Key : Evict(key)

Spec == Init /\ [][Next]_vars

\* The threads of the process keep running: a posted request is picked up by
\* the I/O pool, a worker and an encode thread finish what they began and are
\* woken when their queue is not empty.
FairSpec ==
    /\ Spec
    /\ \A r \in Req : WF_vars(IoStep(r))
    /\ \A w \in Worker : WF_vars(WorkerStep(w))
    /\ \A e \in Encoder : WF_vars(EncoderStep(e))

------------------------------------------------------------------------------
(* Properties.                                                              *)

\* Type invariant.
TypeOK ==
    /\ req \in [Req -> [pc : {"new", "read", "push", "request", "end"},
                        key : Key \cup {NoKey}]]
    /\ answers \in [Req -> Nat]
    /\ pending_gen_cbs_ \in [Key -> SUBSET Req]
    /\ dedup_ \subseteq Key
    /\ tasks_ \in Seq(Key)
    /\ popFront_ \in BOOLEAN
    /\ worker \in [Worker -> [pc : {"wait", "generate", "output"}, key : Key \cup {NoKey}]]
    /\ encode_queue_ \in Seq(Key)
    /\ enc \in [Encoder -> [pc : {"wait", "encode", "take", "front", "write"},
                            tasks : Seq(Key), key : Key \cup {NoKey},
                            cbs : SUBSET Req, palettes : SUBSET Key]]
    /\ cached \subseteq Key /\ stored \subseteq Key
    /\ crashed \in BOOLEAN

Elems(s) == {s[n] : n \in 1 .. Len(s)}

\* A chunk of this key is being made and will still look for callbacks.
InFlight(key) ==
    \/ key \in Elems(tasks_) \cup Elems(encode_queue_)
    \/ \E w \in Worker : worker[w].key = key
    \/ \E e \in Encoder : key \in Elems(enc[e].tasks) \/ (enc[e].pc = "take" /\ enc[e].key = key)

\* The callback of a request is called once, although requests, generations
\* and encodings of one chunk overlap.
AnsweredOnce == \A r \in Req : answers[r] <= 1

\* No callback is stranded: while one waits, a chunk of its key is on its way
\* to the point where callbacks are looked up, even when the request was
\* dropped as a duplicate of one being generated.
NoOrphanCallback ==
    ~crashed =>
        \A r \in Req : req[r].pc = "end" /\ answers[r] = 0 =>
            \/ r \in pending_gen_cbs_[req[r].key] /\ InFlight(req[r].key)
            \/ \E e \in Encoder : r \in enc[e].cbs

\* dedup_ holds exactly the keys queued or being generated, and each is queued
\* or generated once.
DedupIsExact ==
    /\ dedup_ = Elems(tasks_) \cup {worker[w].key : w \in {u \in Worker : worker[u].pc = "generate"}}
    /\ Cardinality(Elems(tasks_)) = Len(tasks_)
    /\ \A w \in Worker : worker[w].pc = "generate" => worker[w].key \notin Elems(tasks_)

\* Every request is answered, unless the process dies.
Answered == \A r \in Req : req[r].pc # "new" ~> answers[r] = 1 \/ crashed

\* "generated chunk goes to GenOutput, then to encode queue, then callbacks
\* ChunkCallback": an encode thread that calls the first callback has one.
CallbacksNonEmpty == \A e \in Encoder : enc[e].pc = "front" => enc[e].cbs # {}
==============================================================================
