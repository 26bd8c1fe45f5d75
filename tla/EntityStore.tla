----------------------------- MODULE EntityStore -----------------------------
(***************************************************************************)
(* entitystated (entity_state_store/main.cpp, EntityStateStorage.cpp,      *)
(* cache.cpp): the blobs of chests, workbenches and machines, in an LMDB   *)
(* environment behind a cache, read and written over direct connections    *)
(* (one request at a time on each) and over the router's topics.           *)
(*                                                                         *)
(* A handler runs to its end in the service's one thread.  LMDB is         *)
(* external: a transaction happens whole or fails, and what it committed   *)
(* survives the process.  DeleteEntityState() has no caller and is left    *)
(* out.  The mutex of the cache is a plain one: the thread that takes it   *)
(* twice waits for itself, and the process serves nobody any more.         *)
(***************************************************************************)
EXTENDS Naturals, Sequences, FiniteSets

CONSTANTS
    Keys, Blobs,
    Conns,          \* direct connections
    Absent,         \* the empty answer
    CacheSize,      \* max_size_
    MaxAsks,        \* requests per connection
    MaxFaults       \* failed transactions and restarts

VARIABLES
    states,         \* LMDB: key -> blob
    cache,          \* cache_: key -> blob
    stuck,          \* the thread waits for the mutex it holds
    asks,           \* requests in each connection
    answers,        \* the last reply written into each connection
    routerUp,       \* routerClient->connected_
    published,      \* what last went out on entity.state.response and .ack
    acked,          \* the blob of the last save of each key that was answered
    unsaved,        \* keys whose last save failed
    used            \* requests and faults so far

entityVars == <<states, cache, stuck, asks, answers, routerUp, published, acked, unsaved, used>>

Get(k) == [op |-> "get", k |-> k]
Set(k, b) == [op |-> "set", k |-> k, b |-> b]
Requests == {Get(k) : k \in Keys} \cup {Set(k, b) : k \in Keys, b \in Blobs}
None == << >>
Quiet == [op |-> "none"]
With(f, k, b) == [x \in DOMAIN f \cup {k} |-> IF x = k THEN b ELSE f[x]]

EntityInit ==
    /\ states = None /\ cache = None /\ stuck = FALSE
    /\ asks = [c \in Conns |-> << >>] /\ answers = [c \in Conns |-> Quiet]
    /\ routerUp \in BOOLEAN /\ published = "none"
    /\ acked = None /\ unsaved = {}
    /\ used = [asks |-> [c \in Conns |-> 0], faults |-> 0]

\* Cache::set(): the entry is in, and evictIfNeeded() locks mutex_ again when
\* there are too many of them.
Overflows(k) == Cardinality(DOMAIN cache \cup {k}) > CacheSize
setIfAbsent(k, b) == /\ cache' = IF k \in DOMAIN cache THEN cache ELSE With(cache, k, b)
                     /\ stuck' = Overflows(k)
set(k, b) == cache' = With(cache, k, b) /\ stuck' = Overflows(k)

\* A transaction fails while there are faults left.
MayFail(ok) == IF ok THEN UNCHANGED used
              ELSE used.faults < MaxFaults /\ used' = [used EXCEPT !.faults = @ + 1]

\* One read and one write transaction; ok says whether it went well.
Found(k, ok) == ok /\ k \in DOMAIN states
doSaveEntityState(k, b, ok) == states' = IF ok THEN With(states, k, b) ELSE states

\* LoadEntityState() answers b; what LMDB has goes into the cache.
LoadEntityState(k, b, ok) ==
    \/ k \in DOMAIN cache /\ b = cache[k] /\ ok /\ UNCHANGED <<cache, stuck>>
    \/ k \notin DOMAIN cache /\ Found(k, ok) /\ b = states[k] /\ set(k, b)
    \/ k \notin DOMAIN cache /\ ~Found(k, ok) /\ b = Absent /\ UNCHANGED <<cache, stuck>>

\* SaveEntityState(): the cache first, then LMDB; whoever asked is told it went
\* well either way.  A thread stuck in the cache never gets to LMDB.
SaveEntityState(k, b, ok) ==
    /\ set(k, b)
    /\ IF Overflows(k) THEN UNCHANGED states ELSE doSaveEntityState(k, b, ok)
    /\ acked' = IF Overflows(k) THEN acked ELSE With(acked, k, b)
    /\ unsaved' = IF Overflows(k) THEN unsaved ELSE IF ok THEN unsaved \ {k} ELSE unsaved \cup {k}

Reply(q, b) == IF q.op = "get" THEN [op |-> "state", k |-> q.k, b |-> b] ELSE [op |-> "ack", k |-> q.k]

\* What a request does, to the reply r.
Serves(q, r, ok) ==
    /\ MayFail(ok)
    /\ \/ \E b \in Blobs \cup {Absent} :
              q.op = "get" /\ LoadEntityState(q.k, b, ok) /\ r = Reply(q, b)
          /\ UNCHANGED <<states, acked, unsaved>>
       \/ q.op = "set" /\ SaveEntityState(q.k, q.b, ok) /\ r = Reply(q, Absent)

Replies == {Reply(q, b) : q \in Requests, b \in Blobs \cup {Absent}}

\* doReadFrame(): one request, its reply, then the next read.
doReadFrame(c, ok) ==
    /\ ~stuck /\ asks[c] # << >>
    /\ \E r \in Replies :
           /\ Serves(Head(asks[c]), r, ok)
           /\ answers' = IF stuck' THEN answers ELSE [answers EXCEPT ![c] = r]
    /\ asks' = [asks EXCEPT ![c] = Tail(@)]
    /\ UNCHANGED <<routerUp, published>>

\* OnMessage() of main(): the answer names no key, and is dropped while the
\* router is away.
onRouterMessage(q, ok) ==
    /\ ~stuck /\ routerUp
    /\ \E r \in Replies :
           /\ Serves(q, r, ok)
           /\ published' = IF stuck' THEN published ELSE r.op
    /\ UNCHANGED <<asks, answers, routerUp>>

\* The clients, the router and the operator (external).
Ask(c, q) ==
    /\ used.asks[c] < MaxAsks
    /\ used' = [used EXCEPT !.asks[c] = @ + 1]
    /\ asks' = [asks EXCEPT ![c] = Append(@, q)]
    /\ UNCHANGED <<states, cache, stuck, answers, routerUp, published, acked, unsaved>>
RouterTurns ==
    /\ routerUp' = ~routerUp
    /\ UNCHANGED <<states, cache, stuck, asks, answers, published, acked, unsaved, used>>

\* The process ends and starts again over the same directory.
initialize ==
    /\ cache' = None /\ stuck' = FALSE
    /\ asks' = [c \in Conns |-> << >>] /\ answers' = [c \in Conns |-> Quiet]
    /\ UNCHANGED <<states, routerUp, published, acked, unsaved>>
Restart ==
    /\ used.faults < MaxFaults /\ used' = [used EXCEPT !.faults = @ + 1]
    /\ initialize

EntityNext ==
    \/ \E c \in Conns, ok \in BOOLEAN : doReadFrame(c, ok)
    \/ \E q \in Requests, ok \in BOOLEAN : onRouterMessage(q, ok)
    \/ \E c \in Conns, q \in Requests : Ask(c, q)
    \/ RouterTurns \/ Restart
EntitySpec == EntityInit /\ [][EntityNext]_entityVars

(* Properties                                                              *)

\* While the thread runs, what was acknowledged and written is what a load
\* finds, in the cache and after it is gone, whoever wrote last and over which
\* path (SaveEntityState(), LoadEntityState(), Cache::set()).
LoadsFindSaves ==
    ~stuck => \A k \in DOMAIN acked \ unsaved :
                  /\ k \in DOMAIN states /\ states[k] = acked[k]
                  /\ k \in DOMAIN cache => cache[k] = acked[k]

\* "LRU cache (1000 entries)" (doc/archive/EPICS/0-foundation-item-inventory/
\* tasks/6-entity-state-store.md:112): a full cache makes room and the service
\* goes on (evictIfNeeded()).
FullCacheMakesRoom == ~stuck
=============================================================================
