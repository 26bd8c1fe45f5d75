----------------------------- MODULE ChunkLink -----------------------------
(***************************************************************************)
(* The request link between SimulationCore and ChunkStore: the client      *)
(* (IoUringChunkClient) with its callbacks by request id, the service that *)
(* serves the requests on its poll thread and hands SetBlock to two        *)
(* "chunk-io" threads, and the CAS runner that tells the player of a block *)
(* action first and asks the store afterwards.                             *)
(*                                                                         *)
(* A position is one coordinate and a block one value; the store's own     *)
(* interleavings are the module ChunkStore's.  SaveChunkReq is left out:   *)
(* no client sends it.                                                     *)
(***************************************************************************)
EXTENDS Integers, Sequences, SequencesExt, Functions

CONSTANTS
  Callers,      \* the client's threads: router, tick and poll thread
  Positions,    \* a finite set of natural numbers
  Values,       \* block ids; 0 is air
  ChunkSize,    \* 32 in the code
  MaxCalls      \* bound on the requests of a behaviour

VARIABLES
  next_req_id,  \* the client's counter, atomic
  building,     \* building[t]: what thread t is about to register, or << >>
  pending,      \* pending_callbacks_: request id -> number of the call
  connected,    \* connected_
  toServer,     \* frames on their way to the service, in order
  io_pool,      \* SetBlock tasks posted to the io threads
  toClient,     \* replies on their way back, in order
  blocks,       \* the block at every position
  calls,        \* every call made so far, in order
  acks,         \* what the player was told of each call, in order
  heard,        \* heard[c]: the replies the callback of call c was given
  overlapped    \* whether two threads have been inside a call at once

linkVars == <<next_req_id, building, pending, connected, toServer, io_pool, toClient,
          blocks, calls, acks, heard, overlapped>>

NoBlock == 0
Numbers == DOMAIN calls

\* What a callback is given: whether the request succeeded, and a block.
Result(ok, block) == [ok |-> ok, block |-> block]

\* What it makes of a reply of another kind than its own, and of a client that
\* is not connected.
Failure == Result(FALSE, NoBlock)

Told(call, result) ==
  IF call.kind # "cas" THEN << >>
  ELSE IF result.ok THEN <<"committed">> ELSE <<"conflict">>

\* The callback of call c runs with `result`, which is the reply to `from`.
Hear(c, from, result) ==
  /\ heard' = [heard EXCEPT ![c] = Append(@, [from |-> from, result |-> result])]
  /\ acks' = [acks EXCEPT ![c] = @ \o Told(calls[c], result)]

BlockRequests ==
  [kind : {"get"}, pos : Positions]
    \cup [kind : {"set"}, pos : Positions, value : Values]
    \cup [kind : {"cas"}, pos : Positions, expected : Values, value : Values]

(* ------------------------------ the client ----------------------------- *)

\* A call while the client is not connected: the callback runs at once.
CallDown(t, request) ==
  /\ ~connected
  /\ calls' = Append(calls, request)
  /\ heard' = Append(heard, <<[from |-> Len(calls) + 1, result |-> Failure]>>)
  /\ acks' = Append(acks, IF request.kind = "cas" THEN <<"accepted", "conflict">> ELSE << >>)
  /\ UNCHANGED <<next_req_id, building, pending, connected, toServer, io_pool, toClient, blocks, overlapped>>

\* The first half of a call: the message takes an id from the counter.
CallUp(t, request) ==
  /\ connected
  /\ building' = [building EXCEPT ![t] = <<[id |-> next_req_id, call |-> Len(calls) + 1]>>]
  /\ next_req_id' = next_req_id + 1
  /\ calls' = Append(calls, request)
  /\ heard' = Append(heard, << >>)
  /\ acks' = Append(acks, IF request.kind = "cas" THEN <<"accepted">> ELSE << >>)
  /\ overlapped' = (overlapped \/ \E u \in Callers \ {t} : building[u] # << >>)
  /\ UNCHANGED <<pending, connected, toServer, io_pool, toClient, blocks>>

Call(t) ==
  /\ building[t] = << >>
  /\ Len(calls) < MaxCalls
  /\ \E request \in BlockRequests : CallDown(t, request) \/ CallUp(t, request)

\* A mutant: the counter already points at the next request.
registersNext == next_req_id

\* The id the callback is registered under: the counter is read again.
RegisteredId == next_req_id - 1

\* The second half: register the callback, then send the frame.
Send(t) ==
  /\ building[t] # << >>
  /\ LET msg == building[t][1] IN
       /\ pending' = [i \in DOMAIN pending \cup {RegisteredId} |->
                        IF i = RegisteredId THEN msg.call ELSE pending[i]]
       /\ toServer' = IF connected THEN Append(toServer, msg) ELSE toServer
  /\ building' = [building EXCEPT ![t] = << >>]
  /\ UNCHANGED <<next_req_id, connected, io_pool, toClient, blocks, calls, acks, heard, overlapped>>

\* A reply: its callback is taken out of the table and run; a reply nobody
\* waits for is dropped.
onRead ==
  /\ toClient # << >>
  /\ LET reply == Head(toClient) IN
       IF reply.id \in DOMAIN pending
       THEN LET c == pending[reply.id] IN
            /\ pending' = Restrict(pending, DOMAIN pending \ {reply.id})
            /\ Hear(c, reply.call, IF calls[c].kind = calls[reply.call].kind
                                   THEN reply.result ELSE Failure)
       ELSE UNCHANGED <<pending, heard, acks>>
  /\ toClient' = Tail(toClient)
  /\ UNCHANGED <<next_req_id, building, connected, toServer, io_pool, blocks, calls, overlapped>>

\* The connection closes: what was under way is lost, the table keeps its
\* callbacks and nothing connects again.
on_closed ==
  /\ connected
  /\ connected' = FALSE
  /\ toServer' = << >>
  /\ toClient' = << >>
  /\ UNCHANGED <<next_req_id, building, pending, io_pool, blocks, calls, acks, heard, overlapped>>

(* ----------------------------- the service ----------------------------- *)

sendResponse(msg, result) ==
  toClient' = IF connected
              THEN Append(toClient, [id |-> msg.id, call |-> msg.call, result |-> result])
              ELSE toClient

handleGetBlock(msg) ==
  /\ sendResponse(msg, Result(TRUE, blocks[calls[msg.call].pos]))
  /\ UNCHANGED <<blocks, io_pool>>

handleSetBlock(msg) ==
  /\ io_pool' = io_pool \cup {msg}
  /\ UNCHANGED <<blocks, toClient>>

handleSetBlockCAS(msg) ==
  LET call == calls[msg.call]
      ok == blocks[call.pos] = call.expected IN
  /\ blocks' = IF ok THEN [blocks EXCEPT ![call.pos] = call.value] ELSE blocks
  /\ sendResponse(msg, Result(ok, blocks[call.pos]))
  /\ UNCHANGED io_pool

onMessage ==
  /\ toServer # << >>
  /\ LET msg == Head(toServer)
         kind == calls[msg.call].kind IN
       \/ kind = "get" /\ handleGetBlock(msg)
       \/ kind = "set" /\ handleSetBlock(msg)
       \/ kind = "cas" /\ handleSetBlockCAS(msg)
  /\ toServer' = Tail(toServer)
  /\ UNCHANGED <<next_req_id, building, pending, connected, calls, acks, heard, overlapped>>

\* ChunkStore::SetBlock drops the position within the chunk and writes at
\* the chunk's coordinate.
WrittenAt(pos) == pos \div ChunkSize

\* One of the two io threads takes any of the tasks.
AsyncSetBlock ==
  /\ \E msg \in io_pool :
       LET call == calls[msg.call] IN
       /\ blocks' = [blocks EXCEPT ![WrittenAt(call.pos)] = call.value]
       /\ sendResponse(msg, Result(TRUE, NoBlock))
       /\ io_pool' = io_pool \ {msg}
  /\ UNCHANGED <<next_req_id, building, pending, connected, toServer, calls, acks, heard, overlapped>>

(* ---------------------------- specification ---------------------------- *)

LinkInit ==
  /\ next_req_id = 1
  /\ building = [t \in Callers |-> << >>]
  /\ pending = << >>
  /\ connected = TRUE
  /\ toServer = << >> /\ toClient = << >>
  /\ io_pool = {}
  /\ blocks \in [Positions -> Values]
  /\ calls = << >> /\ acks = << >> /\ heard = << >>
  /\ overlapped = FALSE

LinkNext ==
  \/ \E t \in Callers : Call(t) \/ Send(t)
  \/ onRead \/ on_closed
  \/ onMessage \/ AsyncSetBlock

LinkSpec == LinkInit /\ [][LinkNext]_linkVars

(* ------------------------------ properties ----------------------------- *)

\* A callback hears at most one reply, and the one to its own request; so a
\* player is told "committed" only of a block the store has written.  This
\* much is true while no two threads are inside a call at once: when they are,
\* both may read the counter after both have moved it.
AnsweredByItsOwn ==
  ~overlapped =>
    \A c \in Numbers : /\ Len(heard[c]) <= 1
                       /\ \A i \in DOMAIN heard[c] : heard[c][i].from = c

\* The same of every behaviour; two overlapping calls break it.
AlwaysAnsweredByItsOwn ==
  \A c \in Numbers : \A i \in DOMAIN heard[c] : heard[c][i].from = c

\* A SetBlock that was answered with success, and that no later request
\* disturbed, left its block at its own position.
SetBlockLands ==
  (\A c \in Numbers : calls[c].kind = "set")
    => \A c \in Numbers :
         (/\ \E i \in DOMAIN heard[c] : heard[c][i].result.ok
          /\ \A d \in Numbers \ {c} : WrittenAt(calls[d].pos) # calls[c].pos)
           => blocks[calls[c].pos] = calls[c].value
=============================================================================
