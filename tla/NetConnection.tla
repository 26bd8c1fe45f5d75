---------------------------- MODULE NetConnection ----------------------------
(***************************************************************************)
(* One RouterClient over one IoUringConnection after the other: threads    *)
(* that send, the poll thread of the connection, the owner that connects   *)
(* and disconnects, the kernel's write ring, and the peer that parses the  *)
(* byte stream with the same parse_incoming_().                            *)
(*                                                                         *)
(* Frame f is the cells <<f, 1>> (length), <<f, 2>> (type) .. <<f, n>>,    *)
(* n = FrameLen[f]; frames are numbered in the order they are pushed.      *)
(* Sizes are size_t arithmetic modulo Word; a completion carries a tag of  *)
(* TagSpace values (kTagBits), from which the write's number is decoded.   *)
(*                                                                         *)
(*   queue, flight  write_queue_, in_flight_writes_ (number -> frame, off) *)
(*   sq, cq         the write ring (SQPOLL): entries the kernel has not    *)
(*                  taken, the first sub of them submitted; completions    *)
(*   wire, rbuf     bytes on the way, and in the peer's read_buf_          *)
(*   recv           frames the peer's on_message was called with           *)
(*   fd, shutting, closePending, running    the atomics of the connection  *)
(*   pc[t]          "push": past the shutting_down_ test of send_raw();    *)
(*                  "start": about to call start_next_writes(); in its     *)
(*                  loop, write_mutex_ held: "fill", and "prep" with a     *)
(*                  slot of the ring, "lost" when that slot was submitted  *)
(*                  before it was prepared.  The poll thread, in           *)
(*                  on_write_complete(): "again", about to submit the rest *)
(*                  of a write, and "closing", sq_mutex_write_ held        *)
(*   room, again    pending_limit, and the rest of the short write         *)
(*   struck         what went wrong on this connection that the code does  *)
(*                  not recover from (see FramesFlow)                      *)
(*   poll           "run" or "exited"; owner: what the owner waits for     *)
(*   told           on_closed was called                                   *)
(***************************************************************************)
EXTENDS Integers, Sequences, FiniteSets

CONSTANTS
    Senders,        \* threads that publish
    FrameLen,       \* cells of each frame
    WriteBatch,     \* kWriteBatchLimit
    RingEntries,    \* kDefaultRingEntries
    Word, Errno,    \* size_t, and the errno of a failed write
    TagBase, TagSpace,
    ReadMax,        \* cells one read() returns at most
    MaxWriteFaults, \* bound on short and failed writes, bad input, peers that go
    MaxLives        \* bound on the connections made

\* A frame has a length and a type, and is shorter than size_t can count.
ASSUME ConnAssumption ==
    /\ WriteBatch \in Nat \ {0} /\ RingEntries \in Nat /\ ReadMax \in Nat /\ Word \in Nat \ {0} /\ Errno \in Nat \ {0}
    /\ TagBase \in Nat /\ TagSpace \in Nat \ {0} /\ MaxWriteFaults \in Nat
    /\ FrameLen \in Seq(Nat) /\ \A f \in 1 .. Len(FrameLen) : FrameLen[f] \in 2 .. Word - 1

VARIABLES queue, flight, seqNo, sq, sub, room, again, struck, cq, wire, rbuf, recv, pushed,
          fd, shutting, closePending, running, pc, poll, owner, told,
          connected,    \* RouterClient::connected_
          garbled,      \* the peer found something else where a header should be
          damage,       \* short and failed writes of this connection
          writeFaults, lives

connVars == <<queue, flight, seqNo, sq, sub, room, again, struck, cq, wire, rbuf, recv, pushed, fd, shutting, closePending, running,
          pc, poll, owner, told, connected, garbled, damage, writeFaults, lives>>
ringVars == <<sq, sub>>
writeVars == <<queue, flight, seqNo, ringVars>>
loopVars == <<room, again, struck>>
peerVars == <<rbuf, recv, garbled>>
closeVars == <<fd, shutting, closePending, running, told, connected>>
threadVars == <<pc, poll, owner>>
lifeBounds == <<writeFaults, lives>>

Threads == Senders \cup {"poll"}
MaxSend == Len(FrameLen)
Cells(f, from, n) == [i \in 1 .. n |-> <<f, from + i>>]
Fault == writeFaults < MaxWriteFaults /\ writeFaults' = writeFaults + 1
Lower(a, b) == IF a < b THEN a ELSE b
-----------------------------------------------------------------------------
(***************************************************************************)
(* The write path.  send_raw() is publish(), heartbeat(), health_response()*)
(* and subscribe() alike; the poll thread sends heartbeats and answers.    *)
(***************************************************************************)
\* publish() gives up silently while not connected.
publish(t) ==
    /\ pc[t] = "idle" /\ pushed < MaxSend
    /\ t = "poll" => poll = "run"
    /\ connected /\ ~shutting
    /\ pc' = [pc EXCEPT ![t] = "push"]
    /\ UNCHANGED <<writeVars, loopVars, cq, wire, peerVars, pushed, closeVars, poll, owner, damage, lifeBounds>>

\* write_mutex_ is held through the loop of start_next_writes(); sq_mutex_write_
\* is held across a step only by a poll thread that found the ring full.
Filling == \E t \in Threads : pc[t] \in {"fill", "prep", "lost"}
RingLockFree == pc["poll"] # "closing"
Reserved == {t \in Threads : pc[t] = "prep"}
RingFull == Len(sq) + Cardinality(Reserved) >= RingEntries

NeedStart == DOMAIN flight = {}
send_raw(t) ==
    /\ pc[t] = "push" /\ pushed < MaxSend /\ ~Filling
    /\ pushed' = pushed + 1
    /\ queue' = Append(queue, pushed')
    /\ pc' = [pc EXCEPT ![t] = IF NeedStart THEN "start" ELSE "idle"]
    /\ UNCHANGED <<flight, seqNo, ringVars, loopVars, cq, wire, peerVars, closeVars, poll, owner, damage,
                   lifeBounds>>

start_next_writes(t) ==
    /\ pc[t] = "start" /\ ~Filling
    /\ IF queue = << >> \/ shutting \/ ~fd
       THEN queue' = << >> /\ pc' = [pc EXCEPT ![t] = "idle"] /\ UNCHANGED room
       ELSE room' = WriteBatch /\ pc' = [pc EXCEPT ![t] = "fill"] /\ UNCHANGED queue
    /\ UNCHANGED <<flight, seqNo, ringVars, again, struck, cq, wire, peerVars, pushed, closeVars, poll, owner,
                   damage, lifeBounds>>

\* A slot of the ring, under sq_mutex_write_.  When there is none the function
\* returns at once: what it prepared is not submitted.
io_uring_get_sqe(t) ==
    /\ pc[t] = "fill" /\ queue # << >> /\ room > 0 /\ RingLockFree
    /\ IF RingFull THEN struck' = struck \cup {"full"} /\ pc' = [pc EXCEPT ![t] = "idle"]
       ELSE pc' = [pc EXCEPT ![t] = "prep"] /\ UNCHANGED struck
    /\ UNCHANGED <<writeVars, room, again, cq, wire, peerVars, pushed, closeVars, poll, owner, damage, lifeBounds>>

\* The slot is filled without sq_mutex_write_.
io_uring_prep_write(t) ==
    LET f == Head(queue)
    IN  /\ pc[t] \in {"prep", "lost"}
        /\ queue' = Tail(queue) /\ room' = room - 1
        /\ seqNo' = seqNo + 1
        /\ flight' = [s \in DOMAIN flight \cup {seqNo} |->
                        IF s = seqNo THEN [f |-> f, off |-> 0] ELSE flight[s]]
        /\ sq' = IF pc[t] = "prep" THEN Append(sq, [s |-> seqNo, f |-> f, off |-> 0]) ELSE sq
        /\ pc' = [pc EXCEPT ![t] = "fill"]
        /\ UNCHANGED <<sub, again, struck, cq, wire, peerVars, pushed, closeVars, poll, owner, damage, lifeBounds>>

io_uring_submit(t) ==
    /\ pc[t] = "fill" /\ (queue = << >> \/ room = 0) /\ RingLockFree
    /\ sub' = Len(sq)
    /\ pc' = [pc EXCEPT ![t] = "idle"]
    /\ UNCHANGED <<queue, flight, seqNo, sq, loopVars, cq, wire, peerVars, pushed, closeVars, poll, owner, damage,
                   lifeBounds>>

\* The kernel executes the oldest submission: all of it, or, when the socket's
\* buffer is full, a part or nothing (EAGAIN: the socket is non-blocking).
KernelWrite ==
    /\ sub > 0 /\ sq # << >>
    /\ LET e == Head(sq)
           left == FrameLen[e.f] - e.off
       IN  \E n \in 0 .. left :
              /\ IF fd /\ n = left THEN UNCHANGED <<writeFaults, damage>>
                 ELSE IF fd THEN Fault /\ damage' = damage + 1
                 ELSE n = 0 /\ UNCHANGED <<writeFaults, damage>>
              /\ wire' = wire \o Cells(e.f, e.off, n)
              /\ cq' = Append(cq, [tag |-> (TagBase + e.s) % TagSpace, res |-> IF n = 0 THEN 0 - Errno ELSE n])
    /\ sq' = Tail(sq) /\ sub' = sub - 1
    /\ UNCHANGED <<queue, flight, seqNo, loopVars, peerVars, pushed, closeVars, threadVars, lives>>

\* Mutant: the last completion does not start the next batch.
leavesTheQueue == "idle"
AfterDrain == "start"
on_write_complete ==
    LET c == Head(cq)
        s == c.tag - TagBase
        off == (flight[s].off + c.res) % Word
        f == flight[s].f
        rest == [r \in DOMAIN flight \ {s} |-> flight[r]]
    IN  /\ poll = "run" /\ pc["poll"] = "idle" /\ cq # << >> /\ ~Filling
        /\ cq' = Tail(cq)
        /\ IF s \notin DOMAIN flight THEN UNCHANGED <<flight, again, running, pc>>
           ELSE IF off < FrameLen[f]
           THEN /\ IF fd THEN /\ flight' = [flight EXCEPT ![s].off = off]
                              /\ again' = [s |-> s, f |-> f, off |-> off]
                              /\ pc' = [pc EXCEPT !["poll"] = "again"]
                   ELSE flight' = rest /\ UNCHANGED <<again, pc>>
                /\ UNCHANGED running
           ELSE /\ flight' = rest
                /\ running' = IF DOMAIN rest = {} /\ closePending THEN FALSE ELSE running
                /\ pc' = IF DOMAIN rest = {} /\ ~closePending THEN [pc EXCEPT !["poll"] = AfterDrain] ELSE pc
                /\ UNCHANGED again
        /\ UNCHANGED <<queue, seqNo, ringVars, room, struck, wire, peerVars, pushed, fd, shutting, closePending,
                       told, connected, poll, owner, damage, lifeBounds>>

\* The rest of a short write: a slot, its preparation and the submission under
\* sq_mutex_write_.  A slot another thread holds unprepared goes to the kernel
\* with it, as nothing or as the write that was in that slot before.
StaleEntry ==
    {<< >>} \cup {<<[s |-> r, f |-> r + 1, off |-> 0]>> : r \in (0 .. seqNo - 1) \ DOMAIN flight}
resubmit ==
    /\ pc["poll"] = "again"
    /\ IF RingFull
       THEN /\ pc' = [pc EXCEPT !["poll"] = "closing"] /\ struck' = struck \cup {"full"}
            /\ UNCHANGED ringVars
       ELSE /\ \E old \in IF Reserved = {} THEN {<< >>} ELSE StaleEntry : sq' = Append(sq \o old, again)
            /\ sub' = Len(sq')
            /\ pc' = [t \in Threads |-> IF t = "poll" THEN "idle" ELSE IF t \in Reserved THEN "lost" ELSE pc[t]]
            /\ struck' = IF Reserved = {} THEN struck ELSE struck \cup {"unready"}
    /\ UNCHANGED <<queue, flight, seqNo, room, again, cq, wire, peerVars, pushed, closeVars, poll, owner, damage,
                   lifeBounds>>
-----------------------------------------------------------------------------
(***************************************************************************)
(* Closing.                                                                *)
(***************************************************************************)
Cleanup ==
    /\ closePending' = FALSE /\ fd' = FALSE
    /\ queue' = << >> /\ flight' = << >>
    /\ sq' = << >> /\ sub' = 0 /\ cq' = << >>
    /\ told' = TRUE /\ connected' = FALSE

\* read() returns 0 or an error: close(), cleanup() and the end of the thread.
PeerClosed ==
    /\ poll = "run" /\ running /\ pc["poll"] = "idle" /\ ~Filling /\ Fault
    /\ shutting' = TRUE /\ running' = FALSE
    /\ Cleanup
    /\ poll' = "exited"
    /\ UNCHANGED <<seqNo, loopVars, wire, peerVars, pushed, pc, owner, damage, lives>>

\* close() on the poll thread.
CloseOnPoll ==
    /\ fd /\ ~Filling
    /\ shutting' = TRUE
    /\ queue' = << >>
    /\ IF DOMAIN flight = {} THEN fd' = FALSE /\ running' = FALSE /\ UNCHANGED closePending
       ELSE closePending' = TRUE /\ UNCHANGED <<fd, running>>
    /\ UNCHANGED <<flight, seqNo, ringVars, loopVars, cq, wire, peerVars, pushed, told, connected, poll, owner,
                   damage, lives>>

\* A payload too large or too many bad headers.
BadInput ==
    /\ poll = "run" /\ running /\ pc["poll"] = "idle" /\ Fault
    /\ CloseOnPoll
    /\ UNCHANGED pc

\* The ring had no slot for the rest of a write.
CloseOnFull ==
    /\ pc["poll"] = "closing"
    /\ CloseOnPoll
    /\ pc' = [pc EXCEPT !["poll"] = "idle"]
    /\ UNCHANGED writeFaults

\* The loop ends when it sees running_ false; nothing follows it.
PollExits ==
    /\ poll = "run" /\ ~running /\ pc["poll"] = "idle"
    /\ poll' = "exited"
    /\ UNCHANGED <<writeVars, loopVars, cq, wire, peerVars, pushed, closeVars, pc, owner, damage, lifeBounds>>

\* disconnect() on the owner's thread: close(), which waits for the poll thread
\* only if no write is in flight, and then the destructor.
disconnect ==
    /\ owner = "idle" /\ lives > 0 /\ connected
    /\ connected' = FALSE
    /\ IF ~fd THEN owner' = "destroy" /\ UNCHANGED <<shutting, queue, running, closePending>>
       ELSE /\ ~Filling
            /\ shutting' = TRUE /\ queue' = << >>
            /\ IF DOMAIN flight = {} THEN running' = FALSE /\ owner' = "join" /\ UNCHANGED closePending
               ELSE closePending' = TRUE /\ owner' = "destroy" /\ UNCHANGED running
    /\ UNCHANGED <<flight, seqNo, ringVars, loopVars, cq, wire, peerVars, pushed, fd, told, pc, poll, damage,
                   lifeBounds>>

Joined ==
    /\ owner = "join" /\ poll = "exited"
    /\ IF fd THEN Cleanup ELSE UNCHANGED <<closePending, fd, queue, flight, ringVars, cq, told, connected>>
    /\ owner' = "destroy"
    /\ UNCHANGED <<seqNo, loopVars, wire, peerVars, pushed, shutting, running, pc, poll, damage, lifeBounds>>

\* ~IoUringConnection(): close() again, then join.
Destroy ==
    /\ owner = "destroy"
    /\ IF fd /\ DOMAIN flight = {}
       THEN owner' = "join" /\ running' = FALSE /\ UNCHANGED <<closePending, poll>>
       ELSE IF fd /\ poll = "run" THEN owner' = "reap" /\ closePending' = TRUE /\ UNCHANGED <<running, poll>>
       ELSE owner' = "reap" /\ UNCHANGED <<running, closePending, poll>>
    /\ UNCHANGED <<writeVars, loopVars, cq, wire, peerVars, pushed, fd, shutting, told, connected, pc, damage,
                   lifeBounds>>

\* The connection is freed.  Nothing holds the senders off: one that is past the
\* test of connected_ goes on with what conn_ pointed to, and what becomes of that
\* is not followed.
Freed ==
    /\ struck' = IF \E t \in Threads : pc[t] # "idle" THEN {"freed"} ELSE struck \cap {"freed"}
    /\ pc' = [t \in Threads |-> "idle"]

Destroyed ==
    /\ owner = "reap" /\ poll = "exited"
    /\ owner' = "gone"
    /\ Freed
    /\ UNCHANGED <<writeVars, room, again, cq, wire, peerVars, pushed, closeVars, poll, damage, lifeBounds>>

\* connect(), by a main loop that finds the client not connected: a connection
\* that told of its end is destroyed here, its poll thread joined.
connect ==
    /\ \/ owner = "gone"
       \/ owner = "idle" /\ ~connected /\ poll = "exited"
    /\ lives < MaxLives /\ lives' = lives + 1
    /\ Freed
    /\ queue' = << >> /\ flight' = << >> /\ sq' = << >> /\ sub' = 0 /\ cq' = << >> /\ seqNo' = 0
    /\ wire' = << >> /\ rbuf' = << >> /\ recv' = << >> /\ pushed' = 0 /\ garbled' = FALSE /\ damage' = 0
    /\ fd' = TRUE /\ shutting' = FALSE /\ closePending' = FALSE /\ running' = TRUE /\ told' = FALSE
    /\ connected' = TRUE /\ owner' = "idle" /\ poll' = "run"
    /\ UNCHANGED <<room, again, writeFaults>>
-----------------------------------------------------------------------------
(***************************************************************************)
(* The peer.                                                               *)
(***************************************************************************)
PeerReads ==
    /\ ~garbled
    /\ \E n \in 1 .. Lower(ReadMax, Len(wire)) :
          /\ rbuf' = rbuf \o SubSeq(wire, 1, n)
          /\ wire' = SubSeq(wire, n + 1, Len(wire))
    /\ UNCHANGED <<writeVars, loopVars, cq, recv, garbled, pushed, closeVars, threadVars, damage, lifeBounds>>

\* One turn of the loop of parse_incoming_(): a whole frame is delivered, part of
\* one waits for more.
FrameSize(f) == FrameLen[f]
parse_incoming_ ==
    /\ ~garbled /\ Len(rbuf) >= 2
    /\ LET f == rbuf[1][1]
       IN  IF rbuf[1][2] # 1 THEN garbled' = TRUE /\ UNCHANGED <<rbuf, recv>>
           ELSE /\ Len(rbuf) >= FrameSize(f)
                /\ recv' = Append(recv, f)
                /\ rbuf' = SubSeq(rbuf, FrameSize(f) + 1, Len(rbuf))
                /\ UNCHANGED garbled
    /\ UNCHANGED <<writeVars, loopVars, cq, wire, pushed, closeVars, threadVars, damage, lifeBounds>>
-----------------------------------------------------------------------------
ConnInit ==
    /\ room = 0 /\ again = [s |-> 0, f |-> 0, off |-> 0] /\ struck = {} /\ sub = 0
    /\ queue = << >> /\ flight = << >> /\ sq = << >> /\ cq = << >> /\ seqNo = 0
    /\ wire = << >> /\ rbuf = << >> /\ recv = << >> /\ pushed = 0 /\ garbled = FALSE /\ damage = 0
    /\ fd = FALSE /\ shutting = FALSE /\ closePending = FALSE /\ running = FALSE /\ told = FALSE
    /\ connected = FALSE /\ owner = "gone" /\ poll = "exited"
    /\ pc = [t \in Threads |-> "idle"] /\ writeFaults = 0 /\ lives = 0

ConnNext ==
    \/ \E t \in Threads :
          \/ publish(t) \/ send_raw(t) \/ start_next_writes(t)
          \/ io_uring_get_sqe(t) \/ io_uring_prep_write(t) \/ io_uring_submit(t)
    \/ KernelWrite \/ on_write_complete \/ resubmit
    \/ PeerClosed \/ BadInput \/ CloseOnFull \/ PollExits
    \/ disconnect \/ Joined \/ Destroy \/ Destroyed \/ connect
    \/ PeerReads \/ parse_incoming_

ConnSpec == ConnInit /\ [][ConnNext]_connVars
-----------------------------------------------------------------------------
QueueStarted ==
    queue # << >> /\ ~shutting /\ fd =>
        DOMAIN flight # {} \/ \E t \in Threads : pc[t] \in {"start", "fill", "prep", "lost"}
FlightBacked ==
    ~shutting /\ fd => \A s \in DOMAIN flight :
                          \/ \E i \in 1 .. Len(sq) : sq[i].s = s
                          \/ \E i \in 1 .. Len(cq) : cq[i].tag = TagBase + s
                          \/ pc["poll"] = "again" /\ again.s = s
RingSubmitted == ~shutting /\ fd => sub = Len(sq) \/ Filling

\* No frame is stranded: while the connection is up, what is queued has a write
\* in flight before it or a thread about to start the ring or filling it, every
\* write in flight is in the ring, has its completion waiting or is about to be
\* resubmitted, and what is in the ring was submitted or its thread is about to.
NoStall == QueueStarted /\ FlightBacked /\ RingSubmitted

\* Unless a write came short, the peer is given the frames that were pushed, whole
\* and in order, however threads, batches and reads fall.
FramesInOrder == damage = 0 => ~garbled /\ \A i \in 1 .. Len(recv) : recv[i] = i

\* Frames reach the peer whole and in order unless a write came short, and none is
\* stranded (io_uring_connection.cpp: send_raw, start_next_writes,
\* on_write_complete).  Not of a connection that was freed under a thread that
\* sends; and frames are stranded once the ring was full ("full") or the rest of a
\* short write was submitted together with a slot not yet prepared ("unready").
FramesFlow ==
    /\ "freed" \notin struck => FramesInOrder
    /\ struck = {} => NoStall

\* "Fired after close completes": when the poll thread of a connection that was
\* closed has ended and nobody is about to clean up, on_closed was called.
ClosedIsTold == shutting /\ poll = "exited" /\ owner \notin {"join", "destroy"} => told
=============================================================================
