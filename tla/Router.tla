------------------------------- MODULE Router -------------------------------
(***************************************************************************)
(* MessageRouter: one handler goroutine and one writer goroutine per       *)
(* connection, a subscription table under an RWMutex, one bounded channel  *)
(* per connection and priority class, and health probes.                   *)
(*                                                                         *)
(*   h[c]     handler of connection c: pc, what it still has to send to    *)
(*            (todo), the message (m), and the pair it popped a frame for  *)
(*   ch       sendChs; got: what was written to the socket; owed: the High *)
(*            frames ch has accepted so far                                *)
(*   done     the clients whose Close() ran: done and the channels closed  *)
(*   panicked a goroutine panicked, or the runtime found two in one map:   *)
(*            the process is gone                                          *)
(*                                                                         *)
(* Publish() holds r.mu for reading from its first step to its last; the   *)
(* operations that lock it for writing wait until no handler publishes.    *)
(***************************************************************************)
EXTENDS Integers, Sequences, FiniteSets, SequencesExt

CONSTANTS
    Conns,          \* connections; each is accepted once
    Frames,         \* per connection: the frames its peer may send
    Gateway,        \* the service name that asks for snapshots
    SendChSize,     \* capacity of a channel
    MaxFrames,      \* bound on the frames sent
    MaxFaults       \* bound on peers that go or fall silent and writes that fail

VARIABLES h, ch, owed, got, done, subs, connServices, services, probes, answers,
          silent,       \* connections nothing was read from for idleTimeout
          dropped,      \* registered connections ended by the read deadline
          panicked, frames, faults

vars == <<h, ch, owed, got, done, subs, connServices, services, probes, answers, silent, dropped,
          panicked, frames, faults>>
tables == <<subs, connServices, services>>
asked == <<probes, answers>>
bounds == <<frames, faults>>

Classes == {"High", "Normal", "Low"}
NoName == "none"
Idle == [pc |-> "read", todo |-> {}, m |-> << >>, popped |-> {}]
-----------------------------------------------------------------------------
\* Topics and patterns are sequences of segments.
classifyTopic(t) ==
    IF t \in {<<"player", "actions", "ack">>, <<"player", "actions">>} THEN "High"
    ELSE IF \/ t[1] = "world" /\ Len(t) > 1
            \/ t \in {<<"player", "inventory", "update">>, <<"player", "inventory", "load">>,
                      <<"player", "joined">>, <<"meta_db", "inventory", "set">>,
                      <<"meta_db", "inventory", "get">>, <<"metadb", "player", "online">>}
    THEN "Normal" ELSE "Low"

topicMatches(p, t) ==
    LET stop == {k \in 1 .. (IF Len(p) < Len(t) THEN Len(p) ELSE Len(t)) :
                    p[k] = "#" \/ (p[k] # "+" /\ p[k] # t[k])}
    IN  IF ToSet(p) \cap {"+", "#"} = {} THEN p = t
        ELSE IF stop # {} THEN p[CHOOSE k \in stop : \A j \in stop : k <= j] = "#"
        ELSE Len(p) = Len(t) \/ (Len(p) = Len(t) + 1 /\ p[Len(p)] = "#")
-----------------------------------------------------------------------------
Publishing == {"publish", "wait", "refill", "push"}
Open(c) == c \notin done
Room(c, k) == Len(ch[c][k]) < SendChSize
Unlocked == \A c \in Conns : h[c].pc \notin Publishing
Reads(c, f) ==
    /\ ~panicked /\ h[c].pc = "read" /\ frames < MaxFrames
    /\ Open(c) /\ f \in Frames[c]
    /\ frames' = frames + 1
    /\ silent' = silent \ {c}
Goes(c, r) == h' = [h EXCEPT ![c] = r]
Loops(c) == Goes(c, Idle)

\* newClient(): the writer starts with the handler.
Accept(c) ==
    /\ ~panicked /\ h[c].pc = "none"
    /\ Goes(c, Idle)
    /\ UNCHANGED <<ch, owed, got, done, tables, asked, silent, dropped, panicked, bounds>>

Subscribe(c, f) ==
    /\ Reads(c, f) /\ f.k = "sub" /\ Unlocked
    /\ subs' = subs \cup {<<f.p, c>>}
    /\ Loops(c)
    /\ UNCHANGED <<ch, owed, got, done, connServices, services, asked, dropped, panicked, faults>>

Unsubscribe(c, f) ==
    /\ Reads(c, f) /\ f.k = "unsub" /\ Unlocked
    /\ subs' = subs \ {<<f.p, c>>}
    /\ Loops(c)
    /\ UNCHANGED <<ch, owed, got, done, connServices, services, asked, dropped, panicked, faults>>

\* The handler clears the read deadline here, and the next turn of its loop sets
\* it again.
RegisterService(c, f) ==
    /\ Reads(c, f) /\ f.k = "reg" /\ Unlocked
    /\ services' = (services \ {connServices[c]}) \cup {f.name}
    /\ connServices' = [connServices EXCEPT ![c] = f.name]
    /\ subs' = subs \cup {<<p, c>> : p \in f.topics}
    /\ Loops(c)
    /\ UNCHANGED <<ch, owed, got, done, asked, dropped, panicked, faults>>

Heartbeat(c, f) ==
    /\ Reads(c, f) /\ f.k = "beat"
    /\ Loops(c)
    /\ UNCHANGED <<ch, owed, got, done, tables, asked, dropped, panicked, faults>>
-----------------------------------------------------------------------------
(***************************************************************************)
(* Publish().  A frame is sent once for every pattern that matches.        *)
(***************************************************************************)
Publish(c, f) ==
    /\ Reads(c, f) /\ f.k = "pub"
    /\ Goes(c, [pc |-> "publish", popped |-> {}, m |-> [t |-> f.t, from |-> c, n |-> frames],
                todo |-> {s \in subs : topicMatches(s[1], f.t)}])
    /\ UNCHANGED <<ch, owed, got, done, tables, asked, dropped, panicked, faults>>

\* One select that sends on a channel, with done as the other case.  A send on a
\* closed channel panics, and the two cases are equally ready.
SelectSend(c, k, m) ==
    \/ /\ Open(c) /\ Room(c, k)
       /\ ch' = [ch EXCEPT ![c][k] = Append(@, m)]
       /\ owed' = IF k = "High" THEN [owed EXCEPT ![c] = @ \cup {m}] ELSE owed
       /\ UNCHANGED panicked
    \/ ~Open(c) /\ UNCHANGED <<ch, owed, panicked>>
    \/ ~Open(c) /\ panicked' = TRUE /\ UNCHANGED <<ch, owed>>

\* Mutant: a High frame is treated like the others when the channel is full.
highDropsOldest(k) == "refill"
WhenFull(k) == IF k = "High" THEN "wait" ELSE "refill"

Deliver(c) ==
    \E s \in h[c].todo :
        LET k == classifyTopic(h[c].m.t)
            rest == [h[c] EXCEPT !.pc = "publish", !.todo = @ \ {s}, !.popped = {}]
        IN  /\ ~panicked
            /\ h[c].popped \subseteq {s}
            /\ \/ /\ h[c].pc \in {"publish", "wait"}
                  /\ SelectSend(s[2], k, h[c].m)
                  /\ Goes(c, rest)
               \/ /\ h[c].pc = "publish" /\ Open(s[2]) /\ ~Room(s[2], k)
                  /\ Goes(c, [h[c] EXCEPT !.pc = WhenFull(k), !.popped = {s}])
                  /\ UNCHANGED <<ch, owed, panicked>>
            /\ UNCHANGED <<got, done, tables, asked, silent, dropped, bounds>>

\* The full channel gives up its oldest frame; there is no default, so an empty
\* one is waited for.  Another publisher may take the freed place: the new frame
\* is then dropped.
Refill(c) ==
    \E s \in h[c].popped :
        LET k == classifyTopic(h[c].m.t)
            q == ch[s[2]][k]
        IN  /\ ~panicked /\ h[c].pc \in {"refill", "push"}
            /\ \/ /\ h[c].pc = "refill" /\ Open(s[2]) /\ q # << >>
                  /\ ch' = [ch EXCEPT ![s[2]][k] = Tail(@)]
                  /\ Goes(c, [h[c] EXCEPT !.pc = "push"])
                  /\ UNCHANGED <<owed, panicked>>
               \/ /\ h[c].pc = "refill" /\ ~Open(s[2])
                  /\ panicked' \in BOOLEAN
                  /\ Goes(c, [h[c] EXCEPT !.pc = "publish", !.todo = @ \ {s}, !.popped = {}])
                  /\ UNCHANGED <<ch, owed>>
               \/ /\ h[c].pc = "push"
                  /\ \/ SelectSend(s[2], k, h[c].m)
                     \/ Open(s[2]) /\ ~Room(s[2], k) /\ UNCHANGED <<ch, owed, panicked>>
                  /\ Goes(c, [h[c] EXCEPT !.pc = "publish", !.todo = @ \ {s}, !.popped = {}])
            /\ UNCHANGED <<got, done, tables, asked, silent, dropped, bounds>>

Published(c) ==
    /\ ~panicked /\ h[c].pc = "publish" /\ h[c].todo = {}
    /\ Loops(c)
    /\ UNCHANGED <<ch, owed, got, done, tables, asked, silent, dropped, panicked, bounds>>
-----------------------------------------------------------------------------
(***************************************************************************)
(* The writer of c, and Close().                                           *)
(***************************************************************************)
Closing(c) == done' = done \cup {c}

\* The writer prefers High to Normal to Low, but a frame that arrives between
\* two of its selects is passed over for a lower one: any class may be next.
\* Mutant: a frame whose write failed is queued again.
writeBufRequeues(c, k) ==
    /\ ~panicked /\ Open(c) /\ ch[c][k] # << >>
    /\ \/ /\ ch' = [ch EXCEPT ![c][k] = Tail(@)]
          /\ got' = [got EXCEPT ![c] = Append(@, Head(ch[c][k]))]
          /\ UNCHANGED <<done, faults>>
       \/ /\ faults < MaxFaults /\ faults' = faults + 1
          /\ ch' = [ch EXCEPT ![c][k] = Append(Tail(@), Head(@))]
          /\ UNCHANGED <<got, done>>
    /\ UNCHANGED <<h, owed, tables, asked, silent, dropped, panicked, frames>>
writeBuf(c, k) ==
    /\ ~panicked /\ Open(c) /\ ch[c][k] # << >>
    /\ ch' = [ch EXCEPT ![c][k] = Tail(@)]
    /\ \/ /\ got' = [got EXCEPT ![c] = Append(@, Head(ch[c][k]))]
          /\ UNCHANGED <<done, faults>>
       \/ /\ faults < MaxFaults /\ faults' = faults + 1
          /\ Closing(c)
          /\ UNCHANGED got
    /\ UNCHANGED <<h, owed, tables, asked, silent, dropped, panicked, frames>>
-----------------------------------------------------------------------------
(***************************************************************************)
(* The end of a connection.                                                *)
(***************************************************************************)
\* Of all subscriptions, the service of the connection, whoever registered the
\* name last.
unsubscribeAllLocked(cs) ==
    LET names == {connServices[c] : c \in cs} \ {NoName}
    IN  /\ subs' = {s \in subs : s[2] \notin cs}
        /\ services' = services \ names
        /\ connServices' = [c \in Conns |-> IF c \in cs THEN NoName ELSE connServices[c]]

Silence(c) ==
    /\ ~panicked /\ h[c].pc = "read" /\ Open(c) /\ c \notin silent
    /\ faults < MaxFaults /\ faults' = faults + 1
    /\ silent' = silent \cup {c}
    /\ UNCHANGED <<h, ch, owed, got, done, tables, asked, dropped, panicked, frames>>

\* readFrame() fails: the socket was closed here, the peer is gone, or the
\* deadline set at the head of the loop has passed.
ReadError(c) ==
    /\ ~panicked /\ h[c].pc = "read"
    /\ \/ ~Open(c) /\ UNCHANGED <<faults, dropped>>
       \/ Open(c) /\ faults < MaxFaults /\ faults' = faults + 1 /\ UNCHANGED dropped
       \/ /\ Open(c) /\ c \in silent
          /\ dropped' = IF connServices[c] = NoName THEN dropped ELSE dropped \cup {c}
          /\ UNCHANGED faults
    /\ Goes(c, [Idle EXCEPT !.pc = "exit"])
    /\ UNCHANGED <<ch, owed, got, done, tables, asked, silent, panicked, frames>>

\* The deferred UnsubscribeAll() and Close().
UnsubscribeAll(c) ==
    /\ ~panicked /\ h[c].pc = "exit" /\ Unlocked
    /\ unsubscribeAllLocked({c})
    /\ Closing(c)
    /\ Goes(c, [Idle EXCEPT !.pc = "gone"])
    /\ UNCHANGED <<ch, owed, got, asked, silent, dropped, panicked, bounds>>

cleanupOnce ==
    LET idle == {c \in silent : connServices[c] = NoName /\ \E s \in subs : s[2] = c}
    IN  /\ ~panicked /\ Unlocked /\ idle # {}
        /\ unsubscribeAllLocked(idle)
        /\ done' = done \cup idle
        /\ UNCHANGED <<h, ch, owed, got, asked, silent, dropped, panicked, bounds>>
-----------------------------------------------------------------------------
(***************************************************************************)
(* Health probes.  probes[n]: whether nonce n is in healthProbes, who      *)
(* asked, the services asked and the answers, and how many goroutines      *)
(* sleep before finishHealthProbe(n); answers: the snapshots about to be   *)
(* sent.  (r.health only dates the last answer and is left out.)           *)
(***************************************************************************)
\* healthSnapshot() is between the two ends of its own write to the responses of
\* the probe it published: a map it writes without healthMu.
MapTorn(n) == \E c \in Conns : /\ h[c].pc = "self" /\ h[c].m = [hreq |-> n]
                               /\ probes[n].on /\ probes[n].requester = c

\* A service other than the gateway gets its own request back; the gateway's
\* starts a snapshot, which sends to the services without any lock.
handleHealthRequest(c, f) ==
    /\ Reads(c, f) /\ f.k = "hreq"
    /\ IF connServices[c] \notin {NoName, Gateway}
       THEN /\ Goes(c, [pc |-> "probe", todo |-> {c}, m |-> [hresp |-> f.nonce], popped |-> {}])
            /\ UNCHANGED probes
       ELSE LET there == {s \in Conns : connServices[s] # NoName}
            IN  /\ probes' = [probes EXCEPT ![f.nonce] =
                                 [on |-> TRUE, requester |-> c, services |-> there,
                                  responses |-> {}, timers |-> @.timers]]
                /\ Goes(c, [pc |-> "probe", todo |-> there, m |-> [hreq |-> f.nonce], popped |-> {}])
    /\ UNCHANGED <<ch, owed, got, done, tables, answers, dropped, panicked, faults>>

ProbeSend(c) ==
    /\ ~panicked /\ h[c].pc = "probe"
    /\ \E s \in h[c].todo : /\ "hreq" \in DOMAIN h[c].m => s # c
                            /\ SelectSend(s, "High", h[c].m)
                            /\ Goes(c, [h[c] EXCEPT !.todo = @ \ {s}])
    /\ UNCHANGED <<got, done, tables, asked, silent, dropped, bounds>>

\* The requester is taken to have answered.
SelfAnswer(c) ==
    /\ ~panicked /\ h[c].pc = "probe" /\ c \in h[c].todo /\ "hreq" \in DOMAIN h[c].m
    /\ Goes(c, [h[c] EXCEPT !.pc = "self", !.todo = @ \ {c}])
    /\ UNCHANGED <<ch, owed, got, done, tables, asked, silent, dropped, panicked, bounds>>
SelfAnswered(c) ==
    /\ ~panicked /\ h[c].pc = "self"
    /\ Goes(c, [h[c] EXCEPT !.pc = "probe"])
    /\ probes' = [n \in DOMAIN probes |->
                    IF h[c].m = [hreq |-> n] /\ probes[n].on /\ probes[n].requester = c
                    THEN [probes[n] EXCEPT !.responses = @ \cup {c}] ELSE probes[n]]
    /\ UNCHANGED <<ch, owed, got, done, tables, answers, silent, dropped, panicked, bounds>>

\* healthSnapshot() returns; its goroutine sleeps healthProbeTimeout.
ProbeSent(c) ==
    /\ ~panicked /\ h[c].pc = "probe" /\ h[c].todo = {}
    /\ Loops(c)
    /\ probes' = [n \in DOMAIN probes |->
                    IF h[c].m = [hreq |-> n] THEN [probes[n] EXCEPT !.timers = @ + 1] ELSE probes[n]]
    /\ UNCHANGED <<ch, owed, got, done, tables, answers, silent, dropped, panicked, bounds>>

\* Under healthMu.  Two goroutines in one map: the runtime ends the process, or one
\* of the answers may be lost.
handleHealthResponse(c, f) ==
    /\ Reads(c, f) /\ f.k = "hresp"
    /\ \/ /\ probes' = IF probes[f.nonce].on THEN [probes EXCEPT ![f.nonce].responses = @ \cup {c}] ELSE probes
          /\ UNCHANGED panicked
       \/ MapTorn(f.nonce) /\ panicked' \in BOOLEAN /\ UNCHANGED probes
    /\ Loops(c)
    /\ UNCHANGED <<ch, owed, got, done, tables, answers, dropped, faults>>

\* A row per connection asked: whether it is open and whether it answered.
finishHealthProbe(n) ==
    LET p == probes[n]
        rows == {[c |-> c, alive |-> Open(c), up |-> c \in p.responses] : c \in p.services}
    IN  /\ ~panicked /\ p.timers > 0
        /\ (panicked' = TRUE /\ MapTorn(n)) \/ UNCHANGED panicked
        /\ probes' = [probes EXCEPT ![n].timers = @ - 1, ![n].on = FALSE]
        /\ answers' = IF p.on THEN answers \cup {[to |-> p.requester, rows |-> rows]} ELSE answers
        /\ UNCHANGED <<h, ch, owed, got, done, tables, silent, dropped, bounds>>

AnswerProbe(a) ==
    /\ ~panicked
    /\ SelectSend(a.to, "High", [rows |-> a.rows])
    /\ answers' = answers \ {a}
    /\ UNCHANGED <<h, got, done, tables, probes, silent, dropped, bounds>>
-----------------------------------------------------------------------------
NoProbe == [on |-> FALSE, requester |-> NoName, services |-> {}, responses |-> {}, timers |-> 0]
FrameSet == UNION {Frames[c] : c \in Conns}

Init ==
    /\ h = [c \in Conns |-> [Idle EXCEPT !.pc = "none"]]
    /\ ch = [c \in Conns |-> [k \in Classes |-> << >>]]
    /\ got = [c \in Conns |-> << >>] /\ owed = [c \in Conns |-> {}]
    /\ done = {} /\ subs = {} /\ silent = {} /\ dropped = {}
    /\ connServices = [c \in Conns |-> NoName] /\ services = {}
    /\ probes = [n \in {f.nonce : f \in {g \in FrameSet : g.k = "hreq"}} |-> NoProbe]
    /\ answers = {} /\ panicked = FALSE /\ frames = 0 /\ faults = 0

Handles(c, f) ==
    \/ Subscribe(c, f) \/ Unsubscribe(c, f) \/ RegisterService(c, f) \/ Heartbeat(c, f)
    \/ Publish(c, f) \/ handleHealthRequest(c, f) \/ handleHealthResponse(c, f)

Runs(c) == Deliver(c) \/ Refill(c) \/ Published(c) \/ ProbeSend(c) \/ ProbeSent(c)
           \/ SelfAnswer(c) \/ SelfAnswered(c)
Writes(c) == \E k \in Classes : writeBuf(c, k)

Next ==
    \/ \E c \in Conns : Accept(c) \/ (\E f \in Frames[c] : Handles(c, f)) \/ Runs(c) \/ Writes(c)
    \/ \E c \in Conns : Silence(c) \/ ReadError(c) \/ UnsubscribeAll(c)
    \/ \E n \in DOMAIN probes : finishHealthProbe(n)
    \/ \E a \in answers : AnswerProbe(a)
    \/ cleanupOnce

Spec == Init /\ [][Next]_vars
-----------------------------------------------------------------------------
IsPub(m) == "t" \in DOMAIN m
OfClass(m, k) == IsPub(m) /\ classifyTopic(m.t) = k
\* x was not published after y by the same connection.
NotAfter(x, y) == x.from = y.from => x.n <= y.n

\* What one connection publishes in one class reaches a subscriber in the order
\* it was published, whatever is dropped, popped and pushed again by publishers
\* that meet at the same full channel: on the socket, in the channel, and from
\* the one to the other.
Lined(g, q, k) ==
    /\ \A i, j \in DOMAIN g : i < j /\ OfClass(g[i], k) /\ OfClass(g[j], k) => NotAfter(g[i], g[j])
    /\ \A i, j \in DOMAIN q : i < j /\ IsPub(q[i]) /\ IsPub(q[j]) => NotAfter(q[i], q[j])
    /\ \A i \in DOMAIN g, j \in DOMAIN q : OfClass(g[i], k) /\ IsPub(q[j]) => NotAfter(g[i], q[j])
InOrder == \A c \in Conns, k \in Classes : Lined(got[c], ch[c][k], k)

\* A High frame that a channel has accepted, be it an action, a health request
\* or a snapshot, is never discarded for a later one: as long as the connection
\* is open it is in the channel or on the socket.
HighKept == \A c \in Conns : Open(c) => owed[c] \subseteq ToSet(got[c]) \cup ToSet(ch[c]["High"])

\* What one connection publishes in one class arrives in order, and no frame of
\* the High class that a channel accepted is dropped for a later one (router.go:
\* Publish, writer).
RouterDelivers == InOrder /\ HighKept

\* A registered service may stay silent: "the idle cleanup must NOT kill it".
SilentServiceStays == dropped = {}
=============================================================================
