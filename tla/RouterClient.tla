---------------------------- MODULE RouterClient ----------------------------
(***************************************************************************)
(* The asio router client of EntityStateStore, PipeNetwork and             *)
(* RecipeManager (entity_state_store/Client/MessageRouterClient.cpp; the   *)
(* three copies differ in their logging): connect and reconnect, register, *)
(* subscribe, publish, the heartbeat, the reading loop and the queue that  *)
(* keeps one write in the socket at a time.                                *)
(*                                                                         *)
(* Every handler runs in the service's one io_context loop, so an action   *)
(* is a handler: a posted task, a timer, or the completion of a connect, a *)
(* read or a write.  Closing the socket aborts the operations in it, whose *)
(* handlers still run later.  A frame travels whole; the router's end of   *)
(* the connection is external: it may die and come back, and remembers the *)
(* topics of the frames it got over the present connection.                *)
(***************************************************************************)
EXTENDS Naturals, Sequences

CONSTANTS
    Topics,         \* what the service subscribes to
    Early,          \* of these, the ones subscribed before Connect() returns
    MaxPublish,     \* frames the service publishes and the router sends
    MaxFaults       \* deaths of the router or of a connection

VARIABLES
    up,             \* the router listens
    sock,           \* socket_: "closed", "connecting", "open", "broken"
    connected,      \* connected_
    stopped,        \* stopped_
    reading,        \* the read in the socket: "none", "pending", "aborted"
    tasks,          \* doConnect() tasks retryConnect() posted
    posted,         \* frames EnqueueWrite() posted to the strand
    queue,          \* write_queue_
    writing,        \* the write in the socket: a frame and whether aborted
    topics,         \* subscribed_topics_
    timer,          \* heartbeat_timer_ is armed
    subs,           \* topics the router has for this connection
    inbox,          \* frames the router sent over this connection
    heard,          \* messages handed to on_message_
    used            \* publications and faults so far

vars == <<up, sock, connected, stopped, reading, tasks, posted, queue, writing, topics, timer, subs,
          inbox, heard, used>>
netVars == <<up, subs, inbox, heard, used>>

Idle == [f |-> "none"]
Frame(kind, ts) == [f |-> kind, ts |-> ts]
IsOpen == sock # "closed"

Init ==
    /\ up \in BOOLEAN /\ sock = "closed" /\ connected = FALSE /\ stopped = FALSE /\ reading = "none"
    /\ tasks = 0 /\ posted = << >> /\ queue = << >> /\ writing = Idle
    /\ topics = Early /\ timer = FALSE /\ subs = {} /\ inbox = << >> /\ heard = 0
    /\ used = [pub |-> 0, sent |-> 0, faults |-> 0]

\* What is in the socket when it is closed ends with operation_aborted.
AbortRead == reading' = IF reading = "pending" THEN "aborted" ELSE reading
Aborted(w) == IF w = Idle THEN w ELSE [f |-> "aborted"]

\* writeFrame(): nothing goes into a closed socket.
writeFrame(s, fs) == posted' = IF s = "closed" THEN posted ELSE posted \o fs

\* DoWrite() of the queue q while w is in the socket.
DoWrite(q, w) ==
    IF q = << >> \/ w # Idle THEN queue' = q /\ writing' = w
    ELSE IF ~IsOpen THEN queue' = << >> /\ writing' = w
    ELSE queue' = Tail(q) /\ writing' = Head(q)

\* The lambda EnqueueWrite() posted.
EnqueueWrite ==
    /\ posted # << >>
    /\ posted' = Tail(posted)
    /\ IF queue = << >> THEN DoWrite(Append(queue, Head(posted)), writing)
       ELSE queue' = Append(queue, Head(posted)) /\ UNCHANGED writing
    /\ UNCHANGED <<sock, connected, stopped, reading, tasks, topics, timer, netVars>>

\* Operators of this shape take what the router does with a frame it got.
TopicsAfter(f) ==
    CASE f.f = "register" -> subs \cup f.ts
      [] f.f = "subscribe" -> subs \cup f.ts
      [] OTHER -> subs

\* The completion of the write: whatever its outcome, the next one starts.
stopsAfterError(ok) == IF ok THEN DoWrite(queue, Idle) ELSE writing' = Idle /\ UNCHANGED queue
NextWrite(ok) == DoWrite(queue, Idle)
WriteDone ==
    /\ writing # Idle
    /\ \/ sock = "open" /\ writing.f # "aborted" /\ subs' = TopicsAfter(writing) /\ NextWrite(TRUE)
       \/ (sock = "broken" \/ writing.f = "aborted") /\ UNCHANGED subs /\ NextWrite(FALSE)
    /\ UNCHANGED <<up, sock, connected, stopped, reading, tasks, posted, topics, timer, inbox, heard,
                   used>>

\* Connect() of main(), then the tasks of retryConnect(): the old socket is
\* closed, and async_connect() opens a new one at once.
doConnect ==
    /\ sock' = "connecting" /\ AbortRead /\ writing' = Aborted(writing)
    /\ subs' = {} /\ inbox' = << >>
Connect ==
    /\ sock = "closed" /\ ~connected /\ ~stopped /\ tasks = 0 /\ used.pub = 0 /\ reading = "none"
    /\ doConnect
    /\ UNCHANGED <<up, connected, stopped, tasks, posted, queue, topics, timer, heard, used>>
RunRetry ==
    /\ tasks > 0 /\ tasks' = tasks - 1
    /\ doConnect
    /\ UNCHANGED <<up, connected, stopped, posted, queue, topics, timer, heard, used>>

\* retryConnect(), given whether connected_ is set by now.
retryConnect(c) == tasks' = IF c THEN tasks ELSE tasks + 1

\* onConnect(): register with every topic subscribed so far, start the
\* heartbeat and the reading.
registerClient == Frame("register", topics)
onConnect ==
    /\ connected' = TRUE
    /\ IF stopped THEN UNCHANGED <<posted, timer>>
       ELSE writeFrame("open", <<registerClient>>) /\ timer' = TRUE
    /\ reading' = IF reading = "none" THEN "pending" ELSE reading
ConnectDone ==
    /\ sock = "connecting"
    /\ \/ up /\ sock' = "open" /\ onConnect /\ UNCHANGED tasks
       \/ ~up /\ sock' = "broken" /\ retryConnect(connected) /\ UNCHANGED <<connected, posted, timer, reading>>
    /\ UNCHANGED <<stopped, queue, writing, topics, netVars>>

\* A read failed: the peer is gone, or the socket was closed under it.
retriesFirst == retryConnect(connected) /\ connected' = FALSE
onDisconnect == connected' = FALSE /\ retryConnect(FALSE)
ReadFails ==
    /\ reading = "aborted" \/ (reading = "pending" /\ sock = "broken")
    /\ reading' = "none"
    /\ IF stopped THEN UNCHANGED <<connected, tasks>> ELSE onDisconnect
    /\ UNCHANGED <<sock, stopped, posted, queue, writing, topics, timer, netVars>>

\* readFrame() and onReadFrame(): a health request is answered, a message is
\* handed on, and the next read starts.
onReadFrame ==
    /\ reading = "pending" /\ sock = "open" /\ inbox # << >>
    /\ inbox' = Tail(inbox)
    /\ heard' = heard + (IF Head(inbox) = "publish" THEN 1 ELSE 0)
    /\ IF Head(inbox) = "health" THEN writeFrame(sock, <<Frame("health", {})>>) ELSE UNCHANGED posted
    /\ reading' = IF stopped THEN "none" ELSE "pending"
    /\ UNCHANGED <<up, sock, connected, stopped, tasks, queue, writing, topics, timer, subs, used>>

Subscribe(t) ==
    /\ t \notin topics /\ topics' = topics \cup {t}
    /\ IF connected THEN writeFrame(sock, <<Frame("subscribe", {t})>>) ELSE UNCHANGED posted
    /\ UNCHANGED <<sock, connected, stopped, reading, tasks, queue, writing, timer, netVars>>
Publish ==
    /\ connected /\ used.pub < MaxPublish
    /\ used' = [used EXCEPT !.pub = @ + 1]
    /\ writeFrame(sock, <<Frame("publish", {})>>)
    /\ UNCHANGED <<up, sock, connected, stopped, reading, tasks, queue, writing, topics, timer, subs,
                   inbox, heard>>
\* One heartbeat at a time waits in the queue (the bound).
doHeartbeat ==
    /\ timer /\ ~stopped /\ Len(posted) + Len(queue) = 0
    /\ writeFrame(sock, <<Frame("beat", {})>>)
    /\ UNCHANGED <<sock, connected, stopped, reading, tasks, queue, writing, topics, timer, netVars>>
Stop ==
    /\ ~stopped /\ stopped' = TRUE /\ timer' = FALSE
    /\ IF connected THEN sock' = "closed" /\ AbortRead /\ writing' = Aborted(writing)
       ELSE UNCHANGED <<sock, reading, writing>>
    /\ UNCHANGED <<connected, tasks, posted, queue, topics, netVars>>

(* The router (external).                                                  *)
RouterSends(m) ==
    /\ sock = "open" /\ used.sent < MaxPublish
    /\ used' = [used EXCEPT !.sent = @ + 1]
    /\ inbox' = Append(inbox, m)
    /\ UNCHANGED <<up, sock, connected, stopped, reading, tasks, posted, queue, writing, topics, timer,
                   subs, heard>>
ConnectionLost ==
    /\ sock = "open" /\ used.faults < MaxFaults
    /\ used' = [used EXCEPT !.faults = @ + 1]
    /\ sock' = "broken" /\ up' \in BOOLEAN
    /\ UNCHANGED <<connected, stopped, reading, tasks, posted, queue, writing, topics, timer, subs,
                   inbox, heard>>
RouterStarts ==
    /\ ~up /\ up' = TRUE
    /\ UNCHANGED <<sock, connected, stopped, reading, tasks, posted, queue, writing, topics, timer, subs,
                   inbox, heard, used>>

Loop == EnqueueWrite \/ WriteDone \/ RunRetry \/ ConnectDone \/ ReadFails \/ onReadFrame
Next ==
    \/ Connect \/ Loop \/ Publish \/ doHeartbeat \/ Stop
    \/ \E t \in Topics : Subscribe(t)
    \/ \E m \in {"publish", "health"} : RouterSends(m)
    \/ ConnectionLost \/ RouterStarts

\* The loop runs what is ready, and a router that died is started again.
Fairness == /\ WF_vars(Connect) /\ WF_vars(EnqueueWrite) /\ WF_vars(WriteDone) /\ WF_vars(RunRetry)
            /\ WF_vars(ConnectDone) /\ WF_vars(ReadFails) /\ WF_vars(onReadFrame) /\ WF_vars(RouterStarts)
Spec == Init /\ [][Next]_vars /\ Fairness

(* Properties                                                              *)

\* One operation of a kind is in the socket, and the queue moves on whatever a
\* write came to: frames never wait behind an idle socket (DoWrite()).
WritesGoOn == queue # << >> => writing # Idle

\* However often the router dies, the service comes back to it and the router
\* knows every topic of it again (onDisconnect(), retryConnect(), onConnect()).
ComesBack == <>[](stopped \/ (connected /\ topics \subseteq subs))
=============================================================================
