----------------------------- MODULE ClientLink ------------------------------
(***************************************************************************)
(* NetClient: the two connections of a game client. Their poll threads     *)
(* queue what they read and ask for a reconnect when a connection closes;  *)
(* the game thread drains the queues once a frame and reconnects there and *)
(* then. Connections are numbered as they are made.                        *)
(***************************************************************************)
EXTENDS Integers, Sequences, FiniteSets, SequencesExt

CONSTANTS MaxAttempts,                    \* max_reconnect_attempts_
    MaxMessages, MaxLost, MaxConns        \* bounds of the runs

Chans == {"ctrl", "bulk"}
VARIABLES
    conn,       \* ctrl_conn_ and bulk_conn_: the number of each, 0 for none
    alive,      \* the numbers of the connections the server has not closed
    closing,    \* connections whose on_closed has yet to run
    connected,  \* connected_ctrl_ and connected_bulk_
    reconnecting, requested,  \* reconnecting_ and reconnect_requested_
    queue,      \* ctrl_queue_ and bulk_queue_: from which connection each message is
    game,       \* where the game thread is
    attempt, conns, \* the attempts of this reconnect, and the connections made
    handled,    \* of each channel the connection of the last message handled
    asks,       \* the connections something was sent on
    used
netFlags == <<connected, reconnecting, requested>>
linkVars == <<conn, alive, closing, netFlags, queue, game, attempt, conns, handled, asks, used>>

Init ==
    /\ conn = [c \in Chans |-> IF c = "ctrl" THEN 1 ELSE 2] /\ conns = 2 /\ alive = {1, 2} /\ closing = {}
    /\ connected = [c \in Chans |-> TRUE] /\ reconnecting = FALSE /\ requested = FALSE
    /\ queue = [c \in Chans |-> <<>>] /\ game = "run" /\ attempt = 0
    /\ handled = [c \in Chans |-> 0] /\ asks = {} /\ used = [messages |-> 0, lost |-> 0]

-----------------------------------------------------------------------------
(* The connections' poll threads.                                          *)

OnMessageRead(c) ==
    /\ conn[c] \in alive /\ used.messages < MaxMessages
    /\ used' = [used EXCEPT !.messages = @ + 1]
    /\ queue' = [queue EXCEPT ![c] = Append(@, conn[c])]
    /\ UNCHANGED <<conn, alive, closing, netFlags, game, attempt, conns, handled, asks>>
ServerCloses(n) ==
    /\ n \in alive /\ used.lost < MaxLost /\ used' = [used EXCEPT !.lost = @ + 1]
    /\ alive' = alive \ {n} /\ closing' = closing \union {n}
    /\ UNCHANGED <<conn, netFlags, queue, game, attempt, conns, handled, asks>>
\* on_closed: the flag, and request_reconnect unless one is under way.
request_reconnect ==
    /\ reconnecting' = TRUE /\ requested' = (requested \/ ~reconnecting)
OnClosed(c) ==
    /\ conn[c] \in closing /\ closing' = closing \ {conn[c]}
    /\ connected' = [connected EXCEPT ![c] = FALSE] /\ request_reconnect
    /\ UNCHANGED <<conn, alive, queue, game, attempt, conns, handled, asks, used>>

-----------------------------------------------------------------------------
(* The game thread.                                                        *)

Drained(c) == IF queue[c] = <<>> THEN handled[c] ELSE Last(queue[c])
Poll ==
    /\ game = "run"
    /\ requested \/ \E c \in Chans : queue[c] # <<>>
    /\ handled' = [c \in Chans |-> Drained(c)] /\ queue' = [c \in Chans |-> <<>>]
    /\ requested' = FALSE /\ game' = IF requested THEN "reset" ELSE "run"
    /\ UNCHANGED <<conn, alive, closing, connected, reconnecting, attempt, conns, asks, used>>
\* A send of any kind looks whether the ctrl connection is up.
CtrlUp == conn["ctrl"] # 0 /\ connected["ctrl"]
Send ==
    /\ game = "run" /\ CtrlUp /\ conn["ctrl"] \notin asks
    /\ asks' = asks \union {conn["ctrl"]}
    /\ UNCHANGED <<conn, alive, closing, netFlags, queue, game, attempt, conns, handled, used>>

\* do_reconnect: the old connections go, and their threads with them, ...
Destroyed(c) == conn' = [conn EXCEPT ![c] = 0]
DropCtrl ==
    /\ game = "reset" /\ game' = "resetBulk" /\ Destroyed("ctrl")
    /\ alive' = alive \ {conn["ctrl"]} /\ closing' = closing \ {conn["ctrl"]}
    /\ UNCHANGED <<netFlags, queue, attempt, conns, handled, asks, used>>
DropBulk ==
    /\ game = "resetBulk" /\ game' = "clear" /\ Destroyed("bulk")
    /\ alive' = alive \ {conn["bulk"]} /\ closing' = closing \ {conn["bulk"]}
    /\ UNCHANGED <<netFlags, queue, attempt, conns, handled, asks, used>>
clearsCtrl ==
    /\ game = "clear" /\ game' = "ctrl" /\ attempt' = 0
    /\ connected' = [c \in Chans |-> FALSE] /\ queue' = [queue EXCEPT !["ctrl"] = <<>>]
    /\ UNCHANGED <<conn, alive, closing, reconnecting, requested, conns, handled, asks, used>>
\* ... and with them what they left in the queues.
ClearQueues ==
    /\ game = "clear" /\ game' = "ctrl" /\ attempt' = 0
    /\ connected' = [c \in Chans |-> FALSE] /\ queue' = [c \in Chans |-> <<>>]
    /\ UNCHANGED <<conn, alive, closing, reconnecting, requested, conns, handled, asks, used>>
\* A failed attempt is followed by another, or by none; then the flags say so.
Failed == game' = (IF attempt + 1 < MaxAttempts THEN "ctrl" ELSE "giveUp") /\ attempt' = attempt + 1
start_connection(c) ==
    /\ conns < MaxConns /\ conns' = conns + 1 /\ conn' = [conn EXCEPT ![c] = conns + 1]
    /\ alive' = alive \union {conns + 1} /\ connected' = [connected EXCEPT ![c] = TRUE]
ConnectCtrl ==
    /\ game = "ctrl"
    /\ \/ start_connection("ctrl") /\ game' = "bulk" /\ UNCHANGED attempt
       \/ Failed /\ UNCHANGED <<conn, alive, connected, conns>>
    /\ UNCHANGED <<closing, reconnecting, requested, queue, handled, asks, used>>
ConnectBulk ==
    /\ game = "bulk"
    /\ \/ /\ start_connection("bulk") /\ game' = "done" /\ UNCHANGED <<attempt, closing>>
       \/ /\ Failed /\ Destroyed("ctrl") /\ connected' = [connected EXCEPT !["ctrl"] = FALSE]
          /\ alive' = alive \ {conn["ctrl"]} /\ closing' = closing \ {conn["ctrl"]} /\ UNCHANGED conns
    /\ UNCHANGED <<reconnecting, requested, queue, handled, asks, used>>
Reconnected ==
    /\ game = "done" /\ game' = "run" /\ reconnecting' = FALSE
    /\ UNCHANGED <<conn, alive, closing, connected, requested, queue, attempt, conns, handled, asks, used>>
keepsTheFlag ==
    /\ game = "giveUp" /\ game' = "run" /\ connected' = [c \in Chans |-> FALSE]
    /\ UNCHANGED <<conn, alive, closing, reconnecting, requested, queue, attempt, conns, handled, asks, used>>
GiveUp ==
    /\ game = "giveUp" /\ game' = "run" /\ reconnecting' = FALSE
    /\ connected' = [c \in Chans |-> FALSE]
    /\ UNCHANGED <<conn, alive, closing, requested, queue, attempt, conns, handled, asks, used>>
Reconnect == DropCtrl \/ DropBulk \/ ClearQueues \/ ConnectCtrl \/ ConnectBulk \/ Reconnected \/ GiveUp

Next ==
    \/ \E c \in Chans : OnMessageRead(c) \/ OnClosed(c)
    \/ \E n \in alive : ServerCloses(n)
    \/ Poll \/ Send \/ Reconnect
\* The game thread frames on and its calls return; a closed connection is noticed.
Spec ==
    /\ Init /\ [][Next]_linkVars
    /\ WF_linkVars(Poll) /\ WF_linkVars(Reconnect) /\ \A c \in Chans : WF_linkVars(OnClosed(c))

-----------------------------------------------------------------------------
\* While the game runs, what waits on the bulk connection was read from the
\* connection there is: no chunk or block update of a lost one outlives it,
\* for World::ClearPendingRequests has forgotten its requests (do_reconnect
\* joins the poll threads before it clears the queues).
BulkIsCurrent == game = "run" /\ conn["bulk"] # 0 => Range(queue["bulk"]) \subseteq {conn["bulk"]}
\* ... and on the ctrl connection.
CtrlIsCurrent == game = "run" /\ conn["ctrl"] # 0 => Range(queue["ctrl"]) \subseteq {conn["ctrl"]}
\* A reconnect ends, with both connections made or with the flags down, and
\* the next loss can ask for one again (reconnecting_ is reset on both ways).
ReconnectEnds == reconnecting ~> ~reconnecting
\* A connection that is lost is made again, or was given up.
LostIsRemade == conn["ctrl"] # 0 /\ ~connected["ctrl"] /\ game = "run" ~> reconnecting
=============================================================================
