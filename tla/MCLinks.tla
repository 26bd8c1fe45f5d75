------------------------------- MODULE MCLinks -------------------------------
(*****************************************************************************)
(* Those who wait for an answer: the requests for chunks that are being      *)
(* generated, the world a game client loads, and a service whose router      *)
(* dies, each with its own variables, checked in one run: turn says which of *)
(* them takes the steps of a behaviour.                                      *)
(*****************************************************************************)
EXTENDS ChunkRequests, ClientWorld

VARIABLES turn,
    c_up, c_sock, c_connected, c_stopped, c_reading, c_tasks, c_posted, c_queue, c_writing,
    c_topics, c_timer, c_subs, c_inbox, c_heard, c_used

cltVars == <<c_up, c_sock, c_connected, c_stopped, c_reading, c_tasks, c_posted, c_queue,
             c_writing, c_topics, c_timer, c_subs, c_inbox, c_heard, c_used>>
allVars == <<turn, vars, worldVars, cltVars>>

\* The constants of the service.
CltTopics == {"get", "set"}
CltEarly == {"get"}

Clt == INSTANCE RouterClient WITH up <- c_up, sock <- c_sock, connected <- c_connected,
    stopped <- c_stopped, reading <- c_reading, tasks <- c_tasks, posted <- c_posted,
    queue <- c_queue, writing <- c_writing, topics <- c_topics, timer <- c_timer,
    subs <- c_subs, inbox <- c_inbox, heard <- c_heard, used <- c_used, Topics <- CltTopics,
    Early <- CltEarly, MaxPublish <- 1, MaxFaults <- 2

MCInit ==
    /\ turn \in {"requests", "world", "router"}
    /\ Init /\ WorldInit /\ Clt!Init

OfWld(A) == turn = "world" /\ A
OfClt(A) == turn = "router" /\ A
MCNext ==
    \/ turn = "requests" /\ Next /\ UNCHANGED <<turn, worldVars, cltVars>>
    \/ turn = "world" /\ WorldNext /\ UNCHANGED <<turn, vars, cltVars>>
    \/ turn = "router" /\ Clt!Next /\ UNCHANGED <<turn, vars, worldVars>>
MCSpec ==
    /\ MCInit /\ [][MCNext]_allVars
    /\ \A r \in Req : WF_vars(turn = "requests" /\ IoStep(r))
    /\ \A w \in Worker : WF_vars(turn = "requests" /\ WorkerStep(w))
    /\ \A e \in Encoder : WF_vars(turn = "requests" /\ EncoderStep(e))
    /\ WF_worldVars(OfWld(RunLoadPass))
    /\ WF_worldVars(OfWld(RemoveChunk \/ EvictChunk))
    /\ WF_worldVars(OfWld(StartUpdate \/ SetUpdate \/ StoreChunk \/ OnChunkData))
    /\ WF_worldVars(OfWld(PollBulk))
    /\ WF_worldVars(OfWld(PollAck \/ PollRejected \/ OnBlockAck))
    /\ WF_worldVars(OfWld(OnReconnect))
    /\ WF_worldVars(OfWld(ClearExpiredBlockActions))
    /\ WF_worldVars(OfWld(\E k \in clicked : ServerBreaks(k) \/ ServerAcks(k)))
    /\ \A c \in Chunks : WF_worldVars(OfWld(ServerAnswers(c)))
    /\ WF_cltVars(OfClt(Clt!Connect)) /\ WF_cltVars(OfClt(Clt!EnqueueWrite))
    /\ WF_cltVars(OfClt(Clt!WriteDone)) /\ WF_cltVars(OfClt(Clt!RunRetry))
    /\ WF_cltVars(OfClt(Clt!ConnectDone)) /\ WF_cltVars(OfClt(Clt!ReadFails))
    /\ WF_cltVars(OfClt(Clt!onReadFrame)) /\ WF_cltVars(OfClt(Clt!RouterStarts))

\* When the player stands still, what is near is loaded in the end, whatever
\* was lost with a link (World::TryRequestChunk, World::ClearPendingRequests).
NearIsLoaded == turn = "world" => NearLoads
\* However often the router dies, the service comes back to it and the router
\* knows its topics again (MessageRouterClient.cpp: onDisconnect, retryConnect,
\* onConnect).
ComesBack == turn = "router" => Clt!ComesBack
==============================================================================
