---------------------------- MODULE SignalClient ----------------------------
(***************************************************************************)
(* The test program of src/src/signallerTestClient, composed with the      *)
(* signalling server (module Signaller) over TCP.  One process runs all    *)
(* clients on one libre main loop; clients are launched in pairs that name *)
(* the same channel, and each walks through CLIENT_TIMER_DELAY steps:      *)
(* name the channel, send candidates, close.                               *)
(*                                                                         *)
(* A connection is a pair of message queues and a link state.  TCP may cut *)
(* a message once, and what is left arrives as a chunk of its own.  A      *)
(* client's recv_handler loops over joined messages, which is the same as  *)
(* one call per message; the server's takes a chunk for one message.       *)
(* Connects may fail, and either program may be stopped.                   *)
(*                                                                         *)
(* Once a connection has been released twice nothing more is modelled.     *)
(***************************************************************************)
EXTENDS Naturals, Sequences, FiniteSets

CONSTANTS
    Pairs,        \* pairs of clients, and the name of the channel they share
    Cut,          \* the name a cut ChannelID message has: all names begin alike
    ClientTicks,  \* CLIENT_TIMER_DELAY in ticks
    IdleTicks     \* SERVER_PEER_IDLE_TIME in ticks

ASSUME ClientAssumption ==
    /\ ClientTicks \in Nat \ {0}
    /\ IsFiniteSet(Pairs)
    /\ Cut \notin Pairs

VARIABLES
    peerState, peerChannel, connected, idle, chanState, chanPeers, running,
    fault, ready, forwarded, announced,   \* the server's, see Signaller
    conn,         \* SignalClient::tcpConn
    clientState,  \* SignalClient::state
    rcvd,         \* bCandidatesRcvd
    sent,         \* bCandidatesSent
    timer,        \* SignalClient::reTimer: ticks since tmr_start, or Never
    completed,    \* g_clientsCompleted
    looping,      \* the client program's main loop runs
    link,         \* the connection as the server's TCP layer has it
    toServer,     \* messages under way to the server
    toClient,     \* messages under way to the client
    sendFailed,   \* history: tcp_send of the candidates failed
    got,          \* history: whose candidates, whole or cut, the client has read
    corrupt       \* tcpConn was released twice

serverVars == <<peerState, peerChannel, connected, idle, chanState, chanPeers,
                running, fault, ready, forwarded, announced>>
clientVars == <<conn, clientState, rcvd, sent, timer, completed, looping,
                sendFailed, got, corrupt>>
netVars == <<link, toServer, toClient>>
vars == <<serverVars, clientVars, netVars>>

Clients == Pairs \X {0, 1}
Partner(c) == <<c[1], 1 - c[2]>>
Count == Cardinality(Clients)     \* CLIENT_COUNT
Never == ClientTicks + 1

S == INSTANCE Signaller WITH Peers <- Clients, Channels <- Pairs \cup {Cut}

\* A chunk remembers the client whose message it is, or is the answer to.
Whole(id, c) == [id |-> id, from |-> c, part |-> "whole"]
Chunks == [id : {"ChannelID", "ChannelReady", "PeerCandidates"}, from : Clients,
           part : {"whole", "head", "tail"}]

-----------------------------------------------------------------------------
Init ==
    /\ S!Init
    /\ conn = [c \in Clients |-> "none"]
    /\ clientState = [c \in Clients |-> "None"]
    /\ rcvd = [c \in Clients |-> FALSE]
    /\ sent = [c \in Clients |-> FALSE]
    /\ timer = [c \in Clients |-> Never]
    /\ completed = 0
    /\ looping = TRUE
    /\ link = [c \in Clients |-> "none"]
    /\ toServer = [c \in Clients |-> <<>>]
    /\ toClient = [c \in Clients |-> <<>>]
    /\ sendFailed = [c \in Clients |-> FALSE]
    /\ got = [c \in Clients |-> {}]
    /\ corrupt = FALSE

\* Mutated: the loop ends only after one client more than there are.
CountClientsLate(n) ==
    /\ completed' = completed + n
    /\ looping' = (looping /\ completed' <= Count)

\* g_clientsCompleted is increased by n; the last client ends the main loop.
CountClients(n) ==
    /\ completed' = completed + n
    /\ looping' = (looping /\ completed' < Count)

\* launch_timer_handler: one pair.  A tcp_connect that fails counts the
\* client as completed.
LaunchPair(p) ==
    /\ looping /\ ~corrupt
    /\ \A c \in Clients : c[1] = p => conn[c] = "none"
    /\ \E failing \in SUBSET {c \in Clients : c[1] = p} :
        /\ conn' = [c \in Clients |->
                IF c \in failing THEN "failed" ELSE IF c[1] = p THEN "connecting" ELSE conn[c]]
        /\ link' = [c \in Clients |->
                IF c[1] # p \/ c \in failing THEN link[c]
                ELSE IF running THEN "syn" ELSE "refused"]
        /\ CountClients(Cardinality(failing))
    /\ UNCHANGED <<serverVars, clientState, rcvd, sent, timer, toServer, toClient,
                   sendFailed, got, corrupt>>

\* Mutated: the timer of a closed client goes on.
CloseClientKeepsTimer(c) ==
    /\ UNCHANGED timer
    /\ conn' = [conn EXCEPT ![c] = "closed"]
    /\ corrupt' = (conn[c] = "closed")
    /\ CountClients(1)

\* close_handler: tcpConn is released and keeps its value, so that a second
\* call releases it again.
CloseClient(c) ==
    /\ timer' = [timer EXCEPT ![c] = Never]
    /\ conn' = [conn EXCEPT ![c] = "closed"]
    /\ corrupt' = (conn[c] = "closed")
    /\ CountClients(1)

\* establish_handler
ClientEstablish(c) ==
    /\ looping /\ ~corrupt
    /\ conn[c] = "connecting" /\ link[c] # "refused"
    /\ conn' = [conn EXCEPT ![c] = "open"]
    /\ clientState' = [clientState EXCEPT ![c] = "Connected"]
    /\ timer' = [timer EXCEPT ![c] = 0]
    /\ UNCHANGED <<serverVars, netVars, rcvd, sent, completed, looping, sendFailed, got,
                   corrupt>>

\* close_handler called by the TCP layer: refused, or closed by the server
\* after its last message, or reset because the server left data unread.
ClientClosed(c) ==
    /\ looping /\ ~corrupt
    /\ conn[c] \in {"connecting", "open"}
    /\ link[c] \in {"refused", "fin"}
    /\ toClient[c] = <<>> \/ toServer[c] # <<>>
    /\ CloseClient(c)
    /\ UNCHANGED <<serverVars, netVars, clientState, rcvd, sent, sendFailed, got>>

\* A message of the client enters the stream; after the server has closed, it
\* is lost.
ToServer(c, id) ==
    toServer' = [toServer EXCEPT ![c] =
        IF link[c] \in {"syn", "accepted"} THEN Append(@, Whole(id, c)) ELSE @]

\* timer_handler, Connected: the client names its channel; its timer is not
\* started again.  (No timer runs in state None.)
TimerConnected(c) ==
    /\ looping /\ ~corrupt
    /\ timer[c] = ClientTicks /\ clientState[c] = "Connected"
    /\ ToServer(c, "ChannelID")
    /\ timer' = [timer EXCEPT ![c] = Never]
    /\ UNCHANGED <<serverVars, conn, clientState, rcvd, sent, completed, looping,
                   sendFailed, got, corrupt, link, toClient>>

\* Mutated: having sent or having received is enough.
AfterCandidatesEither(c, s, r) == IF s \/ r THEN "Completed" ELSE clientState[c]

\* The state of a client that has sent (s) and received (r) candidates.
AfterCandidates(c, s, r) == IF s /\ r THEN "Completed" ELSE clientState[c]

\* timer_handler, Exchanging: the candidates are sent once, the timer is
\* started again.
TimerExchanging(c) ==
    /\ looping /\ ~corrupt
    /\ timer[c] = ClientTicks /\ clientState[c] = "Exchanging"
    /\ IF sent[c] THEN UNCHANGED toServer ELSE ToServer(c, "PeerCandidates")
    /\ sent' = [sent EXCEPT ![c] = TRUE]
    /\ clientState' = [clientState EXCEPT ![c] = AfterCandidates(c, TRUE, rcvd[c])]
    /\ timer' = [timer EXCEPT ![c] = 0]
    /\ UNCHANGED <<serverVars, conn, rcvd, completed, looping, sendFailed, got, corrupt,
                   link, toClient>>

\* The same when tcp_send fails, as it may once the server has closed:
\* close_handler is called and the rest of timer_handler runs all the same,
\* tmr_start included; bCandidatesSent says that it was tried, not that it
\* succeeded.
TimerSendFails(c) ==
    /\ looping /\ ~corrupt
    /\ timer[c] = ClientTicks /\ clientState[c] = "Exchanging" /\ ~sent[c]
    /\ link[c] = "fin"
    /\ sendFailed' = [sendFailed EXCEPT ![c] = TRUE]
    /\ conn' = [conn EXCEPT ![c] = "closed"]
    /\ CountClients(1)
    /\ sent' = [sent EXCEPT ![c] = TRUE]
    /\ clientState' = [clientState EXCEPT ![c] = AfterCandidates(c, TRUE, rcvd[c])]
    /\ timer' = [timer EXCEPT ![c] = 0]
    /\ UNCHANGED <<serverVars, netVars, rcvd, got, corrupt>>

\* timer_handler, Completed
TimerCompleted(c) ==
    /\ looping /\ ~corrupt
    /\ timer[c] = ClientTicks /\ clientState[c] = "Completed"
    /\ CloseClient(c)
    /\ UNCHANGED <<serverVars, netVars, clientState, rcvd, sent, sendFailed, got>>

\* What TCP hands over of the first message x of a queue, and what it keeps.
Deliveries(x) ==
    {[chunk |-> x, rest |-> <<>>]} \cup
        IF x.part = "whole"
        THEN {[chunk |-> [x EXCEPT !.part = "head"], rest |-> <<[x EXCEPT !.part = "tail"]>>]}
        ELSE {}

\* recv_handler for one chunk.  The id is in the head, and candidates that are
\* cut off are read as zeros and count as received; the bytes of a tail
\* are read as messages, and one of them has the id of Complete, which
\* restarts the timer.
ClientRecv(c) ==
    /\ looping /\ ~corrupt
    /\ conn[c] = "open" /\ toClient[c] # <<>>
    /\ \E d \in Deliveries(Head(toClient[c])) :
        /\ toClient' = [toClient EXCEPT ![c] = d.rest \o Tail(@)]
        /\ \/ /\ d.chunk.id = "ChannelReady" /\ d.chunk.part # "tail"
              /\ clientState' = [clientState EXCEPT ![c] = "Exchanging"]
              /\ timer' = [timer EXCEPT ![c] = 0]
              /\ UNCHANGED <<rcvd, got>>
           \/ /\ d.chunk.id = "PeerCandidates" /\ d.chunk.part # "tail"
              /\ rcvd' = [rcvd EXCEPT ![c] = TRUE]
              /\ got' = [got EXCEPT ![c] = @ \cup {d.chunk.from}]
              /\ clientState' = [clientState EXCEPT ![c] = AfterCandidates(c, sent[c], TRUE)]
              /\ timer' = [timer EXCEPT ![c] = 0]
           \/ /\ d.chunk.part = "tail"
              /\ timer' \in {timer} \cup
                    IF d.chunk.id = "PeerCandidates" THEN {[timer EXCEPT ![c] = 0]} ELSE {}
              /\ UNCHANGED <<clientState, rcvd, got>>
    /\ UNCHANGED <<serverVars, conn, sent, completed, looping, sendFailed, corrupt, link,
                   toServer>>

\* signal_handler of the test program.
ClientSignal ==
    /\ looping /\ ~corrupt
    /\ looping' = FALSE
    /\ UNCHANGED <<serverVars, conn, clientState, rcvd, sent, timer, completed,
                   sendFailed, got, corrupt, netVars>>

-----------------------------------------------------------------------------
(* The server's handlers (Signaller), and what they do to the connections. *)

\* A connection is closed when the server no longer has the peer.
ServerCloses ==
    link' = [c \in Clients |->
        IF link[c] = "accepted" /\ peerState'[c] = S!Absent THEN "fin" ELSE link[c]]

ServerAccept(c) ==
    /\ ~corrupt
    /\ link[c] = "syn"
    /\ S!ConnectHandler(c)
    /\ link' = [link EXCEPT ![c] = IF peerState'[c] = S!Absent THEN "fin" ELSE "accepted"]
    /\ UNCHANGED <<clientVars, toServer, toClient>>

ServerEstablish(c) ==
    /\ ~corrupt
    /\ link[c] = "accepted"
    /\ S!EstablishHandler(c)
    /\ UNCHANGED <<clientVars, netVars>>

\* What the server's recv_handler makes of a chunk of client c.  Reading past
\* the end of a chunk gives zeros, not an error: a cut name is a shorter name
\* or none, cut candidates count as candidates.
Reads(c, chunk) ==
    LET message(id, ch, ok) == [id |-> id, channel |-> ch, lengthOk |-> ok] IN
    CASE chunk = Whole("ChannelID", c) -> {message("ChannelID", c[1], TRUE)}
      [] chunk = Whole("PeerCandidates", c) -> {message("PeerCandidates", S!NoChannelId, TRUE)}
      [] chunk.part = "head" ->
            {message("TooShort", S!NoChannelId, FALSE), message(chunk.id, S!NoChannelId, TRUE)}
                \cup IF chunk.id = "ChannelID" THEN {message("ChannelID", Cut, TRUE)} ELSE {}
      [] chunk.part = "tail" -> {message("TooShort", S!NoChannelId, FALSE),
                                 message("Other", S!NoChannelId, FALSE)}

\* recv_handler of the server.  ChannelReady goes to both peers of a channel,
\* candidates go to the partner as the chunk they came in.
ServerRecv(c) ==
    /\ ~corrupt
    /\ link[c] = "accepted" /\ toServer[c] # <<>>
    /\ \E d \in Deliveries(Head(toServer[c])) :
        /\ toServer' = [toServer EXCEPT ![c] = d.rest \o Tail(@)]
        /\ \E m \in Reads(c, d.chunk) :
            \/ /\ S!RecvRejected(c, m) \/ S!RecvCreateChannel(c, m) \/ S!RecvIgnored(c, m)
               /\ UNCHANGED toClient
            \/ /\ S!RecvJoinChannel(c, m)
               /\ toClient' = [q \in Clients |->
                    IF q \in chanPeers'[m.channel]
                    THEN Append(toClient[q], Whole("ChannelReady", c)) ELSE toClient[q]]
            \/ /\ S!RecvCandidates(c, m)
               /\ toClient' = [q \in Clients |->
                    IF q \in S!Others(c) THEN Append(toClient[q], d.chunk) ELSE toClient[q]]
    /\ ServerCloses
    /\ UNCHANGED clientVars

\* close_handler of the server: the client has closed.
ServerClosed(c) ==
    /\ ~corrupt
    /\ link[c] = "accepted" /\ conn[c] = "closed"
    /\ S!CloseHandler(c)
    /\ ServerCloses
    /\ UNCHANGED <<clientVars, toServer, toClient>>

ServerTimer(c) ==
    /\ ~corrupt
    /\ S!PeerTimerHandler(c)
    /\ ServerCloses
    /\ UNCHANGED <<clientVars, toServer, toClient>>

ServerShutdown ==
    /\ ~corrupt
    /\ S!Shutdown
    /\ link' = [c \in Clients |-> IF link[c] \in {"syn", "accepted"} THEN "fin" ELSE link[c]]
    /\ UNCHANGED <<clientVars, toServer, toClient>>

-----------------------------------------------------------------------------
\* Time passes for the timers of both programs.
Tick ==
    /\ looping /\ ~corrupt
    /\ IF running THEN S!Tick ELSE UNCHANGED serverVars
    /\ timer' = [c \in Clients |-> IF timer[c] < ClientTicks THEN timer[c] + 1 ELSE timer[c]]
    /\ UNCHANGED <<conn, clientState, rcvd, sent, completed, looping, sendFailed, got,
                   corrupt, netVars>>

ClientTimer(c) ==
    \/ TimerConnected(c) \/ TimerExchanging(c) \/ TimerSendFails(c) \/ TimerCompleted(c)

ClientStep(c) ==
    \/ ClientEstablish(c) \/ ClientRecv(c) \/ ClientClosed(c) \/ ClientTimer(c)

ServerStep(c) ==
    \/ ServerAccept(c) \/ ServerEstablish(c) \/ ServerRecv(c) \/ ServerClosed(c)
    \/ ServerTimer(c)

Next ==
    \/ \E p \in Pairs : LaunchPair(p)
    \/ \E c \in Clients : ClientStep(c) \/ ServerStep(c)
    \/ ClientSignal \/ ServerShutdown \/ Tick

Spec == Init /\ [][Next]_vars

\* Both main loops serve every ready socket and expired timer, and time passes.
FairSpec ==
    /\ Spec
    /\ WF_vars(Tick)
    /\ \A p \in Pairs : WF_vars(LaunchPair(p))
    /\ \A c \in Clients :
        /\ WF_vars(ClientEstablish(c)) /\ WF_vars(ClientRecv(c)) /\ WF_vars(ClientClosed(c))
        /\ WF_vars(ClientTimer(c))
        /\ WF_vars(ServerAccept(c)) /\ WF_vars(ServerEstablish(c)) /\ WF_vars(ServerRecv(c))
        /\ WF_vars(ServerClosed(c)) /\ WF_vars(ServerTimer(c))

-----------------------------------------------------------------------------
\* Types of the client program's state and of the connections; nothing ever
\* sets ClientState::Error.
TypeOK ==
    /\ S!TypeOK
    /\ conn \in [Clients -> {"none", "failed", "connecting", "open", "closed"}]
    /\ clientState \in [Clients -> {"None", "Connected", "Exchanging", "Completed"}]
    /\ rcvd \in [Clients -> BOOLEAN] /\ sent \in [Clients -> BOOLEAN]
    /\ timer \in [Clients -> 0..Never]
    /\ completed \in 0..(Count + 1)
    /\ looping \in BOOLEAN /\ corrupt \in BOOLEAN
    /\ link \in [Clients -> {"none", "refused", "syn", "accepted", "fin"}]
    /\ toServer \in [Clients -> Seq(Chunks)] /\ toClient \in [Clients -> Seq(Chunks)]
    /\ sendFailed \in [Clients -> BOOLEAN]
    /\ got \in [Clients -> SUBSET Clients]

\* tcp_send has taken the candidates of client c; bCandidatesSent alone does
\* not say so.
Handed(c) == sent[c] /\ ~sendFailed[c]

\* A client that is in ClientState::Completed has tried to send its candidates
\* and has read candidates of its partner and of nobody else, which the partner
\* had handed to TCP, whichever peers the server drops on the way, however the
\* timers expire and although cut names bring strangers into one channel.
\* They need not be all of them: a cut message counts, and the server does not
\* forward the rest.  Nor need its own have been sent, see TimerSendFails.
CompletedHasCandidates ==
    \A c \in Clients :
        clientState[c] = "Completed" => sent[c] /\ got[c] = {Partner(c)} /\ Handed(Partner(c))

\* close_handler releases tcpConn without forgetting it.  It is released twice
\* only by a client whose tcp_send failed, as timer_handler then restarts the
\* timer of the closed client; every other client is counted once.
ClosedOnce ==
    /\ corrupt => \E c \in Clients : sendFailed[c]
    /\ ~corrupt => completed = Cardinality({c \in Clients : conn[c] \in {"failed", "closed"}})

\* The test program ends: every client is closed in the end, the ones whose
\* partner never comes by the server's idle timer.
ProgramEnds == <>(~looping \/ corrupt)
=============================================================================
