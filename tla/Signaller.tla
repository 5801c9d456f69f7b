------------------------------ MODULE Signaller ------------------------------
(***************************************************************************)
(* The signalling server of src/src/signaller: it pairs two TCP clients    *)
(* that name the same channel and forwards to each the address candidates  *)
(* of the other.  The server is one thread (the libre main loop), so every *)
(* handler is one action; the clients are the environment and may send     *)
(* anything at any time.                                                   *)
(*                                                                         *)
(* PeerMap and ChannelMap are total functions in which Absent marks a key  *)
(* that is not in the map.  A peer is known by its socket address, as its  *)
(* 64-bit id is (address, port).                                           *)
(***************************************************************************)
EXTENDS Naturals, FiniteSets

CONSTANTS
    Peers,      \* socket addresses of clients
    Channels,   \* channel names
    IdleTicks   \* SERVER_PEER_IDLE_TIME, in ticks of the model's clock

ASSUME IdleAssumption == IdleTicks \in Nat \ {0}

VARIABLES
    peerState,    \* SignalPeer::state, or Absent
    peerChannel,  \* SignalPeer::channelId
    connected,    \* tcp_conn::connected: establish_handler has been called
    idle,         \* reTimer: ticks since tmr_start, or Off
    chanState,    \* SignalChannel::state, or Absent
    chanPeers,    \* SignalChannel::peers
    running,      \* the libre main loop has not been cancelled
    fault,        \* a handler has used a peer or channel its map does not have
    ready,        \* history: the peers named by the last ChannelReady sent to p
    forwarded,    \* history: the peers whose candidates were sent to p
    announced     \* history: pairs logged as having exchanged

peerVars == <<peerState, peerChannel, connected>>
chanVars == <<chanState, chanPeers>>
histVars == <<ready, forwarded, announced>>
vars == <<peerVars, idle, chanVars, running, fault, histVars>>

Absent == "Absent"
Off == IdleTicks + 1    \* a timer that is not running
NoChannelId == "none"   \* the empty channelId

ASSUME ChannelAssumption == NoChannelId \notin Channels

PeerStates == {"NoChannel", "Valid", "SentCandidates"}
InChannelStates == {"Valid", "SentCandidates"}

\* What one read from a socket can hold, as far as recv_handler tells
\* messages apart: a chunk below the minimal or above the maximal size, a
\* ChannelID message with a name (NoChannelId for a zero length or an empty
\* string; a name that the chunk does not hold entirely is read as a shorter
\* one, as mbuf_read_str reports no error), a PeerCandidates message with a
\* length divisible by 6 or not, or another message id.
Messages ==
    [id : {"TooShort", "TooLong", "Other"}, channel : {NoChannelId}, lengthOk : {FALSE}]
        \cup [id : {"ChannelID"}, channel : Channels \cup {NoChannelId}, lengthOk : {TRUE}]
        \cup [id : {"PeerCandidates"}, channel : {NoChannelId}, lengthOk : BOOLEAN]

Present(p) == peerState[p] # Absent
Open(c) == chanState[c] # Absent
Full(c) == c \in Channels /\ Open(c) /\ Cardinality(chanPeers[c]) >= 2

-----------------------------------------------------------------------------
Init ==
    /\ peerState = [p \in Peers |-> Absent]
    /\ peerChannel = [p \in Peers |-> NoChannelId]
    /\ connected = [p \in Peers |-> FALSE]
    /\ idle = [p \in Peers |-> Off]
    /\ chanState = [c \in Channels |-> Absent]
    /\ chanPeers = [c \in Channels |-> {}]
    /\ running = TRUE
    /\ fault = FALSE
    /\ ready = [p \in Peers |-> {}]
    /\ forwarded = [p \in Peers |-> {}]
    /\ announced = {}

\* Nobody refers to a peer that has gone.
ForgetPeer(p) ==
    /\ ready' = [q \in Peers |-> IF q = p THEN {} ELSE ready[q]]
    /\ forwarded' = [q \in Peers |-> IF q = p THEN {} ELSE forwarded[q] \ {p}]
    /\ announced' = {pair \in announced : p \notin pair}

\* Mutated: the peer is erased from PeerMap but stays listed in its channel.
DisconnectPeerKeepsMember(p) ==
    /\ peerState' = [peerState EXCEPT ![p] = Absent]
    /\ peerChannel' = [peerChannel EXCEPT ![p] = NoChannelId]
    /\ connected' = [connected EXCEPT ![p] = FALSE]
    /\ idle' = [idle EXCEPT ![p] = Off]
    /\ UNCHANGED chanVars
    /\ ForgetPeer(p)

\* Mutated: the last peer leaves and the channel stays in ChannelMap.
DisconnectPeerKeepsChannel(p) ==
    /\ peerState' = [peerState EXCEPT ![p] = Absent]
    /\ peerChannel' = [peerChannel EXCEPT ![p] = NoChannelId]
    /\ connected' = [connected EXCEPT ![p] = FALSE]
    /\ idle' = [idle EXCEPT ![p] = Off]
    /\ chanPeers' = [c \in Channels |->
            IF c = peerChannel[p] THEN chanPeers[c] \ {p} ELSE chanPeers[c]]
    /\ UNCHANGED chanState
    /\ ForgetPeer(p)

\* PeerManager::DisconnectPeer, with the destructor of SignalPeer that the
\* erasure runs: the connection is released and the timer cancelled.
DisconnectPeer(p) ==
    /\ peerState' = [peerState EXCEPT ![p] = Absent]
    /\ peerChannel' = [peerChannel EXCEPT ![p] = NoChannelId]
    /\ connected' = [connected EXCEPT ![p] = FALSE]
    /\ idle' = [idle EXCEPT ![p] = Off]
    /\ chanPeers' = [c \in Channels |->
            IF c = peerChannel[p] THEN chanPeers[c] \ {p} ELSE chanPeers[c]]
    /\ chanState' = [c \in Channels |->
            IF c = peerChannel[p] /\ chanPeers'[c] = {} THEN Absent ELSE chanState[c]]
    /\ ForgetPeer(p)

\* tmr_start on the timers of the peers in S.
RestartTimers(S) == [q \in Peers |-> IF q \in S THEN 0 ELSE idle[q]]

\* connect_handler.  When tcp_accept fails the peer just created is removed
\* again, which leaves the maps as they were.
ConnectHandler(p) ==
    /\ running /\ ~Present(p)
    /\ \/ peerState' = [peerState EXCEPT ![p] = "NoChannel"]
       \/ UNCHANGED peerState
    /\ UNCHANGED <<peerChannel, connected, idle, chanVars, running, fault, histVars>>

\* Mutated: the idle timer is not started.
EstablishHandlerNoTimer(p) ==
    /\ running /\ Present(p) /\ ~connected[p]
    /\ connected' = [connected EXCEPT ![p] = TRUE]
    /\ UNCHANGED <<peerState, peerChannel, idle, chanVars, running, fault, histVars>>

\* establish_handler: the socket became writable for the first time.
EstablishHandler(p) ==
    /\ running /\ Present(p) /\ ~connected[p]
    /\ connected' = [connected EXCEPT ![p] = TRUE]
    /\ idle' = RestartTimers({p})
    /\ UNCHANGED <<peerState, peerChannel, chanVars, running, fault, histVars>>

\* recv_handler is called with message m of peer p.
Receives(p, m) == running /\ Present(p) /\ connected[p] /\ m \in Messages

Others(p) == chanPeers[peerChannel[p]] \ {p}

\* The branches of recv_handler that end in close_handler.  (The branch for
\* PeerState::None is dead: CreatePeer stores a peer with state NoChannel.)
Rejects(p, m) ==
    \/ m.id \in {"TooShort", "TooLong"}
    \/ /\ peerState[p] = "NoChannel"
       /\ \/ m.id # "ChannelID"
          \/ m.channel = NoChannelId
          \/ Full(m.channel)
    \/ /\ peerState[p] = "Valid"
       /\ \/ m.id # "PeerCandidates"
          \/ ~m.lengthOk
          \/ \E q \in Others(p) : ~Present(q)

RecvRejected(p, m) ==
    /\ Receives(p, m)
    /\ Rejects(p, m)
    /\ DisconnectPeer(p)
    /\ fault' = (fault \/ (peerState[p] = "Valid" /\ ~Open(peerChannel[p])))
    /\ UNCHANGED running

\* recv_handler, NoChannel: the peer names a channel that does not exist yet.
RecvCreateChannel(p, m) ==
    /\ Receives(p, m) /\ ~Rejects(p, m)
    /\ peerState[p] = "NoChannel" /\ ~Open(m.channel)
    /\ chanState' = [chanState EXCEPT ![m.channel] = "AwaitPeer"]
    /\ chanPeers' = [chanPeers EXCEPT ![m.channel] = {p}]
    /\ peerState' = [peerState EXCEPT ![p] = "Valid"]
    /\ peerChannel' = [peerChannel EXCEPT ![p] = m.channel]
    /\ idle' = RestartTimers({p})
    /\ UNCHANGED <<connected, running, fault, histVars>>

\* Mutated: ChannelReady goes to the joining peer only.
RecvJoinChannelTellsOne(p, m) ==
    /\ Receives(p, m) /\ ~Rejects(p, m)
    /\ peerState[p] = "NoChannel" /\ Open(m.channel)
    /\ LET members == chanPeers[m.channel] \cup {p} IN
       /\ chanState' = [chanState EXCEPT ![m.channel] = "Exchange"]
       /\ chanPeers' = [chanPeers EXCEPT ![m.channel] = members]
       /\ idle' = RestartTimers({p})
       /\ ready' = [ready EXCEPT ![p] = members]
       /\ fault' = (fault \/ \E q \in members : ~Present(q))
    /\ peerState' = [peerState EXCEPT ![p] = "Valid"]
    /\ peerChannel' = [peerChannel EXCEPT ![p] = m.channel]
    /\ UNCHANGED <<connected, running, forwarded, announced>>

\* recv_handler, NoChannel: the peer joins a channel with one peer, and
\* ChannelReady goes to every peer of the channel.
RecvJoinChannel(p, m) ==
    /\ Receives(p, m) /\ ~Rejects(p, m)
    /\ peerState[p] = "NoChannel" /\ Open(m.channel)
    /\ LET members == chanPeers[m.channel] \cup {p} IN
       /\ chanState' = [chanState EXCEPT ![m.channel] = "Exchange"]
       /\ chanPeers' = [chanPeers EXCEPT ![m.channel] = members]
       /\ idle' = RestartTimers(members)
       /\ ready' = [q \in Peers |-> IF q \in members THEN members ELSE ready[q]]
       /\ fault' = (fault \/ \E q \in members : ~Present(q))
    /\ peerState' = [peerState EXCEPT ![p] = "Valid"]
    /\ peerChannel' = [peerChannel EXCEPT ![p] = m.channel]
    /\ UNCHANGED <<connected, running, forwarded, announced>>

\* recv_handler, Valid: the candidates are forwarded to the other peers of the
\* channel; with the sender, two that sent candidates complete the exchange.
RecvCandidates(p, m) ==
    /\ Receives(p, m) /\ ~Rejects(p, m)
    /\ peerState[p] = "Valid"
    /\ forwarded' = [q \in Peers |->
            IF q \in Others(p) THEN forwarded[q] \cup {p} ELSE forwarded[q]]
    /\ LET sent == {q \in Others(p) : peerState[q] = "SentCandidates"} \cup {p} IN
       IF Cardinality(sent) >= 2
       THEN /\ announced' = announced \cup {chanPeers[peerChannel[p]]}
            /\ idle' = RestartTimers(chanPeers[peerChannel[p]] \cup {p})
       ELSE /\ idle' = RestartTimers({p})
            /\ UNCHANGED announced
    /\ peerState' = [peerState EXCEPT ![p] = "SentCandidates"]
    /\ fault' = (fault \/ ~Open(peerChannel[p]))
    /\ UNCHANGED <<peerChannel, connected, chanVars, running, ready>>

\* recv_handler, SentCandidates: only the timer is restarted.
RecvIgnored(p, m) ==
    /\ Receives(p, m) /\ ~Rejects(p, m)
    /\ peerState[p] = "SentCandidates"
    /\ idle' = RestartTimers({p})
    /\ UNCHANGED <<peerVars, chanVars, running, fault, histVars>>

\* close_handler, called by the TCP layer when the client closed or an error
\* showed up on the socket.
CloseHandler(p) ==
    /\ running /\ Present(p)
    /\ DisconnectPeer(p)
    /\ UNCHANGED <<running, fault>>

\* peer_timer_handler.
PeerTimerHandler(p) ==
    /\ running /\ idle[p] = IdleTicks
    /\ DisconnectPeer(p)
    /\ UNCHANGED <<running, fault>>

\* The clock: an expired timer waits for the main loop to run its handler.
Tick ==
    /\ running
    /\ idle' = [p \in Peers |->
            IF idle[p] \in 0..(IdleTicks - 1) THEN idle[p] + 1 ELSE idle[p]]
    /\ UNCHANGED <<peerVars, chanVars, running, fault, histVars>>

\* signal_handler cancels the main loop, and main ends in
\* PeerManager::Shutdown, which disconnects every peer and clears both maps.
Shutdown ==
    /\ running
    /\ running' = FALSE
    /\ peerState' = [p \in Peers |-> Absent]
    /\ peerChannel' = [p \in Peers |-> NoChannelId]
    /\ connected' = [p \in Peers |-> FALSE]
    /\ idle' = [p \in Peers |-> Off]
    /\ chanState' = [c \in Channels |-> Absent]
    /\ chanPeers' = [c \in Channels |-> {}]
    /\ ready' = [p \in Peers |-> {}]
    /\ forwarded' = [p \in Peers |-> {}]
    /\ announced' = {}
    /\ UNCHANGED fault

-----------------------------------------------------------------------------
RecvHandler(p, m) ==
    \/ RecvRejected(p, m)
    \/ RecvCreateChannel(p, m)
    \/ RecvJoinChannel(p, m)
    \/ RecvCandidates(p, m)
    \/ RecvIgnored(p, m)

Next ==
    \/ \E p \in Peers :
        \/ ConnectHandler(p)
        \/ EstablishHandler(p)
        \/ \E m \in Messages : RecvHandler(p, m)
        \/ CloseHandler(p)
        \/ PeerTimerHandler(p)
    \/ Tick
    \/ Shutdown

Spec == Init /\ [][Next]_vars

\* The main loop serves every ready socket and expired timer; time passes.
FairSpec ==
    /\ Spec
    /\ WF_vars(Tick)
    /\ \A p \in Peers : WF_vars(EstablishHandler(p)) /\ WF_vars(PeerTimerHandler(p))

-----------------------------------------------------------------------------
\* Every variable has its type: a peer or channel is absent or in a state of
\* its enum, and a timer is off or has counted at most IdleTicks.
TypeOK ==
    /\ peerState \in [Peers -> PeerStates \cup {Absent}]
    /\ peerChannel \in [Peers -> Channels \cup {NoChannelId}]
    /\ connected \in [Peers -> BOOLEAN]
    /\ idle \in [Peers -> 0..Off]
    /\ chanState \in [Channels -> {"AwaitPeer", "Exchange", Absent}]
    /\ chanPeers \in [Channels -> SUBSET Peers]
    /\ running \in BOOLEAN /\ fault \in BOOLEAN
    /\ ready \in [Peers -> SUBSET Peers]
    /\ forwarded \in [Peers -> SUBSET Peers]
    /\ announced \subseteq SUBSET Peers

\* The two maps agree: a channel lists exactly the connected peers that joined
\* it, it exists exactly as long as it has a peer, and it never has more than
\* two.
MapsAgree ==
    /\ \A p \in Peers : peerState[p] \in InChannelStates => peerChannel[p] \in Channels
    /\ \A c \in Channels : \A p \in Peers :
        p \in chanPeers[c] <=> peerState[p] \in InChannelStates /\ peerChannel[p] = c
    /\ \A c \in Channels : Open(c) <=> chanPeers[c] # {}
    /\ \A c \in Channels : Cardinality(chanPeers[c]) <= 2

\* recv_handler uses the result of PeerManager::Peer and ::Channel without a
\* check, or after a check that does not return: neither is ever missing.
NoFault == ~fault

\* Two peers of one channel have both been told so, about each other.
ReadyReachesBoth ==
    \A c \in Channels : Cardinality(chanPeers[c]) = 2 =>
        \A p \in chanPeers[c] : ready[p] = chanPeers[c]

\* A peer exists in the server only while its timer runs (or is about to be
\* started), so none can be forgotten.
TimerArmed ==
    \A p \in Peers : (Present(p) /\ connected[p]) <=> idle[p] # Off

\* A peer that falls silent is dropped: its timer is restarted again and again
\* or the peer is gone.
SilentPeersDropped ==
    \A p \in Peers : []<>(~Present(p) \/ idle[p] = 0)

\* "channel peers have now exchanged!": each has been sent the candidates of
\* the other.
ExchangedMeansBoth ==
    \A pair \in announced : \A p, q \in pair : p # q => p \in forwarded[q]
=============================================================================
