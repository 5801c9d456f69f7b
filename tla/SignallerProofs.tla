--------------------------- MODULE SignallerProofs ---------------------------
(***************************************************************************)
(* Proofs about the signalling server, for any sets of clients and channel *)
(* names and any idle time.                                                *)
(***************************************************************************)
EXTENDS Signaller, FiniteSetTheorems, TLAPS

-----------------------------------------------------------------------------
(* The inductive invariant.                                                *)

\* A channel lists a finite number of peers, so its size is a number.
FiniteChannels == \A c \in Channels : IsFiniteSet(chanPeers[c])

\* A peer that is not in PeerMap has no connection, and one in a channel has.
ConnectionKnown ==
    \A p \in Peers : /\ ~Present(p) => ~connected[p]
                     /\ peerState[p] \in InChannelStates => connected[p]

IInv ==
    /\ TypeOK
    /\ MapsAgree
    /\ FiniteChannels
    /\ TimerArmed
    /\ ConnectionKnown
    /\ NoFault
    /\ ReadyReachesBoth

LEMMA InitIInv == Init => IInv
  <1> SUFFICES ASSUME Init PROVE IInv
    OBVIOUS
  <1>1. TypeOK
    <2>1. Off \in 0..Off
      BY IdleAssumption DEF Off
    <2>2. idle \in [Peers -> 0..Off]
      BY <2>1 DEF Init
    <2> QED BY <2>2, Zenon DEF Init, TypeOK
  <1>2. Cardinality({}) = 0 /\ IsFiniteSet({})
    BY FS_EmptySet
  <1>3. MapsAgree /\ FiniteChannels
    BY <1>2 DEF Init, MapsAgree, FiniteChannels, InChannelStates, Absent, Open
  <1>4. TimerArmed /\ ConnectionKnown /\ NoFault
    BY DEF Init, TimerArmed, ConnectionKnown, NoFault, Present, InChannelStates, Absent
  <1>5. ReadyReachesBoth
    BY DEF Init, ReadyReachesBoth
  <1> QED BY <1>1, <1>3, <1>4, <1>5 DEF IInv

-----------------------------------------------------------------------------
(* Sets of peers.                                                          *)

\* Leaving a channel of at most two peers leaves at most one.
LEMMA CardLeave ==
  ASSUME NEW S, IsFiniteSet(S), Cardinality(S) <= 2, NEW p
  PROVE  /\ IsFiniteSet(S \ {p})
         /\ Cardinality(S \ {p}) <= 2
         /\ p \in S => Cardinality(S \ {p}) # 2
  <1>1. /\ IsFiniteSet(S \ {p})
        /\ Cardinality(S \ {p}) = IF p \in S THEN Cardinality(S) - 1 ELSE Cardinality(S)
    BY FS_RemoveElement
  <1>2. Cardinality(S) \in Nat
    BY FS_CardinalityType
  <1> QED BY <1>1, <1>2

LEMMA CardJoin ==
  ASSUME NEW S, IsFiniteSet(S), ~(Cardinality(S) >= 2), NEW p
  PROVE  IsFiniteSet(S \cup {p}) /\ Cardinality(S \cup {p}) <= 2
  <1>1. /\ IsFiniteSet(S \cup {p})
        /\ Cardinality(S \cup {p}) = IF p \in S THEN Cardinality(S) ELSE Cardinality(S) + 1
    BY FS_AddElement
  <1>2. Cardinality(S) \in Nat
    BY FS_CardinalityType
  <1> QED BY <1>1, <1>2

-----------------------------------------------------------------------------
(* The actions.                                                            *)

\* Removing a peer keeps the maps in agreement.  It serves close_handler, the
\* idle timer and every rejected message.
LEMMA DisconnectIInv ==
  ASSUME IInv, NEW p \in Peers, Present(p), DisconnectPeer(p),
         running' \in BOOLEAN, fault' = FALSE
  PROVE  IInv'
  <1>1. /\ peerState' = [peerState EXCEPT ![p] = Absent]
        /\ peerChannel' = [peerChannel EXCEPT ![p] = NoChannelId]
        /\ connected' = [connected EXCEPT ![p] = FALSE]
        /\ idle' = [idle EXCEPT ![p] = Off]
    BY DEF DisconnectPeer
  <1>2. chanPeers' = [c \in Channels |->
                        IF c = peerChannel[p] THEN chanPeers[c] \ {p} ELSE chanPeers[c]]
    BY DEF DisconnectPeer
  <1>3. chanState' = [c \in Channels |->
            IF c = peerChannel[p] /\ chanPeers'[c] = {} THEN Absent ELSE chanState[c]]
    BY DEF DisconnectPeer
  <1>4. /\ ready' = [q \in Peers |-> IF q = p THEN {} ELSE ready[q]]
        /\ forwarded' = [q \in Peers |-> IF q = p THEN {} ELSE forwarded[q] \ {p}]
        /\ announced' = {pair \in announced : p \notin pair}
    BY DEF DisconnectPeer, ForgetPeer
  <1>5. \A c \in Channels : chanPeers'[c] = chanPeers[c] \ {p}
    BY <1>2 DEF IInv, MapsAgree
  <1>6. TypeOK'
    <2>1. /\ peerState' \in [Peers -> PeerStates \cup {Absent}]
          /\ peerChannel' \in [Peers -> Channels \cup {NoChannelId}]
          /\ connected' \in [Peers -> BOOLEAN]
      BY <1>1 DEF IInv, TypeOK
    <2>2. idle' \in [Peers -> 0..Off]
      BY <1>1, IdleAssumption DEF IInv, TypeOK, Off
    <2>3. /\ chanState' \in [Channels -> {"AwaitPeer", "Exchange", Absent}]
          /\ chanPeers' \in [Channels -> SUBSET Peers]
      BY <1>2, <1>3 DEF IInv, TypeOK
    <2>4. /\ ready' \in [Peers -> SUBSET Peers]
          /\ forwarded' \in [Peers -> SUBSET Peers]
          /\ announced' \subseteq SUBSET Peers
      BY <1>4 DEF IInv, TypeOK
    <2> QED BY <2>1, <2>2, <2>3, <2>4 DEF TypeOK
  <1>7. MapsAgree'
    <2>1. ASSUME NEW c \in Channels, NEW q \in Peers
          PROVE  q \in chanPeers'[c]
                   <=> peerState'[q] \in InChannelStates /\ peerChannel'[q] = c
      BY <1>1, <1>5 DEF IInv, MapsAgree, TypeOK, InChannelStates, Absent
    <2>2. ASSUME NEW c \in Channels
          PROVE  (chanState'[c] # Absent) <=> chanPeers'[c] # {}
      <3>1. CASE c = peerChannel[p]
        BY <3>1, <1>2, <1>3 DEF IInv, MapsAgree, Open
      <3>2. CASE c # peerChannel[p]
        BY <3>2, <1>2, <1>3 DEF IInv, MapsAgree, Open
      <3> QED BY <3>1, <3>2
    <2>3. ASSUME NEW c \in Channels PROVE Cardinality(chanPeers'[c]) <= 2
      BY <1>5, CardLeave DEF IInv, MapsAgree, FiniteChannels
    <2>4. ASSUME NEW q \in Peers, peerState'[q] \in InChannelStates
          PROVE  peerChannel'[q] \in Channels
      BY <2>4, <1>1 DEF IInv, MapsAgree, TypeOK, InChannelStates, Absent
    <2> QED BY <2>1, <2>2, <2>3, <2>4 DEF MapsAgree, Open
  <1>8. FiniteChannels'
    BY <1>5, CardLeave DEF IInv, MapsAgree, FiniteChannels
  <1>9. TimerArmed' /\ ConnectionKnown'
    BY <1>1 DEF IInv, TypeOK, TimerArmed, ConnectionKnown, Present, InChannelStates, Absent
  <1>10. ReadyReachesBoth'
    <2> SUFFICES ASSUME NEW c \in Channels, Cardinality(chanPeers'[c]) = 2,
                        NEW q \in chanPeers'[c]
                 PROVE  ready'[q] = chanPeers'[c]
      BY DEF ReadyReachesBoth
    <2>1. p \notin chanPeers[c]
      <3>1. IsFiniteSet(chanPeers[c]) /\ Cardinality(chanPeers[c]) <= 2
        BY DEF IInv, MapsAgree, FiniteChannels
      <3>2. p \in chanPeers[c] => Cardinality(chanPeers[c] \ {p}) # 2
        BY <3>1, CardLeave
      <3> QED BY <3>2, <1>5
    <2>2. chanPeers'[c] = chanPeers[c]
      BY <1>5, <2>1
    <2>3. q \in Peers /\ q # p
      BY <2>1, <2>2 DEF IInv, TypeOK
    <2> QED BY <1>4, <2>2, <2>3 DEF IInv, ReadyReachesBoth
  <1> QED BY <1>6, <1>7, <1>8, <1>9, <1>10 DEF IInv, NoFault

LEMMA ConnectIInv ==
  ASSUME IInv, NEW p \in Peers, ConnectHandler(p)
  PROVE  IInv'
  <1>1. UNCHANGED <<peerChannel, connected, idle, chanState, chanPeers, running, fault,
                    ready, forwarded, announced>>
    BY DEF ConnectHandler, chanVars, histVars
  <1>2. CASE UNCHANGED peerState
    BY <1>1, <1>2 DEF IInv, TypeOK, MapsAgree, FiniteChannels, TimerArmed,
                      ConnectionKnown, NoFault, ReadyReachesBoth, Present, Open
  <1>3. CASE peerState' = [peerState EXCEPT ![p] = "NoChannel"]
    <2>1. peerState[p] = Absent
      BY DEF ConnectHandler, Present
    <2>2. TypeOK'
      BY <1>1, <1>3 DEF IInv, TypeOK, PeerStates
    <2>3. MapsAgree'
      BY <1>1, <1>3, <2>1 DEF IInv, TypeOK, MapsAgree, InChannelStates, Absent, Open
    <2>4. TimerArmed' /\ ConnectionKnown'
      BY <1>1, <1>3, <2>1
         DEF IInv, TypeOK, TimerArmed, ConnectionKnown, Present, InChannelStates, Absent
    <2>5. FiniteChannels' /\ NoFault' /\ ReadyReachesBoth'
      BY <1>1 DEF IInv, FiniteChannels, NoFault, ReadyReachesBoth
    <2> QED BY <2>2, <2>3, <2>4, <2>5 DEF IInv
  <1> QED BY <1>2, <1>3 DEF ConnectHandler

LEMMA RestartType ==
  ASSUME IInv, NEW S PROVE RestartTimers(S) \in [Peers -> 0..Off]
  BY IdleAssumption DEF IInv, TypeOK, RestartTimers, Off

\* Restarting running timers keeps TimerArmed.
LEMMA RestartArmed ==
  ASSUME IInv, NEW S, \A q \in S \cap Peers : Present(q) /\ connected[q], NEW q \in Peers
  PROVE  RestartTimers(S)[q] # Off <=> (Present(q) /\ connected[q])
  <1>1. CASE q \in S
    BY <1>1, IdleAssumption DEF RestartTimers, Off
  <1>2. CASE q \notin S
    BY <1>2 DEF IInv, TimerArmed, RestartTimers
  <1> QED BY <1>1, <1>2

LEMMA EstablishIInv ==
  ASSUME IInv, NEW p \in Peers, EstablishHandler(p)
  PROVE  IInv'
  <1>1. /\ connected' = [connected EXCEPT ![p] = TRUE]
        /\ idle' = RestartTimers({p})
        /\ Present(p)
        /\ UNCHANGED <<peerState, peerChannel, chanState, chanPeers, running, fault,
                       ready, forwarded, announced>>
    BY DEF EstablishHandler, chanVars, histVars
  <1>2. TypeOK'
    <2>1. connected' \in [Peers -> BOOLEAN] /\ idle' \in [Peers -> 0..Off]
      BY <1>1, RestartType DEF IInv, TypeOK
    <2> QED BY <1>1, <2>1 DEF IInv, TypeOK
  <1>3. MapsAgree' /\ FiniteChannels' /\ NoFault' /\ ReadyReachesBoth'
    BY <1>1 DEF IInv, MapsAgree, FiniteChannels, NoFault, ReadyReachesBoth, Open
  <1>4. TimerArmed'
    <2> SUFFICES ASSUME NEW q \in Peers
                 PROVE  (Present(q)' /\ connected'[q]) <=> idle'[q] # Off
      BY DEF TimerArmed
    <2>1. CASE q = p
      BY <1>1, <2>1, IdleAssumption DEF IInv, TypeOK, RestartTimers, Off, Present
    <2>2. CASE q # p
      BY <1>1, <2>2 DEF IInv, TypeOK, TimerArmed, RestartTimers, Present
    <2> QED BY <2>1, <2>2
  <1>5. ConnectionKnown'
    BY <1>1 DEF IInv, TypeOK, ConnectionKnown, Present, InChannelStates, Absent
  <1> QED BY <1>2, <1>3, <1>4, <1>5 DEF IInv

LEMMA RejectedIInv ==
  ASSUME IInv, NEW p \in Peers, NEW m \in Messages, RecvRejected(p, m)
  PROVE  IInv'
  <1>1. Present(p) /\ DisconnectPeer(p) /\ running' \in BOOLEAN
    BY DEF RecvRejected, Receives, IInv, TypeOK
  <1>2. fault' = FALSE
    <2>1. peerState[p] = "Valid" => p \in chanPeers[peerChannel[p]] /\ peerChannel[p] \in Channels
      BY DEF IInv, MapsAgree, InChannelStates
    <2> QED BY <2>1 DEF RecvRejected, IInv, NoFault, MapsAgree, TypeOK
  <1> QED BY <1>1, <1>2, DisconnectIInv

\* A message that recv_handler accepts from a peer without a channel names one.
LEMMA AcceptedName ==
  ASSUME NEW p, NEW m \in Messages, ~Rejects(p, m), peerState[p] = "NoChannel"
  PROVE  m.channel \in Channels /\ ~Full(m.channel)
  BY DEF Messages, Rejects

LEMMA CreateIInv ==
  ASSUME IInv, NEW p \in Peers, NEW m \in Messages, RecvCreateChannel(p, m)
  PROVE  IInv'
  <1> DEFINE d == m.channel
  <1>1. /\ Present(p) /\ connected[p] /\ peerState[p] = "NoChannel"
        /\ d \in Channels /\ ~Open(d)
    BY AcceptedName DEF RecvCreateChannel, Receives
  <1>2. /\ chanState' = [chanState EXCEPT ![d] = "AwaitPeer"]
        /\ chanPeers' = [chanPeers EXCEPT ![d] = {p}]
        /\ peerState' = [peerState EXCEPT ![p] = "Valid"]
        /\ peerChannel' = [peerChannel EXCEPT ![p] = d]
        /\ idle' = RestartTimers({p})
        /\ UNCHANGED <<connected, running, fault, ready, forwarded, announced>>
    BY DEF RecvCreateChannel, histVars
  <1> HIDE DEF d
  <1>3. TypeOK'
    <2>1. idle' \in [Peers -> 0..Off]
      BY <1>2, RestartType
    <2>2. /\ chanState' \in [Channels -> {"AwaitPeer", "Exchange", Absent}]
          /\ chanPeers' \in [Channels -> SUBSET Peers]
          /\ peerState' \in [Peers -> PeerStates \cup {Absent}]
          /\ peerChannel' \in [Peers -> Channels \cup {NoChannelId}]
      BY <1>1, <1>2 DEF IInv, TypeOK, PeerStates
    <2> QED BY <1>2, <2>1, <2>2 DEF IInv, TypeOK
  <1>4. chanPeers[d] = {}
    BY <1>1 DEF IInv, MapsAgree
  <1>5. IsFiniteSet({p}) /\ Cardinality({p}) = 1
    BY FS_Singleton
  <1>6. MapsAgree'
    <2>1. ASSUME NEW c \in Channels, NEW q \in Peers
          PROVE  q \in chanPeers'[c]
                   <=> peerState'[q] \in InChannelStates /\ peerChannel'[q] = c
      <3>1. CASE c = d
        BY <3>1, <1>1, <1>2, <1>4 DEF IInv, MapsAgree, TypeOK, InChannelStates
      <3>2. CASE c # d
        BY <3>2, <1>1, <1>2 DEF IInv, MapsAgree, TypeOK, InChannelStates
      <3> QED BY <3>1, <3>2
    <2>2. ASSUME NEW c \in Channels
          PROVE  (chanState'[c] # Absent) <=> chanPeers'[c] # {}
      BY <1>1, <1>2 DEF IInv, MapsAgree, TypeOK, Open, Absent
    <2>3. ASSUME NEW c \in Channels PROVE Cardinality(chanPeers'[c]) <= 2
      BY <1>1, <1>2, <1>5 DEF IInv, MapsAgree, TypeOK
    <2>4. ASSUME NEW q \in Peers, peerState'[q] \in InChannelStates
          PROVE  peerChannel'[q] \in Channels
      BY <2>4, <1>1, <1>2 DEF IInv, MapsAgree, TypeOK
    <2> QED BY <2>1, <2>2, <2>3, <2>4 DEF MapsAgree, Open
  <1>7. FiniteChannels'
    BY <1>1, <1>2, <1>5 DEF IInv, FiniteChannels, TypeOK
  <1>8. TimerArmed'
    <2> SUFFICES ASSUME NEW q \in Peers
                 PROVE  (peerState'[q] # Absent /\ connected[q]) <=> idle'[q] # Off
      BY <1>2 DEF TimerArmed, Present
    <2>1. (peerState'[q] # Absent) <=> Present(q)
      BY <1>1, <1>2 DEF IInv, TypeOK, Present, Absent
    <2> QED BY <1>1, <1>2, <2>1, RestartArmed
  <1>9. ConnectionKnown' /\ NoFault'
    BY <1>1, <1>2 DEF IInv, TypeOK, ConnectionKnown, NoFault, Present, Absent, InChannelStates
  <1>10. ReadyReachesBoth'
    <2> SUFFICES ASSUME NEW c \in Channels, Cardinality(chanPeers'[c]) = 2,
                        NEW q \in chanPeers'[c]
                 PROVE  ready[q] = chanPeers'[c]
      BY <1>2 DEF ReadyReachesBoth
    <2>1. c # d
      BY <1>1, <1>2, <1>5 DEF IInv, TypeOK
    <2> QED BY <2>1, <1>2 DEF IInv, TypeOK, ReadyReachesBoth
  <1> QED BY <1>3, <1>6, <1>7, <1>8, <1>9, <1>10 DEF IInv

LEMMA JoinIInv ==
  ASSUME IInv, NEW p \in Peers, NEW m \in Messages, RecvJoinChannel(p, m)
  PROVE  IInv'
  <1> DEFINE d == m.channel
             members == chanPeers[d] \cup {p}
  <1>1. /\ Present(p) /\ connected[p] /\ peerState[p] = "NoChannel"
        /\ d \in Channels /\ Open(d) /\ ~(Cardinality(chanPeers[d]) >= 2)
    BY AcceptedName DEF RecvJoinChannel, Receives, Full
  <1>2. /\ chanState' = [chanState EXCEPT ![d] = "Exchange"]
        /\ chanPeers' = [chanPeers EXCEPT ![d] = members]
        /\ idle' = RestartTimers(members)
        /\ ready' = [q \in Peers |-> IF q \in members THEN members ELSE ready[q]]
        /\ fault' = (fault \/ \E q \in members : ~Present(q))
        /\ peerState' = [peerState EXCEPT ![p] = "Valid"]
        /\ peerChannel' = [peerChannel EXCEPT ![p] = d]
        /\ UNCHANGED <<connected, running, forwarded, announced>>
    BY DEF RecvJoinChannel
  <1>3. \A q \in chanPeers[d] : q \in Peers /\ peerState[q] \in InChannelStates
    BY <1>1 DEF IInv, TypeOK, MapsAgree
  <1>4. members \subseteq Peers /\ \A q \in members : Present(q)
    BY <1>1, <1>3 DEF Present, InChannelStates, Absent
  <1>5. \A q \in members : connected[q]
    <2> SUFFICES ASSUME NEW q \in chanPeers[d] PROVE connected[q]
      BY <1>1
    <2> QED BY <1>3 DEF IInv, ConnectionKnown
  <1>6. IsFiniteSet(members) /\ Cardinality(members) <= 2
    BY <1>1, CardJoin DEF IInv, FiniteChannels
  <1>7. p \notin chanPeers[d]
    BY <1>1 DEF IInv, MapsAgree, InChannelStates
  <1> HIDE DEF d, members
  <1>8. p \in members /\ members \ {p} \subseteq chanPeers[d] /\ chanPeers[d] \subseteq members
    BY DEF members
  <1>9. TypeOK'
    <2>1. idle' \in [Peers -> 0..Off]
      BY <1>2, RestartType
    <2>2. /\ chanState' \in [Channels -> {"AwaitPeer", "Exchange", Absent}]
          /\ chanPeers' \in [Channels -> SUBSET Peers]
          /\ peerState' \in [Peers -> PeerStates \cup {Absent}]
          /\ peerChannel' \in [Peers -> Channels \cup {NoChannelId}]
      BY <1>1, <1>2, <1>4 DEF IInv, TypeOK, PeerStates
    <2>3. ready' \in [Peers -> SUBSET Peers] /\ fault' \in BOOLEAN
      BY <1>2, <1>4 DEF IInv, TypeOK
    <2> QED BY <1>2, <2>1, <2>2, <2>3 DEF IInv, TypeOK
  <1>10. MapsAgree'
    <2>1. ASSUME NEW c \in Channels, NEW q \in Peers
          PROVE  q \in chanPeers'[c]
                   <=> peerState'[q] \in InChannelStates /\ peerChannel'[q] = c
      <3>1. CASE q = p
        BY <3>1, <1>1, <1>2, <1>7, <1>8 DEF IInv, MapsAgree, TypeOK, InChannelStates
      <3>2. CASE q # p
        <4>1. q \in chanPeers'[c] <=> q \in chanPeers[c]
          BY <3>2, <1>1, <1>2, <1>8 DEF IInv, TypeOK
        <4> QED BY <4>1, <3>2, <1>2 DEF IInv, MapsAgree, TypeOK
      <3> QED BY <3>1, <3>2
    <2>2. ASSUME NEW c \in Channels
          PROVE  (chanState'[c] # Absent) <=> chanPeers'[c] # {}
      BY <1>1, <1>2, <1>8 DEF IInv, MapsAgree, TypeOK, Open, Absent
    <2>3. ASSUME NEW c \in Channels PROVE Cardinality(chanPeers'[c]) <= 2
      BY <1>1, <1>2, <1>6 DEF IInv, MapsAgree, TypeOK
    <2>4. ASSUME NEW q \in Peers, peerState'[q] \in InChannelStates
          PROVE  peerChannel'[q] \in Channels
      BY <2>4, <1>1, <1>2 DEF IInv, MapsAgree, TypeOK
    <2> QED BY <2>1, <2>2, <2>3, <2>4 DEF MapsAgree, Open
  <1>11. FiniteChannels'
    BY <1>1, <1>2, <1>6 DEF IInv, FiniteChannels, TypeOK
  <1>12. TimerArmed'
    <2> SUFFICES ASSUME NEW q \in Peers
                 PROVE  (peerState'[q] # Absent /\ connected[q]) <=> idle'[q] # Off
      BY <1>2 DEF TimerArmed, Present
    <2>1. (peerState'[q] # Absent) <=> Present(q)
      BY <1>1, <1>2 DEF IInv, TypeOK, Present, Absent
    <2> QED BY <1>2, <1>4, <1>5, <2>1, RestartArmed
  <1>13. ConnectionKnown' /\ NoFault'
    BY <1>1, <1>2, <1>4 DEF IInv, TypeOK, ConnectionKnown, NoFault, Present, Absent,
                            InChannelStates
  <1>14. ReadyReachesBoth'
    <2> SUFFICES ASSUME NEW c \in Channels, Cardinality(chanPeers'[c]) = 2,
                        NEW q \in chanPeers'[c]
                 PROVE  ready'[q] = chanPeers'[c]
      BY DEF ReadyReachesBoth
    <2>1. CASE c = d
      BY <2>1, <1>1, <1>2, <1>4 DEF IInv, TypeOK
    <2>2. CASE c # d
      <3>1. q \in chanPeers[c] /\ chanPeers'[c] = chanPeers[c] /\ q \in Peers
        BY <2>2, <1>2 DEF IInv, TypeOK
      <3>2. peerState[q] \in InChannelStates /\ peerChannel[q] = c
        BY <3>1 DEF IInv, MapsAgree
      <3>3. q \notin chanPeers[d] /\ q # p
        BY <2>2, <3>1, <3>2, <1>1 DEF IInv, MapsAgree, InChannelStates
      <3>4. q \notin members
        BY <3>3, <1>8
      <3> QED BY <3>1, <3>4, <1>2 DEF IInv, ReadyReachesBoth
    <2> QED BY <2>1, <2>2
  <1> QED BY <1>9, <1>10, <1>11, <1>12, <1>13, <1>14 DEF IInv

LEMMA CandidatesIInv ==
  ASSUME IInv, NEW p \in Peers, NEW m \in Messages, RecvCandidates(p, m)
  PROVE  IInv'
  <1> DEFINE d == peerChannel[p]
  <1>1. /\ Present(p) /\ connected[p] /\ peerState[p] = "Valid"
        /\ d \in Channels /\ Open(d) /\ p \in chanPeers[d]
    BY DEF RecvCandidates, Receives, IInv, MapsAgree, InChannelStates
  <1>2. /\ peerState' = [peerState EXCEPT ![p] = "SentCandidates"]
        /\ fault' = (fault \/ ~Open(d))
        /\ UNCHANGED <<peerChannel, connected, chanState, chanPeers, running, ready>>
    BY DEF RecvCandidates, chanVars
  <1>3. \A q \in chanPeers[d] : q \in Peers /\ Present(q) /\ connected[q]
    BY <1>1 DEF IInv, TypeOK, MapsAgree, ConnectionKnown, Present, InChannelStates, Absent
  <1>4. \/ idle' = RestartTimers(chanPeers[d] \cup {p})
        \/ idle' = RestartTimers({p})
    BY DEF RecvCandidates
  <1>5. announced' \subseteq SUBSET Peers
    <2>1. chanPeers[d] \in SUBSET Peers
      BY <1>3
    <2>2. announced' = announced \cup {chanPeers[d]} \/ announced' = announced
      BY DEF RecvCandidates
    <2> QED BY <2>1, <2>2 DEF IInv, TypeOK
  <1>6. forwarded' \in [Peers -> SUBSET Peers]
    BY DEF RecvCandidates, IInv, TypeOK
  <1>7. TypeOK'
    <2>1. idle' \in [Peers -> 0..Off]
      BY <1>4, RestartType
    <2>2. peerState' \in [Peers -> PeerStates \cup {Absent}] /\ fault' \in BOOLEAN
      BY <1>2 DEF IInv, TypeOK, PeerStates
    <2> QED BY <1>2, <1>5, <1>6, <2>1, <2>2 DEF IInv, TypeOK
  <1>8. MapsAgree' /\ FiniteChannels'
    BY <1>1, <1>2 DEF IInv, TypeOK, MapsAgree, FiniteChannels, InChannelStates, Open
  <1>9. TimerArmed'
    <2> SUFFICES ASSUME NEW q \in Peers
                 PROVE  (peerState'[q] # Absent /\ connected[q]) <=> idle'[q] # Off
      BY <1>2 DEF TimerArmed, Present
    <2>1. (peerState'[q] # Absent) <=> Present(q)
      BY <1>1, <1>2 DEF IInv, TypeOK, Present, Absent
    <2>2. CASE idle' = RestartTimers(chanPeers[d] \cup {p})
      BY <1>1, <1>3, <2>1, <2>2, RestartArmed
    <2>3. CASE idle' = RestartTimers({p})
      BY <1>1, <2>1, <2>3, RestartArmed
    <2> QED BY <1>4, <2>2, <2>3
  <1>10. ConnectionKnown' /\ NoFault' /\ ReadyReachesBoth'
    BY <1>1, <1>2 DEF IInv, TypeOK, ConnectionKnown, NoFault, ReadyReachesBoth, Present,
                      Absent, InChannelStates
  <1> QED BY <1>7, <1>8, <1>9, <1>10 DEF IInv

LEMMA IgnoredIInv ==
  ASSUME IInv, NEW p \in Peers, NEW m \in Messages, RecvIgnored(p, m)
  PROVE  IInv'
  <1>1. /\ Present(p) /\ connected[p] /\ idle' = RestartTimers({p})
        /\ UNCHANGED <<peerState, peerChannel, connected, chanState, chanPeers, running,
                       fault, ready, forwarded, announced>>
    BY DEF RecvIgnored, Receives, peerVars, chanVars, histVars
  <1>2. TypeOK'
    BY <1>1, RestartType DEF IInv, TypeOK
  <1>3. TimerArmed'
    BY <1>1, RestartArmed DEF TimerArmed, Present
  <1> QED BY <1>1, <1>2, <1>3 DEF IInv, MapsAgree, FiniteChannels, ConnectionKnown, NoFault,
                                  ReadyReachesBoth, Present, Open

LEMMA TickIInv ==
  ASSUME IInv, Tick
  PROVE  IInv'
  <1>1. /\ idle' = [p \in Peers |->
              IF idle[p] \in 0..(IdleTicks - 1) THEN idle[p] + 1 ELSE idle[p]]
        /\ UNCHANGED <<peerState, peerChannel, connected, chanState, chanPeers, running,
                       fault, ready, forwarded, announced>>
    BY DEF Tick, peerVars, chanVars, histVars
  <1>2. idle' \in [Peers -> 0..Off] /\ \A p \in Peers : idle'[p] = Off <=> idle[p] = Off
    BY <1>1, IdleAssumption DEF IInv, TypeOK, Off
  <1>3. TypeOK'
    BY <1>1, <1>2 DEF IInv, TypeOK
  <1>4. TimerArmed'
    BY <1>1, <1>2 DEF IInv, TimerArmed, Present
  <1> QED BY <1>1, <1>3, <1>4 DEF IInv, MapsAgree, FiniteChannels, ConnectionKnown, NoFault,
                                  ReadyReachesBoth, Present, Open

\* Shutdown leaves what Init starts from, but for the main loop.
LEMMA ShutdownIInv ==
  ASSUME IInv, Shutdown
  PROVE  IInv'
  <1>1. /\ fault' = FALSE /\ running' = FALSE
        /\ peerState' = [p \in Peers |-> Absent]
        /\ peerChannel' = [p \in Peers |-> NoChannelId]
        /\ connected' = [p \in Peers |-> FALSE]
        /\ idle' = [p \in Peers |-> Off]
        /\ chanState' = [c \in Channels |-> Absent]
        /\ chanPeers' = [c \in Channels |-> {}]
        /\ ready' = [p \in Peers |-> {}]
        /\ forwarded' = [p \in Peers |-> {}]
        /\ announced' = {}
    BY DEF Shutdown, IInv, NoFault, TypeOK
  <1>2. TypeOK'
    <2>1. Off \in 0..Off
      BY IdleAssumption DEF Off
    <2>2. idle' \in [Peers -> 0..Off]
      BY <1>1, <2>1
    <2> QED BY <1>1, <2>2, Zenon DEF TypeOK
  <1>3. Cardinality({}) = 0 /\ IsFiniteSet({})
    BY FS_EmptySet
  <1>4. MapsAgree' /\ FiniteChannels'
    BY <1>1, <1>3 DEF MapsAgree, FiniteChannels, InChannelStates, Absent, Open
  <1>5. TimerArmed' /\ ConnectionKnown' /\ NoFault'
    BY <1>1 DEF TimerArmed, ConnectionKnown, NoFault, Present, InChannelStates, Absent
  <1>6. ReadyReachesBoth'
    BY <1>1 DEF ReadyReachesBoth
  <1> QED BY <1>2, <1>4, <1>5, <1>6 DEF IInv

LEMMA NextIInv == IInv /\ [Next]_vars => IInv'
  <1> SUFFICES ASSUME IInv, [Next]_vars PROVE IInv'
    OBVIOUS
  <1>1. ASSUME NEW p \in Peers, ConnectHandler(p) PROVE IInv'
    BY <1>1, ConnectIInv
  <1>2. ASSUME NEW p \in Peers, EstablishHandler(p) PROVE IInv'
    BY <1>2, EstablishIInv
  <1>3. ASSUME NEW p \in Peers, NEW m \in Messages, RecvHandler(p, m) PROVE IInv'
    BY <1>3, RejectedIInv, CreateIInv, JoinIInv, CandidatesIInv, IgnoredIInv DEF RecvHandler
  <1>4. ASSUME NEW p \in Peers, CloseHandler(p) PROVE IInv'
    BY <1>4, DisconnectIInv DEF CloseHandler, IInv, TypeOK, NoFault
  <1>5. ASSUME NEW p \in Peers, PeerTimerHandler(p) PROVE IInv'
    <2>1. Present(p)
      BY <1>5, IdleAssumption DEF PeerTimerHandler, IInv, TimerArmed, Off
    <2> QED BY <1>5, <2>1, DisconnectIInv DEF PeerTimerHandler, IInv, TypeOK, NoFault
  <1>6. CASE Tick
    BY <1>6, TickIInv
  <1>7. CASE Shutdown
    BY <1>7, ShutdownIInv
  <1>8. CASE UNCHANGED vars
    BY <1>8 DEF vars, peerVars, chanVars, histVars, IInv, TypeOK, MapsAgree, FiniteChannels,
                TimerArmed, ConnectionKnown, NoFault, ReadyReachesBoth, Present, Open
  <1> QED BY <1>1, <1>2, <1>3, <1>4, <1>5, <1>6, <1>7, <1>8 DEF Next

\* The invariant holds throughout every behaviour of the server.
THEOREM Invariance == Spec => []IInv
  BY InitIInv, NextIInv, PTL DEF Spec

-----------------------------------------------------------------------------
(* The properties.                                                         *)

\* Every variable keeps its type.
THEOREM TypeCorrect == Spec => []TypeOK
  <1>1. IInv => TypeOK
    BY DEF IInv
  <1> QED BY Invariance, <1>1, PTL

\* PeerMap and ChannelMap always agree, whatever clients send and whenever
\* they disconnect or idle out.
THEOREM MapsAlwaysAgree == Spec => []MapsAgree
  <1>1. IInv => MapsAgree
    BY DEF IInv
  <1> QED BY Invariance, <1>1, PTL

\* The unchecked lookups of recv_handler always find their object.
THEOREM NoMissingObject == Spec => []NoFault
  <1>1. IInv => NoFault
    BY DEF IInv
  <1> QED BY Invariance, <1>1, PTL

\* Whoever is in a channel of two has been told so.
THEOREM BothAreTold == Spec => []ReadyReachesBoth
  <1>1. IInv => ReadyReachesBoth
    BY DEF IInv
  <1> QED BY Invariance, <1>1, PTL

\* An established peer always has its idle timer running.
THEOREM TimersRun == Spec => []TimerArmed
  <1>1. IInv => TimerArmed
    BY DEF IInv
  <1> QED BY Invariance, <1>1, PTL

=============================================================================
