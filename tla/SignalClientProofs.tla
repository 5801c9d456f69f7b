------------------------- MODULE SignalClientProofs --------------------------
(***************************************************************************)
(* Proofs about the test program of the signalling server, for any number  *)
(* of pairs of clients and any lengths of the timers.                      *)
(***************************************************************************)
EXTENDS SignalClient, FiniteSetTheorems, TLAPS

-----------------------------------------------------------------------------
(* The counting of clients: the inductive invariant.                       *)

CountTyped ==
    /\ conn \in [Clients -> {"none", "failed", "connecting", "open", "closed"}]
    /\ timer \in [Clients -> 0..Never]
    /\ sent \in [Clients -> BOOLEAN] /\ sendFailed \in [Clients -> BOOLEAN]
    /\ completed \in Nat /\ corrupt \in BOOLEAN

\* Only an open client has a timer that runs, or one whose tcp_send failed.
TimerHeld ==
    \A c \in Clients :
        /\ timer[c] # Never => conn[c] \in {"open", "closed"}
        /\ timer[c] # Never /\ conn[c] = "closed" => sendFailed[c]
        /\ sendFailed[c] => sent[c]

CountInv ==
    /\ CountTyped
    /\ TimerHeld
    /\ ClosedOnce

Gone == {c \in Clients : conn[c] \in {"failed", "closed"}}

LEMMA ClientsFinite ==
  /\ IsFiniteSet(Clients) /\ \A T \in SUBSET Clients : IsFiniteSet(T) /\ Cardinality(T) \in Nat
  <1>1. IsFiniteSet({0, 1})
    <2>1. 0 \in Int /\ 1 \in Int /\ 0..1 = {0, 1}
      OBVIOUS
    <2>2. IsFiniteSet(0..1)
      BY <2>1, FS_Interval
    <2> QED BY <2>1, <2>2
  <1>2. IsFiniteSet(Clients)
    BY <1>1, ClientAssumption, FS_Product DEF Clients
  <1>3. \A T \in SUBSET Clients : IsFiniteSet(T)
    BY <1>2, FS_Subset
  <1> QED BY <1>2, <1>3, FS_CardinalityType

LEMMA InitCountInv == Init => CountInv
  <1> SUFFICES ASSUME Init PROVE CountInv
    OBVIOUS
  <1>1. Never \in 0..Never
    BY ClientAssumption DEF Never
  <1>2. CountTyped /\ TimerHeld
    BY <1>1 DEF Init, CountTyped, TimerHeld
  <1>3. ClosedOnce
    <2>1. {c \in Clients : conn[c] \in {"failed", "closed"}} = {}
      BY DEF Init
    <2> QED BY <2>1, FS_EmptySet DEF Init, ClosedOnce
  <1> QED BY <1>2, <1>3 DEF CountInv

\* One client more is gone.
LEMMA OneMoreGone ==
  ASSUME CountInv, ~corrupt, NEW c \in Clients, conn[c] \notin {"failed", "closed"},
         conn' = [conn EXCEPT ![c] = "closed"], CountClients(1)
  PROVE  completed' \in Nat /\ completed' = Cardinality(Gone')
  <1>1. Gone' = Gone \cup {c} /\ c \notin Gone /\ Gone \in SUBSET Clients
    BY DEF CountInv, CountTyped, Gone
  <1>2. Cardinality(Gone') = Cardinality(Gone) + 1
    BY <1>1, ClientsFinite, FS_AddElement
  <1>3. completed = Cardinality(Gone) /\ completed \in Nat
    BY DEF CountInv, CountTyped, ClosedOnce, Gone
  <1> QED BY <1>2, <1>3 DEF CountClients

\* Nothing changes that the counting is about.
LEMMA CountQuiet ==
  ASSUME CountInv, UNCHANGED <<conn, sent, sendFailed, completed, corrupt>>,
         timer' \in [Clients -> 0..Never],
         \A c \in Clients : timer'[c] # Never => timer[c] # Never \/ conn[c] = "open"
  PROVE  CountInv'
  <1>1. CountTyped' /\ TimerHeld'
    BY DEF CountInv, CountTyped, TimerHeld
  <1>2. ClosedOnce'
    BY DEF CountInv, ClosedOnce
  <1> QED BY <1>1, <1>2 DEF CountInv

LEMMA TimerValues ==
  /\ ClientTicks \in Nat /\ Never \in Nat /\ 0 \in 0..Never /\ Never \in 0..Never
  /\ 0 # Never /\ ClientTicks # Never /\ ClientTicks \in 0..Never
  BY ClientAssumption DEF Never

LEMMA LaunchCount == ASSUME CountInv, NEW p \in Pairs, LaunchPair(p) PROVE CountInv'
  <1>1. PICK failing \in SUBSET {c \in Clients : c[1] = p} :
          /\ conn' = [c \in Clients |->
                IF c \in failing THEN "failed" ELSE IF c[1] = p THEN "connecting" ELSE conn[c]]
          /\ CountClients(Cardinality(failing))
    BY DEF LaunchPair
  <1>2. /\ ~corrupt /\ \A c \in Clients : c[1] = p => conn[c] = "none"
        /\ UNCHANGED <<timer, sent, sendFailed, corrupt>>
    BY DEF LaunchPair
  <1>3. Gone' = Gone \cup failing /\ Gone \cap failing = {}
    BY <1>1, <1>2 DEF Gone, CountInv, CountTyped
  <1>4. Gone \in SUBSET Clients /\ failing \in SUBSET Clients
    BY DEF Gone
  <1>5. Cardinality(Gone') = Cardinality(Gone) + Cardinality(failing)
    <2>1. Cardinality(Gone \cup failing) = Cardinality(Gone) + Cardinality(failing)
      <3>1. IsFiniteSet(Gone) /\ IsFiniteSet(failing)
        BY <1>4, ClientsFinite
      <3>2. Cardinality(Gone) \in Nat /\ Cardinality(failing) \in Nat
        BY <1>4, ClientsFinite
      <3>3. Cardinality(Gone \cup failing)
            = Cardinality(Gone) + Cardinality(failing) - Cardinality(Gone \cap failing)
        BY <3>1, FS_Union
      <3>4. Cardinality(Gone \cap failing) = 0
        BY <1>3, FS_EmptySet
      <3> QED BY <3>2, <3>3, <3>4
    <2> QED BY <1>3, <2>1
  <1>6. completed' = Cardinality(Gone')
    BY <1>1, <1>2, <1>5 DEF CountClients, CountInv, ClosedOnce, Gone
  <1>7. Cardinality(Gone') \in Nat
    BY <1>4, <1>5, ClientsFinite
  <1>8. CountTyped'
    BY <1>1, <1>2, <1>6, <1>7 DEF CountInv, CountTyped
  <1>9. TimerHeld'
    BY <1>1, <1>2 DEF CountInv, CountTyped, TimerHeld
  <1>10. ClosedOnce'
    BY <1>2, <1>6 DEF ClosedOnce, Gone
  <1> QED BY <1>8, <1>9, <1>10 DEF CountInv

\* close_handler, once.
LEMMA CloseCount ==
  ASSUME CountInv, ~corrupt, NEW c \in Clients, CloseClient(c),
         conn[c] \notin {"none", "failed"}, conn[c] = "closed" => sendFailed[c],
         UNCHANGED <<sent, sendFailed>>
  PROVE  CountInv'
  <1>1. /\ timer' = [timer EXCEPT ![c] = Never] /\ conn' = [conn EXCEPT ![c] = "closed"]
        /\ CountClients(1) /\ (corrupt' <=> conn[c] = "closed") /\ corrupt' \in BOOLEAN
    BY DEF CloseClient
  <1>2. completed' \in Nat
    BY <1>1 DEF CountClients, CountInv, CountTyped
  <1>3. CountTyped'
    BY <1>1, <1>2, TimerValues DEF CountInv, CountTyped
  <1>4. TimerHeld'
    BY <1>1 DEF CountInv, CountTyped, TimerHeld
  <1>5. ClosedOnce'
    <2>1. CASE conn[c] = "closed"
      BY <1>1, <2>1 DEF ClosedOnce
    <2>2. CASE conn[c] # "closed"
      <3>1. completed' = Cardinality(Gone')
        BY <1>1, <2>2, OneMoreGone
      <3> QED BY <1>1, <2>2, <3>1 DEF ClosedOnce, Gone
    <2> QED BY <2>1, <2>2
  <1> QED BY <1>3, <1>4, <1>5 DEF CountInv

\* tcp_send fails: the client is closed and its timer goes on.
LEMMA SendFailsCount == ASSUME CountInv, NEW c \in Clients, TimerSendFails(c) PROVE CountInv'
  <1>1. /\ ~corrupt /\ timer[c] = ClientTicks /\ ~sent[c] /\ corrupt' = corrupt
        /\ sendFailed' = [sendFailed EXCEPT ![c] = TRUE] /\ sent' = [sent EXCEPT ![c] = TRUE]
        /\ conn' = [conn EXCEPT ![c] = "closed"] /\ timer' = [timer EXCEPT ![c] = 0]
        /\ CountClients(1)
    BY DEF TimerSendFails
  <1>2. conn[c] = "open"
    BY <1>1, TimerValues DEF CountInv, TimerHeld
  <1>3. completed' \in Nat /\ completed' = Cardinality(Gone')
    BY <1>1, <1>2, OneMoreGone
  <1>4. CountTyped'
    BY <1>1, <1>3, TimerValues DEF CountInv, CountTyped
  <1>5. TimerHeld'
    BY <1>1 DEF CountInv, CountTyped, TimerHeld
  <1>6. ClosedOnce'
    BY <1>1, <1>3 DEF ClosedOnce, Gone
  <1> QED BY <1>4, <1>5, <1>6 DEF CountInv

\* The steps of a client.
LEMMA ClientCount == ASSUME CountInv, NEW c \in Clients, ClientStep(c) PROVE CountInv'
  <1>1. CASE ClientEstablish(c)
    <2>1. /\ ~corrupt /\ corrupt' = corrupt /\ conn[c] = "connecting"
          /\ conn' = [conn EXCEPT ![c] = "open"]
          /\ timer' = [timer EXCEPT ![c] = 0] /\ UNCHANGED <<sent, sendFailed, completed>>
      BY <1>1 DEF ClientEstablish
    <2>2. CountTyped' /\ TimerHeld'
      BY <2>1, TimerValues DEF CountInv, CountTyped, TimerHeld
    <2>3. {q \in Clients : conn'[q] \in {"failed", "closed"}}
          = {q \in Clients : conn[q] \in {"failed", "closed"}}
      BY <2>1 DEF CountInv, CountTyped
    <2>4. ClosedOnce'
      BY <2>1, <2>3 DEF CountInv, ClosedOnce
    <2> QED BY <2>2, <2>4 DEF CountInv
  <1>2. CASE ClientRecv(c)
    <2>1. conn[c] = "open" /\ UNCHANGED <<conn, sent, sendFailed, completed, corrupt>>
      BY <1>2 DEF ClientRecv
    <2>2. timer' \in {timer, [timer EXCEPT ![c] = 0]}
      BY <1>2 DEF ClientRecv
    <2>3. timer' \in [Clients -> 0..Never]
      BY <2>2, TimerValues DEF CountInv, CountTyped
    <2>4. \A q \in Clients : timer'[q] # Never => timer[q] # Never \/ conn[q] = "open"
      BY <2>1, <2>2 DEF CountInv, CountTyped
    <2> QED BY <2>1, <2>3, <2>4, CountQuiet
  <1>3. CASE ClientClosed(c)
    BY <1>3, CloseCount DEF ClientClosed
  <1>4. CASE TimerConnected(c)
    <2>1. /\ timer' = [timer EXCEPT ![c] = Never]
          /\ UNCHANGED <<conn, sent, sendFailed, completed, corrupt>>
      BY <1>4 DEF TimerConnected
    <2>2. timer' \in [Clients -> 0..Never]
      BY <2>1, TimerValues DEF CountInv, CountTyped
    <2>3. \A q \in Clients : timer'[q] # Never => timer[q] # Never
      BY <2>1 DEF CountInv, CountTyped
    <2> QED BY <2>1, <2>2, <2>3, CountQuiet
  <1>5. CASE TimerExchanging(c)
    <2>1. /\ timer[c] = ClientTicks /\ timer' = [timer EXCEPT ![c] = 0]
          /\ sent' = [sent EXCEPT ![c] = TRUE]
          /\ UNCHANGED <<conn, sendFailed, completed, corrupt>>
      BY <1>5 DEF TimerExchanging
    <2>2. CountTyped' /\ TimerHeld'
      BY <2>1, TimerValues DEF CountInv, CountTyped, TimerHeld
    <2>3. ClosedOnce'
      BY <2>1 DEF CountInv, ClosedOnce
    <2> QED BY <2>2, <2>3 DEF CountInv
  <1>6. CASE TimerSendFails(c)
    BY <1>6, SendFailsCount
  <1>7. CASE TimerCompleted(c)
    <2>1. conn[c] \notin {"none", "failed"} /\ (conn[c] = "closed" => sendFailed[c])
      BY <1>7, TimerValues DEF TimerCompleted, CountInv, TimerHeld
    <2> QED BY <1>7, <2>1, CloseCount DEF TimerCompleted
  <1> QED BY <1>1, <1>2, <1>3, <1>4, <1>5, <1>6, <1>7 DEF ClientStep, ClientTimer

LEMMA StepCountInv == CountInv /\ [Next]_vars => CountInv'
  <1> SUFFICES ASSUME CountInv, [Next]_vars PROVE CountInv'
    OBVIOUS
  <1>1. CASE \E p \in Pairs : LaunchPair(p)
    BY <1>1, LaunchCount
  <1>2. CASE \E c \in Clients : ClientStep(c)
    BY <1>2, ClientCount
  <1>3. CASE UNCHANGED <<conn, timer, sent, sendFailed, completed, corrupt>>
    BY <1>3, CountQuiet DEF CountInv, CountTyped
  <1>4. CASE Tick
    <2>1. /\ UNCHANGED <<conn, sent, sendFailed, completed, corrupt>>
          /\ timer' = [c \in Clients |-> IF timer[c] < ClientTicks THEN timer[c] + 1 ELSE timer[c]]
      BY <1>4 DEF Tick
    <2>2. \A c \in Clients : timer[c] \in 0..Never
      BY DEF CountInv, CountTyped
    <2>3. timer' \in [Clients -> 0..Never]
      BY <2>1, <2>2, TimerValues DEF Never
    <2>4. \A c \in Clients : timer'[c] # Never => timer[c] # Never
      BY <2>1, <2>2, TimerValues DEF Never
    <2> QED BY <2>1, <2>3, <2>4, CountQuiet
  <1>5. CASE \E c \in Clients : ServerStep(c)
    BY <1>3, <1>5 DEF ServerStep, ServerAccept, ServerEstablish, ServerRecv, ServerClosed,
                      ServerTimer, clientVars
  <1>6. CASE ClientSignal \/ ServerShutdown
    BY <1>3, <1>6 DEF ClientSignal, ServerShutdown, clientVars
  <1>7. CASE UNCHANGED vars
    BY <1>3, <1>7 DEF vars, clientVars
  <1> QED BY <1>1, <1>2, <1>4, <1>5, <1>6, <1>7 DEF Next

\* tcpConn is released twice only by a client whose tcp_send failed, and as
\* long as none is, g_clientsCompleted is the number of clients that are gone,
\* for any number of pairs.
THEOREM CountedOnce == Spec => []ClosedOnce
  <1>1. CountInv => ClosedOnce
    BY DEF CountInv
  <1> QED BY <1>1, InitCountInv, StepCountInv, PTL DEF Spec
-----------------------------------------------------------------------------
(* The exchange of candidates: the inductive invariant.                    *)

\* What is under way to the server in client c's stream, and to client c:
\* candidates are there only after they have been handed to TCP, and a client
\* is on the way to getting those of its partner only.
UpOf(c) ==
    {x \in [id : {"ChannelID", "PeerCandidates"}, from : {c}, part : {"whole", "tail"}] :
        x.id = "PeerCandidates" => Handed(c)}
DownOf(c) ==
    {x \in Chunks : x.id = "PeerCandidates" => x.from = Partner(c) /\ Handed(Partner(c))}

ExchangeTyped ==
    /\ peerState \in [Clients -> S!PeerStates \cup {S!Absent}]
    /\ peerChannel \in [Clients -> Pairs \cup {Cut, S!NoChannelId}]
    /\ chanPeers \in [Pairs \cup {Cut} -> SUBSET Clients]
    /\ clientState \in [Clients -> {"None", "Connected", "Exchanging", "Completed"}]
    /\ rcvd \in [Clients -> BOOLEAN] /\ sent \in [Clients -> BOOLEAN]
    /\ sendFailed \in [Clients -> BOOLEAN] /\ DOMAIN got = Clients
    /\ DOMAIN toServer = Clients /\ DOMAIN toClient = Clients

QueuesSent ==
    \A c \in Clients : toServer[c] \in Seq(UpOf(c)) /\ toClient[c] \in Seq(DownOf(c))

CutTail(c) == [id |-> "ChannelID", from |-> c, part |-> "tail"]

\* A client is in the channel of its pair, or in that of cut names: then the
\* rest of the message is the next thing the server reads from it.
AtServer(c) ==
    /\ \A ch \in Pairs \cup {Cut} :
        c \in chanPeers[ch] => peerState[c] \in S!InChannelStates /\ peerChannel[c] = ch
    /\ peerState[c] \in S!InChannelStates => peerChannel[c] \in {c[1], Cut}
    /\ peerState[c] \in S!InChannelStates /\ peerChannel[c] = Cut =>
        peerState[c] = "Valid" /\ toServer[c] # <<>> /\ Head(toServer[c]) = CutTail(c)

InChannels == \A c \in Clients : AtServer(c)

Received ==
    \A c \in Clients :
        /\ got[c] = IF rcvd[c] THEN {Partner(c)} ELSE {}
        /\ rcvd[c] => Handed(Partner(c))
        /\ clientState[c] = "Completed" => rcvd[c] /\ sent[c]

ExchangeInv ==
    /\ ExchangeTyped
    /\ \A c \in Clients : sendFailed[c] => sent[c]
    /\ QueuesSent
    /\ InChannels
    /\ Received

LEMMA PartnerFacts ==
  \A c \in Clients :
    /\ Partner(c) \in Clients /\ Partner(Partner(c)) = c
    /\ c[1] \in Pairs /\ c[1] # Cut
    /\ \A q \in Clients : q[1] = c[1] /\ q # c => q = Partner(c)
  <1> SUFFICES ASSUME NEW c \in Clients
               PROVE  /\ Partner(c) \in Clients /\ Partner(Partner(c)) = c
                      /\ c[1] \in Pairs /\ c[1] # Cut
                      /\ \A q \in Clients : q[1] = c[1] /\ q # c => q = Partner(c)
    OBVIOUS
  <1>1. PICK p \in Pairs, i \in {0, 1} : c = <<p, i>>
    BY DEF Clients
  <1>2. Partner(c) = <<p, 1 - i>> /\ 1 - i \in {0, 1} /\ 1 - (1 - i) = i
    BY <1>1 DEF Partner
  <1>3. Partner(c) \in Clients /\ Partner(Partner(c)) = c
    BY <1>1, <1>2 DEF Partner, Clients
  <1>4. c[1] \in Pairs /\ c[1] # Cut
    BY <1>1, ClientAssumption
  <1>5. ASSUME NEW q \in Clients, q[1] = c[1], q # c PROVE q = Partner(c)
    <2>1. PICK r \in Pairs, j \in {0, 1} : q = <<r, j>>
      BY DEF Clients
    <2>2. r = p /\ j # i
      BY <1>1, <1>5, <2>1
    <2>3. j = 1 - i
      BY <2>2
    <2> QED BY <1>2, <2>1, <2>2, <2>3
  <1> QED BY <1>3, <1>4, <1>5

\* A queue of chunks of one kind is one of any larger kind.
LEMMA SeqMonotone ==
  ASSUME NEW A, NEW B, A \subseteq B, NEW q \in Seq(A) PROVE q \in Seq(B)
  OBVIOUS

\* What TCP hands over of a queue q of chunks from A, and what it keeps.
Delivered(A, q, d) ==
    /\ d.rest \o Tail(q) \in Seq(A)
    /\ Head(q) \in A /\ d.chunk \in Chunks
    /\ d.chunk.id = Head(q).id /\ d.chunk.from = Head(q).from
    /\ d.chunk = Head(q) \/ (Head(q).part = "whole" /\ d.chunk.part = "head")
    /\ Head(q).part = "whole" /\ d.chunk.part = "head" =>
        /\ d.rest \o Tail(q) # <<>>
        /\ Head(d.rest \o Tail(q)) = [Head(q) EXCEPT !.part = "tail"]

LEMMA DeliveriesKeep ==
  ASSUME NEW A \in SUBSET Chunks, \A x \in A : [x EXCEPT !.part = "tail"] \in A,
         NEW q \in Seq(A), q # <<>>, NEW d \in Deliveries(Head(q))
  PROVE  Delivered(A, q, d)
  <1> DEFINE x == Head(q)
  <1>1. x \in A /\ x \in Chunks /\ Tail(q) \in Seq(A)
    OBVIOUS
  <1>2. CASE d = [chunk |-> x, rest |-> <<>>]
    <2>1. d.chunk = x /\ d.rest \o Tail(q) = Tail(q)
      BY <1>1, <1>2
    <2> QED BY <1>1, <2>1 DEF Chunks, Delivered
  <1>3. CASE /\ x.part = "whole"
             /\ d = [chunk |-> [x EXCEPT !.part = "head"], rest |-> <<[x EXCEPT !.part = "tail"]>>]
    <2> DEFINE t == [x EXCEPT !.part = "tail"]
    <2>1. t \in A /\ d.rest = <<t>> /\ d.chunk = [x EXCEPT !.part = "head"]
      BY <1>1, <1>3
    <2>2. d.chunk \in Chunks /\ d.chunk.id = x.id /\ d.chunk.from = x.from /\ d.chunk.part = "head"
      BY <1>1, <2>1 DEF Chunks
    <2> HIDE DEF t
    <2>3. <<t>> \o Tail(q) \in Seq(A) /\ <<t>> \o Tail(q) # <<>> /\ Head(<<t>> \o Tail(q)) = t
      BY <1>1, <2>1
    <2> QED BY <1>1, <1>3, <2>1, <2>2, <2>3 DEF t, Delivered
  <1> QED BY <1>2, <1>3 DEF Deliveries

\* What the server makes of a chunk.
LEMMA ReadsFacts ==
  ASSUME NEW c \in Clients, NEW x \in [id : {"ChannelID", "PeerCandidates"}, from : {c},
                                       part : {"whole", "head", "tail"}],
         NEW m \in Reads(c, x)
  PROVE  /\ m.channel \in {c[1], Cut, S!NoChannelId}
         /\ m.channel = c[1] /\ m.channel # S!NoChannelId => x.part = "whole"
         /\ m.channel = Cut /\ m.channel # S!NoChannelId => x.part = "head" /\ x.id = "ChannelID"
         /\ m.id = "PeerCandidates" => x.id = "PeerCandidates" /\ x.part # "tail"
  <1>1. c[1] # Cut
    BY PartnerFacts
  <1>2. CASE x = Whole("ChannelID", c)
    BY <1>1, <1>2 DEF Reads, Whole
  <1>3. CASE x = Whole("PeerCandidates", c)
    BY <1>1, <1>3 DEF Reads, Whole
  <1>4. CASE x.part = "head"
    BY <1>1, <1>4 DEF Reads, Whole
  <1>5. CASE x.part = "tail"
    BY <1>1, <1>5 DEF Reads, Whole
  <1> QED BY <1>2, <1>3, <1>4, <1>5 DEF Whole

LEMMA InitExchangeInv == Init => ExchangeInv
  <1> SUFFICES ASSUME Init PROVE ExchangeInv
    OBVIOUS
  <1>1. ExchangeTyped
    BY DEF Init, S!Init, ExchangeTyped, S!PeerStates
  <1>2. QueuesSent
    BY DEF Init, QueuesSent
  <1>3. InChannels
    BY DEF Init, S!Init, InChannels, AtServer, S!InChannelStates, S!Absent
  <1>4. Received
    BY DEF Init, Received
  <1>5. \A c \in Clients : sendFailed[c] => sent[c]
    BY DEF Init
  <1> QED BY <1>1, <1>2, <1>3, <1>4, <1>5 DEF ExchangeInv

\* The channels depend on the maps of the server and the heads of the queues.
LEMMA InChannelsKept ==
  ASSUME InChannels, UNCHANGED <<peerState, peerChannel, chanPeers>>,
         \A c \in Clients : toServer[c] # <<>> =>
            toServer'[c] # <<>> /\ Head(toServer'[c]) = Head(toServer[c])
  PROVE  InChannels'
  BY DEF InChannels, AtServer

\* Candidates once handed over stay so.
LEMMA MoreSent ==
  ASSUME ExchangeTyped, \A c \in Clients : Handed(c) => Handed(c)', NEW c \in Clients
  PROVE  UpOf(c) \subseteq UpOf(c)' /\ DownOf(c) \subseteq DownOf(c)'
  BY PartnerFacts DEF UpOf, DownOf

\* A step of a client that receives nothing: at most one message is sent.
LEMMA SendKeeps ==
  ASSUME ExchangeInv, NEW c \in Clients, NEW id \in {"ChannelID", "PeerCandidates"},
         UNCHANGED toServer \/ (ToServer(c, id) /\ (id = "PeerCandidates" => Handed(c)')),
         sent' \in [Clients -> BOOLEAN], sendFailed' \in [Clients -> BOOLEAN],
         \A q \in Clients : (sendFailed'[q] => sent'[q]) /\ (Handed(q) => Handed(q)'),
         UNCHANGED <<peerState, peerChannel, chanPeers, toClient, rcvd, got>>,
         clientState' \in [Clients -> {"None", "Connected", "Exchanging", "Completed"}],
         \A q \in Clients : clientState'[q] = "Completed" => rcvd[q] /\ sent'[q]
  PROVE  ExchangeInv'
  <1>1. \A q \in Clients : UpOf(q) \subseteq UpOf(q)' /\ DownOf(q) \subseteq DownOf(q)'
    BY MoreSent DEF ExchangeInv
  <1>2. \A q \in Clients : toServer[q] \in Seq(UpOf(q)') /\ toClient[q] \in Seq(DownOf(q)')
    BY <1>1, SeqMonotone DEF ExchangeInv, QueuesSent
  <1>3. (id = "PeerCandidates" => Handed(c)') => Whole(id, c) \in UpOf(c)'
    BY DEF Whole, UpOf
  <1>4. DOMAIN toServer' = Clients /\ \A q \in Clients :
          \/ toServer'[q] = toServer[q]
          \/ /\ q = c /\ toServer'[q] = Append(toServer[q], Whole(id, c))
             /\ id = "PeerCandidates" => Handed(c)'
    BY DEF ToServer, ExchangeInv, ExchangeTyped
  <1>5. \A q \in Clients :
          /\ toServer'[q] \in Seq(UpOf(q)')
          /\ toServer[q] # <<>> => toServer'[q] # <<>> /\ Head(toServer'[q]) = Head(toServer[q])
    <2> TAKE q \in Clients
    <2>1. CASE toServer'[q] = toServer[q]
      BY <1>2, <2>1
    <2>2. CASE /\ q = c /\ toServer'[q] = Append(toServer[q], Whole(id, c))
               /\ id = "PeerCandidates" => Handed(c)'
      <3> DEFINE B == UpOf(q)'
                 w == Whole(id, c)
                 old == toServer[q]
      <3>1. w \in B /\ old \in Seq(B)
        BY <1>2, <1>3, <2>2
      <3> HIDE DEF B, w, old
      <3>2. Append(old, w) \in Seq(B) /\ (old # <<>> => Append(old, w) # <<>> /\ Head(Append(old, w)) = Head(old))
        BY <3>1
      <3> QED BY <2>2, <3>2 DEF B, w, old
    <2> QED BY <1>4, <2>1, <2>2
  <1>6. ExchangeTyped'
    BY <1>4 DEF ExchangeInv, ExchangeTyped
  <1>7. QueuesSent'
    BY <1>2, <1>5 DEF QueuesSent
  <1>8. InChannels'
    BY <1>5, InChannelsKept DEF ExchangeInv
  <1>9. Received'
    BY PartnerFacts DEF ExchangeInv, Received
  <1> QED BY <1>6, <1>7, <1>8, <1>9 DEF ExchangeInv

\* recv_handler of a client.
LEMMA ClientRecvKeeps == ASSUME ExchangeInv, NEW c \in Clients, ClientRecv(c) PROVE ExchangeInv'
  <1>1. PICK d \in Deliveries(Head(toClient[c])) :
          /\ toClient' = [toClient EXCEPT ![c] = d.rest \o Tail(@)]
          /\ \/ /\ d.chunk.id = "PeerCandidates"
                /\ rcvd' = [rcvd EXCEPT ![c] = TRUE]
                /\ got' = [got EXCEPT ![c] = @ \cup {d.chunk.from}]
                /\ clientState' = [clientState EXCEPT ![c] = AfterCandidates(c, sent[c], TRUE)]
             \/ /\ clientState' \in {clientState, [clientState EXCEPT ![c] = "Exchanging"]}
                /\ UNCHANGED <<rcvd, got>>
    BY DEF ClientRecv
  <1>2. /\ toClient[c] # <<>> /\ toClient[c] \in Seq(DownOf(c)) /\ DownOf(c) \in SUBSET Chunks
        /\ UNCHANGED <<peerState, peerChannel, chanPeers, toServer, sent, sendFailed>>
    BY DEF ClientRecv, ExchangeInv, QueuesSent, DownOf, serverVars
  <1>3. \A x \in DownOf(c) : [x EXCEPT !.part = "tail"] \in DownOf(c)
    BY DEF DownOf, Chunks
  <1>4. d.rest \o Tail(toClient[c]) \in Seq(DownOf(c)) /\ Head(toClient[c]) \in DownOf(c)
        /\ d.chunk.id = Head(toClient[c]).id /\ d.chunk.from = Head(toClient[c]).from
    <2>1. Delivered(DownOf(c), toClient[c], d)
      BY <1>1, <1>2, <1>3, DeliveriesKeep
    <2> QED BY <2>1 DEF Delivered
  <1>5. d.chunk.id = "PeerCandidates" => d.chunk.from = Partner(c) /\ Handed(Partner(c))
    BY <1>4 DEF DownOf
  <1>6. DOMAIN toClient' = Clients /\ \A q \in Clients : toClient'[q] \in Seq(DownOf(q))
    BY <1>1, <1>4 DEF ExchangeInv, ExchangeTyped, QueuesSent
  <1>7. \A q \in Clients : UpOf(q)' = UpOf(q) /\ DownOf(q)' = DownOf(q)
    BY <1>2 DEF UpOf, DownOf, Handed
  <1>8. ExchangeTyped'
    BY <1>1, <1>2, <1>6 DEF ExchangeInv, ExchangeTyped, AfterCandidates
  <1>9. QueuesSent'
    BY <1>2, <1>6, <1>7 DEF ExchangeInv, QueuesSent
  <1>10. InChannels'
    BY <1>2, InChannelsKept DEF ExchangeInv
  <1>11. Received'
    <2>1. \A q \in Clients : Handed(Partner(q))' = Handed(Partner(q))
      BY <1>2 DEF Handed
    <2>2. CASE /\ d.chunk.id = "PeerCandidates"
               /\ rcvd' = [rcvd EXCEPT ![c] = TRUE]
               /\ got' = [got EXCEPT ![c] = @ \cup {d.chunk.from}]
               /\ clientState' = [clientState EXCEPT ![c] = AfterCandidates(c, sent[c], TRUE)]
      <3>1. got'[c] = {Partner(c)} /\ rcvd'[c] /\ Handed(Partner(c))
        BY <1>5, <2>2 DEF ExchangeInv, Received, ExchangeTyped
      <3> QED BY <1>2, <2>1, <2>2, <3>1 DEF ExchangeInv, Received, ExchangeTyped, AfterCandidates
    <2>3. CASE /\ clientState' \in {clientState, [clientState EXCEPT ![c] = "Exchanging"]}
               /\ UNCHANGED <<rcvd, got>>
      BY <1>2, <2>1, <2>3 DEF ExchangeInv, Received, ExchangeTyped
    <2> QED BY <1>1, <2>2, <2>3
  <1> QED BY <1>2, <1>8, <1>9, <1>10, <1>11 DEF ExchangeInv

LEMMA ClientKeeps == ASSUME ExchangeInv, NEW c \in Clients, ClientStep(c) PROVE ExchangeInv'
  <1>1. CASE ClientRecv(c)
    BY <1>1, ClientRecvKeeps
  <1>2. CASE ClientEstablish(c)
    <2>1. /\ clientState' = [clientState EXCEPT ![c] = "Connected"]
          /\ UNCHANGED <<peerState, peerChannel, chanPeers, toServer, toClient, rcvd, got, sent,
                         sendFailed>>
      BY <1>2 DEF ClientEstablish, serverVars, netVars
    <2> QED BY <2>1, SendKeeps DEF ExchangeInv, ExchangeTyped, Received, Handed
  <1>3. CASE ClientClosed(c) \/ TimerCompleted(c)
    <2>1. UNCHANGED <<peerState, peerChannel, chanPeers, toServer, toClient, rcvd, got, sent,
                      sendFailed, clientState>>
      BY <1>3 DEF ClientClosed, TimerCompleted, serverVars, netVars
    <2> QED BY <2>1, SendKeeps DEF ExchangeInv, ExchangeTyped, Received, Handed
  <1>4. CASE TimerConnected(c)
    <2>1. /\ ToServer(c, "ChannelID")
          /\ UNCHANGED <<peerState, peerChannel, chanPeers, toClient, rcvd, got, sent, sendFailed,
                         clientState>>
      BY <1>4 DEF TimerConnected, serverVars
    <2> QED BY <2>1, SendKeeps, "ChannelID" # "PeerCandidates"
            DEF ExchangeInv, ExchangeTyped, Received, Handed
  <1>5. CASE TimerExchanging(c) \/ TimerSendFails(c)
    <2>1. /\ UNCHANGED toServer \/ (ToServer(c, "PeerCandidates") /\ ~sent[c] /\ UNCHANGED sendFailed)
          /\ sent' = [sent EXCEPT ![c] = TRUE]
          /\ \/ UNCHANGED sendFailed
             \/ ~sent[c] /\ UNCHANGED toServer /\ sendFailed' = [sendFailed EXCEPT ![c] = TRUE]
          /\ clientState' = [clientState EXCEPT ![c] = AfterCandidates(c, TRUE, rcvd[c])]
          /\ UNCHANGED <<peerState, peerChannel, chanPeers, toClient, rcvd, got>>
      BY <1>5 DEF TimerExchanging, TimerSendFails, serverVars, netVars
    <2>2. /\ sent' \in [Clients -> BOOLEAN] /\ sent'[c]
          /\ sendFailed' \in [Clients -> BOOLEAN]
          /\ \A q \in Clients : sent[q] => sent'[q]
          /\ \A q \in Clients : (sendFailed'[q] => sent'[q]) /\ (Handed(q) => Handed(q)')
      BY <2>1 DEF ExchangeInv, ExchangeTyped, Handed
    <2>3. UNCHANGED toServer \/ (ToServer(c, "PeerCandidates") /\ Handed(c)')
      BY <2>1, <2>2 DEF Handed, ExchangeInv
    <2>4. /\ clientState' \in [Clients -> {"None", "Connected", "Exchanging", "Completed"}]
          /\ \A q \in Clients : clientState'[q] = "Completed" => rcvd[q] /\ sent'[q]
      BY <2>1, <2>2 DEF ExchangeInv, ExchangeTyped, Received, AfterCandidates
    <2> QED BY <2>1, <2>2, <2>3, <2>4, SendKeeps
  <1> QED BY <1>1, <1>2, <1>3, <1>4, <1>5 DEF ClientStep, ClientTimer

\* A step of the server that leaves the queues to the clients and to the
\* server sound and the channels right.
LEMMA ServerFrame ==
  ASSUME ExchangeInv, UNCHANGED <<clientState, rcvd, got, sent, sendFailed>>,
         peerState' \in [Clients -> S!PeerStates \cup {S!Absent}],
         peerChannel' \in [Clients -> Pairs \cup {Cut, S!NoChannelId}],
         chanPeers' \in [Pairs \cup {Cut} -> SUBSET Clients],
         DOMAIN toServer' = Clients, DOMAIN toClient' = Clients,
         \A c \in Clients : toServer'[c] \in Seq(UpOf(c)) /\ toClient'[c] \in Seq(DownOf(c)),
         InChannels'
  PROVE  ExchangeInv'
  <1>1. \A c \in Clients : UpOf(c)' = UpOf(c) /\ DownOf(c)' = DownOf(c)
    BY DEF UpOf, DownOf, Handed
  <1>2. ExchangeTyped' /\ QueuesSent'
    BY <1>1 DEF ExchangeInv, ExchangeTyped, QueuesSent
  <1>3. Received'
    BY DEF ExchangeInv, Received, Handed
  <1> QED BY <1>2, <1>3 DEF ExchangeInv

\* PeerManager::DisconnectPeer takes one client out of its channel.
LEMMA DisconnectKeeps ==
  ASSUME ExchangeInv, NEW c \in Clients, S!DisconnectPeer(c),
         \A q \in Clients \ {c} : toServer'[q] = toServer[q]
  PROVE  /\ peerState' \in [Clients -> S!PeerStates \cup {S!Absent}]
         /\ peerChannel' \in [Clients -> Pairs \cup {Cut, S!NoChannelId}]
         /\ chanPeers' \in [Pairs \cup {Cut} -> SUBSET Clients]
         /\ InChannels'
  <1>1. /\ peerState' = [peerState EXCEPT ![c] = S!Absent]
        /\ peerChannel' = [peerChannel EXCEPT ![c] = S!NoChannelId]
        /\ chanPeers' = [ch \in Pairs \cup {Cut} |->
              IF ch = peerChannel[c] THEN chanPeers[ch] \ {c} ELSE chanPeers[ch]]
    BY DEF S!DisconnectPeer
  <1>2. /\ peerState' \in [Clients -> S!PeerStates \cup {S!Absent}]
        /\ peerChannel' \in [Clients -> Pairs \cup {Cut, S!NoChannelId}]
        /\ chanPeers' \in [Pairs \cup {Cut} -> SUBSET Clients]
    BY <1>1 DEF ExchangeInv, ExchangeTyped
  <1>3. AtServer(c)'
    BY <1>1 DEF ExchangeInv, ExchangeTyped, InChannels, AtServer, S!InChannelStates, S!Absent
  <1>4. ASSUME NEW q \in Clients, q # c PROVE AtServer(q)'
    <2>1. toServer'[q] = toServer[q] /\ peerState'[q] = peerState[q] /\ peerChannel'[q] = peerChannel[q]
      BY <1>1, <1>4 DEF ExchangeInv, ExchangeTyped
    <2>2. \A ch \in Pairs \cup {Cut} : q \in chanPeers'[ch] => q \in chanPeers[ch]
      BY <1>1
    <2> QED BY <2>1, <2>2 DEF ExchangeInv, InChannels, AtServer
  <1>5. InChannels'
    BY <1>3, <1>4 DEF InChannels
  <1> QED BY <1>2, <1>5

\* connect_handler
LEMMA AcceptKeeps == ASSUME ExchangeInv, NEW c \in Clients, ServerAccept(c) PROVE ExchangeInv'
  <1>1. /\ peerState[c] = S!Absent
        /\ peerState' = [peerState EXCEPT ![c] = "NoChannel"] \/ peerState' = peerState
        /\ UNCHANGED <<peerChannel, chanPeers, toServer, toClient, clientState, rcvd, got, sent, sendFailed>>
    BY DEF ServerAccept, S!ConnectHandler, S!Present, S!chanVars, clientVars
  <1>2. peerState' \in [Clients -> S!PeerStates \cup {S!Absent}]
    BY <1>1 DEF ExchangeInv, ExchangeTyped, S!PeerStates
  <1>3. InChannels'
    BY <1>1 DEF ExchangeInv, ExchangeTyped, InChannels, AtServer, S!InChannelStates, S!Absent
  <1> QED BY <1>1, <1>2, <1>3, ServerFrame DEF ExchangeInv, ExchangeTyped, QueuesSent

\* close_handler and peer_timer_handler
LEMMA ClosedKeeps ==
  ASSUME ExchangeInv, NEW c \in Clients, ServerClosed(c) \/ ServerTimer(c) PROVE ExchangeInv'
  <1>1. S!DisconnectPeer(c) /\ UNCHANGED <<toServer, toClient, clientState, rcvd, got, sent, sendFailed>>
    BY DEF ServerClosed, ServerTimer, S!CloseHandler, S!PeerTimerHandler, clientVars
  <1> QED BY <1>1, DisconnectKeeps, ServerFrame DEF ExchangeInv, ExchangeTyped, QueuesSent

\* PeerManager::Shutdown
LEMMA ShutdownKeeps == ASSUME ExchangeInv, ServerShutdown PROVE ExchangeInv'
  <1>1. /\ peerState' = [c \in Clients |-> S!Absent]
        /\ peerChannel' = [c \in Clients |-> S!NoChannelId]
        /\ chanPeers' = [ch \in Pairs \cup {Cut} |-> {}]
        /\ UNCHANGED <<toServer, toClient, clientState, rcvd, got, sent, sendFailed>>
    BY DEF ServerShutdown, S!Shutdown, clientVars
  <1>2. InChannels'
    BY <1>1 DEF InChannels, AtServer, S!InChannelStates, S!Absent
  <1> QED BY <1>1, <1>2, ServerFrame DEF ExchangeInv, ExchangeTyped, QueuesSent

\* The client is put into the channel its message names.
LEMMA EnterKeeps ==
  ASSUME ExchangeInv, NEW c \in Clients, NEW ch \in {c[1], Cut},
         peerState[c] = "NoChannel",
         peerState' = [peerState EXCEPT ![c] = "Valid"],
         peerChannel' = [peerChannel EXCEPT ![c] = ch],
         chanPeers' \in [Pairs \cup {Cut} -> SUBSET Clients],
         \A k \in Pairs \cup {Cut} : chanPeers'[k] \subseteq
            chanPeers[k] \cup IF k = ch THEN {c} ELSE {},
         \A q \in Clients \ {c} : toServer'[q] = toServer[q],
         ch = Cut => toServer'[c] # <<>> /\ Head(toServer'[c]) = CutTail(c)
  PROVE  /\ peerState' \in [Clients -> S!PeerStates \cup {S!Absent}]
         /\ peerChannel' \in [Clients -> Pairs \cup {Cut, S!NoChannelId}]
         /\ InChannels'
  <1>1. /\ peerState' \in [Clients -> S!PeerStates \cup {S!Absent}]
        /\ peerChannel' \in [Clients -> Pairs \cup {Cut, S!NoChannelId}]
    BY PartnerFacts DEF ExchangeInv, ExchangeTyped, S!PeerStates
  <1>2. AtServer(c)'
    <2>1. peerState'[c] = "Valid" /\ peerChannel'[c] = ch
      BY DEF ExchangeInv, ExchangeTyped
    <2>2. \A k \in Pairs \cup {Cut} : c \in chanPeers'[k] => k = ch
      BY DEF ExchangeInv, InChannels, AtServer, S!InChannelStates
    <2> QED BY <2>1, <2>2 DEF AtServer, S!InChannelStates
  <1>3. ASSUME NEW q \in Clients, q # c PROVE AtServer(q)'
    <2>1. toServer'[q] = toServer[q] /\ peerState'[q] = peerState[q] /\ peerChannel'[q] = peerChannel[q]
      BY <1>3 DEF ExchangeInv, ExchangeTyped
    <2>2. \A k \in Pairs \cup {Cut} : q \in chanPeers'[k] => q \in chanPeers[k]
      BY <1>3
    <2> QED BY <2>1, <2>2 DEF ExchangeInv, InChannels, AtServer
  <1> QED BY <1>1, <1>2, <1>3 DEF InChannels

\* A message to some clients enters their streams.
LEMMA AppendKeeps ==
  ASSUME ExchangeInv, NEW T, NEW x, \A q \in Clients : q \in T => x \in DownOf(q),
         toClient' = [q \in Clients |-> IF q \in T THEN Append(toClient[q], x) ELSE toClient[q]]
  PROVE  DOMAIN toClient' = Clients /\ \A q \in Clients : toClient'[q] \in Seq(DownOf(q))
  <1>1. ASSUME NEW q \in Clients PROVE toClient'[q] \in Seq(DownOf(q))
    <2> DEFINE B == DownOf(q)
               old == toClient[q]
    <2>1. old \in Seq(B) /\ (q \in T => x \in B)
      BY DEF ExchangeInv, QueuesSent
    <2>2. toClient'[q] = IF q \in T THEN Append(old, x) ELSE old
      OBVIOUS
    <2> HIDE DEF B, old
    <2>3. q \in T => Append(old, x) \in Seq(B)
      BY <2>1
    <2> QED BY <2>1, <2>2, <2>3 DEF B
  <1> QED BY <1>1

\* recv_handler of the server.
LEMMA ServerRecvKeeps == ASSUME ExchangeInv, NEW c \in Clients, ServerRecv(c) PROVE ExchangeInv'
  <1> DEFINE first == Head(toServer[c])
  <1>1. PICK d \in Deliveries(first) :
          /\ toServer' = [toServer EXCEPT ![c] = d.rest \o Tail(@)]
          /\ \E m \in Reads(c, d.chunk) :
              \/ /\ S!RecvRejected(c, m) \/ S!RecvCreateChannel(c, m) \/ S!RecvIgnored(c, m)
                 /\ UNCHANGED toClient
              \/ /\ S!RecvJoinChannel(c, m)
                 /\ toClient' = [q \in Clients |->
                      IF q \in chanPeers'[m.channel]
                      THEN Append(toClient[q], Whole("ChannelReady", c)) ELSE toClient[q]]
              \/ /\ S!RecvCandidates(c, m)
                 /\ toClient' = [q \in Clients |->
                      IF q \in S!Others(c) THEN Append(toClient[q], d.chunk) ELSE toClient[q]]
    BY DEF ServerRecv
  <1>2. PICK m \in Reads(c, d.chunk) :
              \/ /\ S!RecvRejected(c, m) \/ S!RecvCreateChannel(c, m) \/ S!RecvIgnored(c, m)
                 /\ UNCHANGED toClient
              \/ /\ S!RecvJoinChannel(c, m)
                 /\ toClient' = [q \in Clients |->
                      IF q \in chanPeers'[m.channel]
                      THEN Append(toClient[q], Whole("ChannelReady", c)) ELSE toClient[q]]
              \/ /\ S!RecvCandidates(c, m)
                 /\ toClient' = [q \in Clients |->
                      IF q \in S!Others(c) THEN Append(toClient[q], d.chunk) ELSE toClient[q]]
    BY <1>1
  <1>3. toServer[c] # <<>> /\ toServer[c] \in Seq(UpOf(c)) /\ UpOf(c) \in SUBSET Chunks
    BY DEF ServerRecv, ExchangeInv, QueuesSent, UpOf, Chunks
  <1>4. \A x \in UpOf(c) : [x EXCEPT !.part = "tail"] \in UpOf(c)
    BY DEF UpOf
  <1>5. /\ d.rest \o Tail(toServer[c]) \in Seq(UpOf(c))
        /\ first \in UpOf(c) /\ d.chunk \in Chunks
        /\ d.chunk.id = first.id /\ d.chunk.from = first.from
        /\ d.chunk = first \/ (first.part = "whole" /\ d.chunk.part = "head")
        /\ first.part = "whole" /\ d.chunk.part = "head" =>
              /\ d.rest \o Tail(toServer[c]) # <<>>
              /\ Head(d.rest \o Tail(toServer[c])) = [first EXCEPT !.part = "tail"]
    <2>1. Delivered(UpOf(c), toServer[c], d)
      BY <1>1, <1>3, <1>4, DeliveriesKeep
    <2> QED BY <2>1 DEF Delivered
  <1>6. /\ toServer'[c] = d.rest \o Tail(toServer[c])
        /\ DOMAIN toServer' = Clients /\ \A q \in Clients \ {c} : toServer'[q] = toServer[q]
    BY <1>1 DEF ExchangeInv, ExchangeTyped
  <1>7. \A q \in Clients : toServer'[q] \in Seq(UpOf(q))
    BY <1>5, <1>6 DEF ExchangeInv, QueuesSent
  <1>8. /\ first \in [id : {"ChannelID", "PeerCandidates"}, from : {c}, part : {"whole", "tail"}]
        /\ d.chunk \in [id : {"ChannelID", "PeerCandidates"}, from : {c},
                        part : {"whole", "head", "tail"}]
    BY <1>5 DEF UpOf, Chunks
  <1>9. UNCHANGED <<clientState, rcvd, got, sent, sendFailed>>
    BY DEF ServerRecv, clientVars
  <1> DEFINE typed ==
        /\ peerState' \in [Clients -> S!PeerStates \cup {S!Absent}]
        /\ peerChannel' \in [Clients -> Pairs \cup {Cut, S!NoChannelId}]
        /\ chanPeers' \in [Pairs \cup {Cut} -> SUBSET Clients]
  <1>10. SUFFICES /\ typed /\ InChannels' /\ DOMAIN toClient' = Clients
                  /\ \A q \in Clients : toClient'[q] \in Seq(DownOf(q))
    BY <1>6, <1>7, <1>9, ServerFrame
  <1>11. ASSUME UNCHANGED toClient
         PROVE  DOMAIN toClient' = Clients /\ \A q \in Clients : toClient'[q] \in Seq(DownOf(q))
    BY <1>11 DEF ExchangeInv, ExchangeTyped, QueuesSent
  <1>12. CASE S!RecvRejected(c, m) /\ UNCHANGED toClient
    BY <1>6, <1>11, <1>12, DisconnectKeeps DEF S!RecvRejected
  <1>13. ASSUME peerState[c] = "NoChannel", ~S!Rejects(c, m)
         PROVE  /\ m.channel \in {c[1], Cut}
                /\ m.channel = Cut => toServer'[c] # <<>> /\ Head(toServer'[c]) = CutTail(c)
    <2>1. m.channel # S!NoChannelId
      BY <1>13 DEF S!Rejects
    <2>2. /\ m.channel \in {c[1], Cut, S!NoChannelId}
          /\ m.channel = Cut /\ m.channel # S!NoChannelId => d.chunk.part = "head" /\ d.chunk.id = "ChannelID"
      BY <1>2, <1>8, ReadsFacts
    <2>3. ASSUME m.channel = Cut PROVE toServer'[c] # <<>> /\ Head(toServer'[c]) = CutTail(c)
      <3>1. d.chunk.part = "head" /\ first.id = "ChannelID"
        BY <1>5, <2>1, <2>2, <2>3
      <3>2. first.part = "whole" \/ first.part = "tail"
        BY <1>8
      <3>3. first.part = "whole"
        BY <1>5, <1>8, <3>1, <3>2
      <3>4. [first EXCEPT !.part = "tail"] = CutTail(c)
        BY <1>8, <3>1 DEF CutTail
      <3> QED BY <1>5, <1>6, <3>1, <3>3, <3>4
    <2> QED BY <2>1, <2>2, <2>3
  <1>14. CASE S!RecvCreateChannel(c, m) /\ UNCHANGED toClient
    <2>1. /\ peerState[c] = "NoChannel" /\ ~S!Rejects(c, m)
          /\ chanPeers' = [chanPeers EXCEPT ![m.channel] = {c}]
          /\ peerState' = [peerState EXCEPT ![c] = "Valid"]
          /\ peerChannel' = [peerChannel EXCEPT ![c] = m.channel]
      BY <1>14 DEF S!RecvCreateChannel
    <2>2. /\ chanPeers' \in [Pairs \cup {Cut} -> SUBSET Clients]
          /\ \A k \in Pairs \cup {Cut} : chanPeers'[k] \subseteq
                chanPeers[k] \cup IF k = m.channel THEN {c} ELSE {}
      BY <2>1 DEF ExchangeInv, ExchangeTyped
    <2>3. typed /\ InChannels'
      BY <1>6, <1>13, <2>1, <2>2, EnterKeeps
    <2> QED BY <1>11, <1>14, <2>3
  <1>15. CASE /\ S!RecvJoinChannel(c, m)
              /\ toClient' = [q \in Clients |->
                    IF q \in chanPeers'[m.channel]
                    THEN Append(toClient[q], Whole("ChannelReady", c)) ELSE toClient[q]]
    <2>1. /\ peerState[c] = "NoChannel" /\ ~S!Rejects(c, m)
          /\ chanPeers' = [chanPeers EXCEPT ![m.channel] = chanPeers[m.channel] \cup {c}]
          /\ peerState' = [peerState EXCEPT ![c] = "Valid"]
          /\ peerChannel' = [peerChannel EXCEPT ![c] = m.channel]
      BY <1>15 DEF S!RecvJoinChannel
    <2>2. /\ chanPeers' \in [Pairs \cup {Cut} -> SUBSET Clients]
          /\ \A k \in Pairs \cup {Cut} : chanPeers'[k] \subseteq
                chanPeers[k] \cup IF k = m.channel THEN {c} ELSE {}
      BY <1>13, <2>1, PartnerFacts DEF ExchangeInv, ExchangeTyped
    <2>3. typed /\ InChannels'
      BY <1>6, <1>13, <2>1, <2>2, EnterKeeps
    <2>4. \A q \in Clients : Whole("ChannelReady", c) \in DownOf(q)
      BY DEF Whole, DownOf, Chunks
    <2>5. DOMAIN toClient' = Clients /\ \A q \in Clients : toClient'[q] \in Seq(DownOf(q))
      BY <1>15, <2>4, AppendKeeps
    <2> QED BY <2>3, <2>5
  <1>16. CASE S!RecvIgnored(c, m) /\ UNCHANGED toClient
    <2>1. peerState[c] = "SentCandidates" /\ UNCHANGED <<peerState, peerChannel, chanPeers>>
      BY <1>16 DEF S!RecvIgnored, S!peerVars, S!chanVars
    <2>2. AtServer(c)'
      BY <2>1 DEF ExchangeInv, InChannels, AtServer
    <2>3. \A q \in Clients \ {c} : AtServer(q)'
      BY <1>6, <2>1 DEF ExchangeInv, InChannels, AtServer
    <2>4. InChannels'
      BY <2>2, <2>3 DEF InChannels
    <2> QED BY <1>11, <1>16, <2>1, <2>4 DEF ExchangeInv, ExchangeTyped
  <1>17. CASE /\ S!RecvCandidates(c, m)
              /\ toClient' = [q \in Clients |->
                    IF q \in S!Others(c) THEN Append(toClient[q], d.chunk) ELSE toClient[q]]
    <2>1. /\ peerState[c] = "Valid" /\ m.id = "PeerCandidates"
          /\ peerState' = [peerState EXCEPT ![c] = "SentCandidates"]
          /\ UNCHANGED <<peerChannel, chanPeers>>
      BY <1>17 DEF S!RecvCandidates, S!Rejects, S!chanVars
    <2>2. /\ first.id = "PeerCandidates" /\ d.chunk.id = "PeerCandidates"
          /\ d.chunk.from = c /\ Handed(c)
      <3>1. d.chunk.id = "PeerCandidates"
        BY <1>2, <1>8, <2>1, ReadsFacts
      <3> QED BY <1>5, <1>8, <3>1 DEF UpOf
    <2>3. peerChannel[c] = c[1]
      <3>1. first # CutTail(c)
        BY <2>2 DEF CutTail
      <3> QED BY <2>1, <3>1 DEF ExchangeInv, InChannels, AtServer, S!InChannelStates
    <2>4. \A q \in Clients : q \in S!Others(c) => q = Partner(c)
      <3> SUFFICES ASSUME NEW q \in Clients, q \in S!Others(c) PROVE q = Partner(c)
        OBVIOUS
      <3>1. q # c /\ q \in chanPeers[c[1]] /\ c[1] \in Pairs
        BY <2>3, PartnerFacts DEF S!Others
      <3>2. peerState[q] \in S!InChannelStates /\ peerChannel[q] = c[1]
        BY <3>1 DEF ExchangeInv, InChannels, AtServer
      <3>3. c[1] \in {q[1], Cut}
        BY <3>2 DEF ExchangeInv, InChannels, AtServer
      <3> QED BY <3>1, <3>3, PartnerFacts
    <2>5. \A q \in Clients : q \in S!Others(c) => d.chunk \in DownOf(q)
      BY <1>5, <2>2, <2>4, PartnerFacts DEF DownOf
    <2>6. DOMAIN toClient' = Clients /\ \A q \in Clients : toClient'[q] \in Seq(DownOf(q))
      BY <1>17, <2>5, AppendKeeps
    <2>7. typed
      BY <2>1 DEF ExchangeInv, ExchangeTyped, S!PeerStates
    <2>8. AtServer(c)'
      BY <2>1, <2>3, PartnerFacts DEF ExchangeInv, ExchangeTyped, InChannels, AtServer, S!InChannelStates
    <2>9. \A q \in Clients \ {c} : AtServer(q)'
      BY <1>6, <2>1 DEF ExchangeInv, ExchangeTyped, InChannels, AtServer
    <2>10. InChannels'
      BY <2>8, <2>9 DEF InChannels
    <2> QED BY <2>6, <2>7, <2>10
  <1> QED BY <1>2, <1>12, <1>14, <1>15, <1>16, <1>17

LEMMA StepExchangeInv == ExchangeInv /\ [Next]_vars => ExchangeInv'
  <1> SUFFICES ASSUME ExchangeInv, [Next]_vars PROVE ExchangeInv'
    OBVIOUS
  <1>1. CASE UNCHANGED <<peerState, peerChannel, chanPeers, toServer, toClient, clientState,
                         rcvd, got, sent, sendFailed>>
    <2>1. InChannels'
      BY <1>1, InChannelsKept DEF ExchangeInv
    <2> QED BY <1>1, <2>1, ServerFrame DEF ExchangeInv, ExchangeTyped, QueuesSent
  <1>2. CASE \E p \in Pairs : LaunchPair(p)
    BY <1>1, <1>2 DEF LaunchPair, serverVars
  <1>3. CASE \E c \in Clients : ClientStep(c)
    BY <1>3, ClientKeeps
  <1>4. CASE \E c \in Clients : ServerStep(c)
    <2> PICK c \in Clients : ServerStep(c)
      BY <1>4
    <2>1. CASE ServerEstablish(c)
      BY <1>1, <2>1 DEF ServerEstablish, S!EstablishHandler, S!chanVars, clientVars, netVars
    <2> QED BY <2>1, AcceptKeeps, ServerRecvKeeps, ClosedKeeps DEF ServerStep
  <1>5. CASE ClientSignal
    BY <1>1, <1>5 DEF ClientSignal, serverVars, netVars
  <1>6. CASE ServerShutdown
    BY <1>6, ShutdownKeeps
  <1>7. CASE Tick
    BY <1>1, <1>7 DEF Tick, S!Tick, S!peerVars, S!chanVars, serverVars, netVars
  <1>8. CASE UNCHANGED vars
    BY <1>1, <1>8 DEF vars, serverVars, clientVars, netVars
  <1> QED BY <1>2, <1>3, <1>4, <1>5, <1>6, <1>7, <1>8 DEF Next

\* A client of any pair that has completed has read candidates of its partner,
\* which the partner had handed to TCP, and of nobody else, however many pairs
\* run at once and whichever names TCP cuts to the same one. (They may be cut,
\* and the client's own need not have been sent: see CompletedHasCandidates.)
THEOREM CandidatesFromPartner == Spec => []CompletedHasCandidates
  <1>1. ExchangeInv => CompletedHasCandidates
    BY DEF ExchangeInv, Received, CompletedHasCandidates
  <1> QED BY <1>1, InitExchangeInv, StepExchangeInv, PTL DEF Spec

-----------------------------------------------------------------------------
(* The server of the composition is the server of module Signaller.        *)

LEMMA StepsOfServer == [Next]_vars => [S!Next]_(S!vars)
  <1> SUFFICES ASSUME [Next]_vars PROVE S!Next \/ UNCHANGED S!vars
    OBVIOUS
  <1>1. CASE UNCHANGED serverVars
    BY <1>1 DEF serverVars, S!vars, S!peerVars, S!chanVars, S!histVars
  <1>2. CASE \E p \in Pairs : LaunchPair(p)
    BY <1>1, <1>2 DEF LaunchPair
  <1>3. CASE \E c \in Clients : ClientStep(c)
    BY <1>1, <1>3 DEF ClientStep, ClientTimer, ClientEstablish, ClientRecv, ClientClosed,
                      TimerConnected, TimerExchanging, TimerSendFails, TimerCompleted
  <1>4. CASE \E c \in Clients : ServerStep(c)
    <2> PICK c \in Clients : ServerStep(c)
      BY <1>4
    <2>1. CASE ServerAccept(c) \/ ServerEstablish(c) \/ ServerClosed(c) \/ ServerTimer(c)
      BY <2>1 DEF ServerAccept, ServerEstablish, ServerClosed, ServerTimer, S!Next
    <2>2. CASE ServerRecv(c)
      <3>1. PICK m : S!RecvHandler(c, m)
        BY <2>2 DEF ServerRecv, S!RecvHandler
      <3>2. m \in S!Messages
        BY <3>1 DEF S!RecvHandler, S!RecvRejected, S!RecvCreateChannel, S!RecvJoinChannel,
                    S!RecvCandidates, S!RecvIgnored, S!Receives
      <3> QED BY <3>1, <3>2 DEF S!Next
    <2> QED BY <2>1, <2>2 DEF ServerStep
  <1>5. CASE ClientSignal
    BY <1>1, <1>5 DEF ClientSignal
  <1>6. CASE ServerShutdown
    BY <1>6 DEF ServerShutdown, S!Next
  <1>7. CASE Tick
    BY <1>1, <1>7 DEF Tick, S!Next
  <1>8. CASE UNCHANGED vars
    BY <1>1, <1>8 DEF vars
  <1> QED BY <1>2, <1>3, <1>4, <1>5, <1>6, <1>7, <1>8 DEF Next

\* Whatever these clients and TCP do, the server takes only steps of Signaller:
\* what is proved there for every environment holds here.
THEOREM ServerRefines == Spec => S!Spec
  <1>1. Init => S!Init
    BY DEF Init
  <1> QED BY <1>1, StepsOfServer, PTL DEF Spec, S!Spec
=============================================================================
