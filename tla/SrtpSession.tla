---------------------------- MODULE SrtpSession ----------------------------
(***************************************************************************)
(* The three SRTP demonstrations (playground_srtp.c, rtp.c and the main    *)
(* programs of send, recv and sendrecv): a thread that records, encodes    *)
(* and sends, a thread that receives, decodes and plays, and a main thread *)
(* that polls two flags and joins them.  Any call to PortAudio, Opus or    *)
(* the socket layer may fail.  Datagrams may be lost, reordered and        *)
(* repeated, and any other program may send some to the receiver's port.   *)
(*                                                                         *)
(* Sound is abstracted away.  The replay window of libsrtp (128 packets)   *)
(* is larger than MaxPackets.                                              *)
(***************************************************************************)
EXTENDS Integers, SequencesExt

CONSTANTS
    MaxDevices,    \* bound on the audio devices of the host
    MaxPackets     \* bound on the packets of a peer with the right key

VARIABLES
    launched,   \* the threads this program launches
    host,       \* [count, dflt, api]: audio devices, the default, those of each API
    mpc,        \* where the main thread is
    pc,         \* where each thread is
    exiting,    \* the flag of that name
    done,       \* threads whose flag recv_done or send_done is set
    dev,        \* inputDevice of the sender, outputDevice of the receiver
    sock,       \* the descriptor of each thread
    net,        \* datagrams at the receiver's port; 0 is no packet for it
    played,     \* packets played, in order
    sent,       \* number of packets the sender has put on the wire
    refused     \* history: srtp_protect has refused a packet

vars == <<launched, host, mpc, pc, exiting, done, dev, sock, net, played, sent, refused>>

Threads == {"recv", "send"}
Packets == 1..MaxPackets
NoDevice == -1
Devices == 0..(MaxDevices - 1)

Stages == <<"devices", "codec", "socket", "context", "stream", "loop", "close", "flag", "return">>
Hosts == {h \in [count : {-1} \cup 0..MaxDevices, dflt : {NoDevice} \cup Devices, api : SUBSET Devices] :
             h.dflt < h.count \/ h.dflt = NoDevice}

TypeOK ==
    /\ launched \in {Threads, {"recv"}, {"send"}}
    /\ host \in Hosts
    /\ mpc \in {"init", "wait", "join_send", "join_recv", "shutdown", "end"}
    /\ pc \in [Threads -> {"idle", "ended"} \cup Range(Stages)]
    /\ exiting \in BOOLEAN
    /\ done \subseteq launched
    /\ dev \in [Threads -> {NoDevice} \cup Devices]
    /\ sock \in [Threads -> {"garbage", "open", "closed"}]
    /\ net \subseteq {0} \cup Packets
    /\ played \in Seq(Packets)
    /\ sent \in Nat
    /\ refused \in BOOLEAN

Init ==
    /\ launched \in {Threads, {"recv"}, {"send"}}
    /\ host \in Hosts
    /\ mpc = "init"
    /\ pc = [t \in Threads |-> "idle"]
    /\ exiting = FALSE
    /\ done = {}
    /\ dev = [t \in Threads |-> NoDevice]
    /\ sock = [t \in Threads |-> "garbage"]
    /\ net = {}
    /\ played = <<>>
    /\ sent = 0
    /\ refused = FALSE

-----------------------------------------------------------------------------
(* The main programs *)

mainVars == <<launched, host, net, played, sent, refused, dev, sock, done>>

\* Pa_Initialize and srtp_init, then the threads; a failure ends the program.
Launch ==
    /\ mpc = "init"
    /\ \/ /\ mpc' = "wait"
          /\ pc' = [t \in Threads |-> IF t \in launched THEN "devices" ELSE "idle"]
       \/ mpc' = "end" /\ UNCHANGED pc
    /\ UNCHANGED <<mainVars, exiting>>

\* rtp_session_get_done
GetDone == done = Threads

\* The poll of the flags finds both threads done.
Leave ==
    /\ mpc = "wait" /\ ~(~exiting /\ ~GetDone)
    /\ exiting' = TRUE
    /\ mpc' = "join_send"
    /\ UNCHANGED <<mainVars, pc>>

\* Mutated: the receiver is not joined.
JoinSendOnly ==
    /\ \/ mpc = "join_send" /\ pc["send"] = "ended" /\ mpc' = "join_recv"
       \/ mpc = "join_recv" /\ mpc' = "shutdown"
    /\ UNCHANGED <<mainVars, pc, exiting>>

\* The sender is joined, then the receiver.
Join ==
    /\ \/ mpc = "join_send" /\ pc["send"] = "ended" /\ mpc' = "join_recv"
       \/ mpc = "join_recv" /\ pc["recv"] = "ended" /\ mpc' = "shutdown"
    /\ UNCHANGED <<mainVars, pc, exiting>>

\* srtp_shutdown and the return from main.
Shutdown ==
    /\ mpc = "shutdown" /\ mpc' = "end"
    /\ UNCHANGED <<mainVars, pc, exiting>>

-----------------------------------------------------------------------------
(* rtp_session_run: set-up *)

\* The thread goes on to a stage and changes nothing but its descriptor.
GoTo(t, stage) == pc' = [pc EXCEPT ![t] = stage]
threadVars == <<launched, host, mpc, exiting, done, net, played, sent, refused>>

\* The loop over the devices: the default one, unless that is number 0 and a
\* later one is the default of its API.
Scan(h) ==
    FoldLeft(LAMBDA d, i : IF i = h.dflt THEN i
                           ELSE IF i \in h.api /\ d = 0 THEN i ELSE d,
             NoDevice, [k \in 1..h.count |-> k - 1])

\* The devices are counted and chosen; if they cannot be counted the session
\* is over.
ChooseDevice(t) ==
    /\ pc[t] = "devices"
    /\ IF host.count < 0
       THEN GoTo(t, "flag") /\ UNCHANGED dev
       ELSE GoTo(t, "codec") /\ dev' = [dev EXCEPT ![t] = Scan(host)]
    /\ UNCHANGED <<threadVars, sock>>

\* The decoder and the encoder: one that cannot be made ends the session, a
\* setting that is refused leads to the label cleanup, before any descriptor
\* is open.
SetUpCodec(t) ==
    /\ pc[t] = "codec"
    /\ \E s \in {"socket", "close", "flag"} : GoTo(t, s)
    /\ UNCHANGED <<threadVars, dev, sock>>

\* The address is parsed and the socket opened.
OpenSocket(t) ==
    /\ pc[t] = "socket"
    /\ \/ GoTo(t, "context") /\ sock' = [sock EXCEPT ![t] = "open"]
       \/ GoTo(t, "flag") /\ UNCHANGED sock
    /\ UNCHANGED <<threadVars, dev>>

\* The SSRC a thread gives to its packets, and that of the other side.
LocalSsrc(t) == IF t = "send" THEN "ssrc0" ELSE "ssrc1"
RemoteSsrc(t) == IF t = "send" THEN "ssrc1" ELSE "ssrc0"

\* The only SSRC the thread's policy has a key for. The services, the cipher
\* and the key are constants no path of which fails.
PolicySsrc(t) == RemoteSsrc(t)

\* The socket is bound and the SRTP context made for the policy. A failure
\* returns without closing the socket.
MakeContext(t) ==
    /\ pc[t] = "context"
    /\ \E s \in {"stream", "flag"} : GoTo(t, s)
    /\ UNCHANGED <<threadVars, dev, sock>>

\* The stream is opened and started. With no device its parameters are not
\* initialised: either may happen.
OpenStream(t) ==
    /\ pc[t] = "stream"
    /\ \E s \in {"loop", "flag"} : GoTo(t, s)
    /\ UNCHANGED <<threadVars, dev, sock>>

-----------------------------------------------------------------------------
(* rtp_session_run: the loops *)

\* rtp_sendto: srtp_protect knows the SSRC of the packet or refuses it, and
\* the caller does not look at the result. Sending may fail as well.
SendTo ==
    IF LocalSsrc("send") = PolicySsrc("send")
    THEN sent' \in {sent, sent + 1} /\ UNCHANGED refused
    ELSE refused' = TRUE /\ UNCHANGED sent

\* One round of the sender: a frame is read, encoded and sent, or the stream
\* or the codec fails, or the flag is set.
SendRound ==
    /\ pc["send"] = "loop"
    /\ \/ IF exiting
          THEN GoTo("send", "close") /\ UNCHANGED <<sent, refused>>
          ELSE SendTo /\ UNCHANGED pc
       \/ GoTo("send", "close") /\ UNCHANGED <<sent, refused>>
    /\ UNCHANGED <<launched, host, mpc, exiting, done, net, played, dev, sock>>

\* srtp_unprotect: the replay list has not seen the packet.
Unprotects(d) == d \notin Range(played)

\* rtp_recvfrom: an RTP packet that libsrtp unprotects.
Accepts(d) == d # 0 /\ Unprotects(d)

\* One round of the receiver, blocked until a datagram is there: any that is
\* not accepted ends the receiver.
RecvDatagram ==
    /\ pc["recv"] = "loop"
    /\ \E d \in net :
          IF Accepts(d) /\ ~exiting
          THEN played' = Append(played, d) /\ UNCHANGED pc
          ELSE GoTo("recv", "close") /\ UNCHANGED played
    /\ UNCHANGED <<launched, host, mpc, exiting, done, net, sent, refused, dev, sock>>

\* So does an error of socket, codec or stream.
RecvFails ==
    /\ pc["recv"] = "loop"
    /\ GoTo("recv", "close")
    /\ UNCHANGED <<threadVars, dev, sock>>

RecvRound == RecvDatagram \/ RecvFails

\* The label cleanup: close of whatever the descriptor holds.
Close(t) ==
    /\ pc[t] = "close"
    /\ GoTo(t, "flag")
    /\ sock' = [sock EXCEPT ![t] = IF @ = "open" THEN "closed" ELSE @]
    /\ UNCHANGED <<threadVars, dev>>


\* rtp_session_run_recv or rtp_session_run_send stores its flag, and returns.
Flag(t) ==
    /\ pc[t] = "flag"
    /\ done' = done \cup {t}
    /\ GoTo(t, "return")
    /\ UNCHANGED <<launched, host, mpc, exiting, net, played, sent, refused, dev, sock>>

Return(t) ==
    /\ pc[t] = "return"
    /\ GoTo(t, "ended")
    /\ UNCHANGED <<threadVars, dev, sock>>

\* A datagram comes to the receiver's port; it may come again.
Arrive ==
    /\ \E d \in {0} \cup Packets : d \notin net /\ net' = net \cup {d}
    /\ UNCHANGED <<launched, host, mpc, pc, exiting, done, played, sent, refused, dev, sock>>

\* The set-up of a thread; sender and receiver differ in the direction of the
\* stream, and the receiver writes a frame of silence to it first.
SetUp(t) == ChooseDevice(t) \/ SetUpCodec(t) \/ OpenSocket(t) \/ MakeContext(t) \/ OpenStream(t)
Finish(t) == Close(t) \/ Flag(t) \/ Return(t)
Main == Launch \/ Leave \/ Join \/ Shutdown

Next == Main \/ (\E t \in Threads : SetUp(t) \/ Finish(t)) \/ SendRound \/ RecvRound \/ Arrive

Spec == Init /\ [][Next]_vars

-----------------------------------------------------------------------------
(* Properties *)

\* srtp_shutdown is called only when every thread that was launched has
\* returned, although the main thread polls flags the threads set before.
ShutsDownLast ==
    mpc \in {"shutdown", "end"} =>
        \A t \in Threads : pc[t] \in {"idle", "ended"}

=============================================================================
