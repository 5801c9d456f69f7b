-------------------------------- MODULE Call --------------------------------
(***************************************************************************)
(* A SIP call of src/src/Call.c.  Three kinds of threads share rawr_Call:  *)
(* the user's (Start, Stop, BlockOnCall), the SIP thread (it builds the    *)
(* libre objects, invites, runs the libre main loop, and tears down) and   *)
(* the RTP sender thread that a handler launches when a session is         *)
(* established.  Remote parties answer, refuse, hang up and call in.       *)
(*                                                                         *)
(* A handler runs on the SIP thread and is one action.  Stop runs on the   *)
(* user's thread: its load of reSipSess and each of its stores to shared   *)
(* state are separate actions.  The sessions and the reference count of    *)
(* the SIP stack are those of libre (deps/re/src/sipsess,                  *)
(* deps/re/src/sip): a released session lives on until its CANCEL or BYE   *)
(* is answered, a session that ended and that nobody released is "leaked"  *)
(* and stays, and the stack's exit handler runs when the stack is closing  *)
(* and no session is left.                                                 *)
(*                                                                         *)
(* Once a released object has been used the program has no defined         *)
(* behaviour: corrupt is then TRUE and nothing more is modelled.  It is    *)
(* TRUE as well when a call is started while a session of the one before   *)
(* is left: the new loop would serve that session with the new objects.    *)
(***************************************************************************)
EXTENDS Naturals, Sequences

CONSTANTS
    Senders,     \* identities of RTP sender threads
    NoThread,    \* a thread handle that cannot be joined
    MaxCalls,    \* bound on rawr_Call_Start
    MaxIncoming  \* bound on the incoming calls that are accepted

ASSUME CallAssumption ==
    /\ NoThread \notin Senders
    /\ MaxCalls \in Nat
    /\ MaxIncoming \in Nat

VARIABLES
    user,        \* what the user's thread is doing
    loaded,      \* the reSipSess that Stop has loaded
    took,        \* history: the last Stop ended a session that nobody had ended
    sip,         \* where the SIP thread is
    callState,   \* rawr_Call::state
    exiting,     \* rawr_Call::threadExiting
    callNo,      \* how many times Start was called
    handle,      \* reSip, reSipSessSock, reRtpSock, reSdpSess
    stream,      \* rawr_Call::stream
    closing,     \* sip::closing of the stack
    polling,     \* re::polling: the main loop is to go on
    reSipSess,   \* which session rawr_Call::reSipSess points to
    outgoing,    \* the session sipsess_connect made
    incoming,    \* the session sipsess_accept made
    accepted,    \* how many incoming calls were accepted
    late,        \* history: one was accepted after the loop was cancelled
    signalled,   \* history: a signal has ended a main loop
    rxKey,       \* the call whose key is in srtpReceiveContext, 0 for NULL
    sender,      \* what each RTP sender thread is doing
    rtpThread,   \* rawr_Call::rtpThread
    corrupt      \* the program is beyond what is modelled

userVars == <<user, loaded, took>>
stackVars == <<handle, stream, closing, polling>>
sessVars == <<reSipSess, outgoing, incoming, accepted, late>>
senderVars == <<sender, rtpThread>>
vars == <<userVars, sip, callState, exiting, callNo, stackVars, sessVars,
          rxKey, senderVars, signalled, corrupt>>

Handles == {"reSip", "reSipSessSock", "reRtpSock", "reSdpSess"}

\* What SipThread builds, in order: the audio stream and codecs, the libre
\* objects, the outgoing session.
Stages == <<"audio", "reSip", "reSipSessSock", "reRtpSock", "reSdpSess", "connect">>

InStages == {Stages[i] : i \in 1..Len(Stages)}

SenderRuns(i) == sender[i] \in {"check", "read"}
SessionAlive == outgoing # "none" \/ incoming # "none"

-----------------------------------------------------------------------------
Init ==
    /\ user = "idle"
    /\ loaded = "null"
    /\ took = FALSE
    /\ sip = "off"
    /\ callState = "None"
    /\ exiting = FALSE
    /\ callNo = 0
    /\ handle = [h \in Handles |-> "null"]
    /\ stream = "null"
    /\ closing = FALSE
    /\ polling = FALSE
    /\ reSipSess = "null"
    /\ outgoing = "none"
    /\ incoming = "none"
    /\ accepted = 0
    /\ late = FALSE
    /\ signalled = FALSE
    /\ rxKey = 0
    /\ sender = [i \in Senders |-> "ended"]
    /\ rtpThread = NoThread
    /\ corrupt = FALSE

-----------------------------------------------------------------------------
(* Terminate, in three parts.                                              *)

\* mem_deref(call->reSipSess) where the remote party has not hung up: libre
\* cancels the INVITE, waits for the ACK or says BYE, and keeps the session
\* until the answer.  A BYE that cannot be sent ends the session at once.
Released(s) == CASE s = "inviting" -> {"cancelling"}
                 [] s = "accepted" -> {"leaving"}
                 [] s = "established" -> {"leaving", "none"}
                 [] OTHER -> {s}

ReleaseSession ==
    /\ outgoing' \in IF reSipSess = "outgoing" THEN Released(outgoing) ELSE {outgoing}
    /\ incoming' \in IF reSipSess = "incoming" THEN Released(incoming) ELSE {incoming}

\* Mutated: the main loop is cancelled without waiting for the sessions.
SipCloseForced ==
    CASE handle["reSip"] = "null" -> UNCHANGED <<closing, polling, corrupt>>
      [] handle["reSip"] = "freed" -> corrupt' = TRUE /\ UNCHANGED <<closing, polling>>
      [] handle["reSip"] = "live" -> closing' = FALSE /\ polling' = FALSE /\ UNCHANGED corrupt

\* sip_close(call->reSip, false): with no session left the exit handler
\* (OnExit) runs at once and cancels the main loop.
SipClose ==
    CASE handle["reSip"] = "null" -> UNCHANGED <<closing, polling, corrupt>>
      [] handle["reSip"] = "freed" -> corrupt' = TRUE /\ UNCHANGED <<closing, polling>>
      [] handle["reSip"] = "live" ->
            /\ closing' = SessionAlive'
            /\ polling' = (polling /\ SessionAlive')
            /\ UNCHANGED corrupt

\* Mutated: OnClose ends the session and does not close the stack.
CloseOutgoingOnly(s) ==
    /\ outgoing' = IF reSipSess = "outgoing" THEN s ELSE "leaked"
    /\ incoming' \in IF reSipSess = "incoming" THEN Released(incoming) ELSE {incoming}
    /\ reSipSess' = "null"
    /\ exiting' = TRUE
    /\ UNCHANGED <<closing, polling, corrupt>>

\* OnClose, called on the SIP thread for a session that libre leaves in state
\* s: Terminate releases whatever reSipSess points to.
CloseOutgoing(s) ==
    /\ outgoing' = IF reSipSess = "outgoing" THEN s ELSE "leaked"
    /\ incoming' \in IF reSipSess = "incoming" THEN Released(incoming) ELSE {incoming}
    /\ reSipSess' = "null"
    /\ exiting' = TRUE
    /\ SipClose

CloseIncoming(s) ==
    /\ incoming' = IF reSipSess = "incoming" THEN s ELSE "leaked"
    /\ outgoing' \in IF reSipSess = "outgoing" THEN Released(outgoing) ELSE {outgoing}
    /\ reSipSess' = "null"
    /\ exiting' = TRUE
    /\ SipClose

\* Mutated: the last session ends the loop although nobody closed the stack.
SessionGoneEndsLoop ==
    IF ~SessionAlive'
    THEN closing' = FALSE /\ polling' = FALSE
    ELSE UNCHANGED <<closing, polling>>

\* libre lets go of a session; the last one lets go of a closing stack.
SessionGone ==
    IF closing /\ ~SessionAlive'
    THEN closing' = FALSE /\ polling' = FALSE
    ELSE UNCHANGED <<closing, polling>>

-----------------------------------------------------------------------------
(* The user's thread.                                                      *)

\* Mutated: the state of the previous call is kept until the thread runs.
StartKeepsState ==
    /\ ~corrupt
    /\ user = "idle"
    /\ sip = "off"
    /\ callNo < MaxCalls
    /\ callNo' = callNo + 1
    /\ exiting' = FALSE
    /\ sip' = "started"
    /\ corrupt' = SessionAlive
    /\ UNCHANGED <<userVars, callState, stackVars, sessVars, rxKey, senderVars, signalled>>

Start ==
    /\ ~corrupt
    /\ user = "idle"
    /\ sip = "off"
    /\ callNo < MaxCalls
    /\ callNo' = callNo + 1
    /\ exiting' = FALSE          \* rawr_Call_Reset
    /\ callState' = "Starting"
    /\ sip' = "started"
    /\ corrupt' = SessionAlive
    /\ UNCHANGED <<userVars, stackVars, sessVars, rxKey, senderVars, signalled>>

\* Stop is Terminate on the user's thread, then a join of the SIP thread.
StopLoad ==
    /\ ~corrupt
    /\ user = "idle"
    /\ sip # "off"
    /\ user' = "release"
    /\ loaded' = reSipSess
    /\ UNCHANGED <<took, sip, callState, exiting, callNo, stackVars, sessVars, rxKey,
                   senderVars, signalled, corrupt>>

\* The session loaded is released, a second time if the SIP thread was
\* faster; then NULL is stored, whatever the SIP thread has stored meanwhile.
StopSession ==
    /\ ~corrupt
    /\ user = "release"
    /\ user' = "exit"
    /\ took' = (loaded # "null" /\ loaded = reSipSess)
    /\ IF loaded = "null" THEN UNCHANGED <<outgoing, incoming>> ELSE ReleaseSession
    /\ reSipSess' = "null"
    /\ corrupt' = (loaded # "null" /\ loaded # reSipSess)
    /\ UNCHANGED <<loaded, sip, callState, exiting, callNo, handle, stream, accepted, late,
                   rxKey, senderVars, signalled>>
    /\ SessionGone

StopExiting ==
    /\ ~corrupt
    /\ user = "exit"
    /\ user' = "close"
    /\ exiting' = TRUE
    /\ UNCHANGED <<loaded, took, sip, callState, callNo, stackVars, sessVars, rxKey,
                   senderVars, signalled, corrupt>>

\* Mutated: Terminate ends the session and does not close the stack.
StopWithoutClose ==
    /\ ~corrupt
    /\ user = "close"
    /\ user' = "join"
    /\ UNCHANGED <<loaded, took, sip, callState, exiting, callNo, stackVars, sessVars, rxKey,
                   senderVars, signalled, corrupt>>

StopClose ==
    /\ ~corrupt
    /\ user = "close"
    /\ user' = "join"
    /\ UNCHANGED <<loaded, took, sip, callState, exiting, callNo, handle, stream, sessVars,
                   rxKey, senderVars, signalled>>
    /\ SipClose

StopJoin ==
    /\ ~corrupt
    /\ user = "join"
    /\ sip = "done"
    /\ user' = "idle"
    /\ sip' = "off"
    /\ UNCHANGED <<loaded, took, callState, exiting, callNo, stackVars, sessVars, rxKey,
                   senderVars, signalled, corrupt>>

BlockOnCall ==
    /\ ~corrupt
    /\ user = "idle"
    /\ sip # "off"
    /\ user' = "blocked"
    /\ UNCHANGED <<loaded, took, sip, callState, exiting, callNo, stackVars, sessVars, rxKey,
                   senderVars, signalled, corrupt>>

\* The switch of the polling loop.
BlockReturns ==
    /\ ~corrupt
    /\ user = "blocked"
    /\ callState \in {"None", "Stopping", "Stopped"}
    /\ user' = "idle"
    /\ UNCHANGED <<loaded, took, sip, callState, exiting, callNo, stackVars, sessVars, rxKey,
                   senderVars, signalled, corrupt>>

UserStops == StopLoad \/ StopSession \/ StopExiting \/ StopClose \/ StopJoin

-----------------------------------------------------------------------------
(* The SIP thread up to the main loop.                                     *)

SipThreadBegin ==
    /\ ~corrupt
    /\ sip = "started"
    /\ callState' = "Started"
    /\ sip' = "audio"
    /\ UNCHANGED <<userVars, exiting, callNo, stackVars, sessVars, rxKey, senderVars,
                   signalled, corrupt>>

\* One stage succeeds.  The last is sipsess_connect, which sends the INVITE.
SetupStage ==
    \E i \in 1..Len(Stages) :
        /\ ~corrupt
        /\ sip = Stages[i]
        /\ sip' = IF i = Len(Stages) THEN "re_main" ELSE Stages[i + 1]
        /\ stream' = IF sip = "audio" THEN "running" ELSE stream
        /\ handle' = [h \in Handles |-> IF h = sip THEN "live" ELSE handle[h]]
        /\ outgoing' = IF sip = "connect" THEN "inviting" ELSE outgoing
        /\ reSipSess' = IF sip = "connect" THEN "outgoing" ELSE reSipSess
        /\ UNCHANGED <<userVars, callState, exiting, callNo, closing, polling, incoming,
                       accepted, late, rxKey, senderVars, signalled, corrupt>>

\* One stage fails: goto cleanup.  A failure of the first may leave the
\* stream running or not.
SetupFails ==
    /\ ~corrupt
    /\ sip \in InStages
    /\ sip' = "cleanup"
    /\ stream' \in IF sip = "audio" THEN {"stopped", "running"} ELSE {stream}
    /\ UNCHANGED <<userVars, callState, exiting, callNo, handle, closing, polling,
                   sessVars, rxKey, senderVars, signalled, corrupt>>

ReMain ==
    /\ ~corrupt
    /\ sip = "re_main"
    /\ sip' = "loop"
    /\ polling' = TRUE
    /\ UNCHANGED <<userVars, callState, exiting, callNo, handle, stream, closing,
                   sessVars, rxKey, senderVars, signalled, corrupt>>

-----------------------------------------------------------------------------
(* The handlers the main loop calls.                                       *)

\* mn_thread_launch(&call->rtpThread, rawr_Call_RtpSendThread, call).  The
\* handle of an earlier thread is overwritten.
LaunchSender ==
    \E i \in Senders :
        /\ ~SenderRuns(i)
        /\ i # rtpThread
        /\ sender' = [sender EXCEPT ![i] = "check"]
        /\ rtpThread' = i

\* UpdateMedia on an SDP from the remote party that has a crypto line or not:
\* its key is used if there is no receiving context yet.
UpdateMedia ==
    \E crypto \in BOOLEAN :
        rxKey' = IF crypto /\ rxKey = 0 THEN callNo ELSE rxKey

\* 2xx to the INVITE: OnAnswer, then OnEstablish.
Answered ==
    /\ ~corrupt
    /\ sip = "loop"
    /\ outgoing = "inviting"
    /\ outgoing' = "established"
    /\ UpdateMedia
    /\ LaunchSender
    /\ UNCHANGED <<userVars, sip, callState, exiting, callNo, stackVars, reSipSess,
                   incoming, accepted, late, signalled, corrupt>>

\* 2xx whose SDP cannot be decoded: libre acknowledges it, says BYE and calls
\* OnClose.
BadAnswer ==
    /\ ~corrupt
    /\ sip = "loop"
    /\ outgoing = "inviting"
    /\ CloseOutgoing("leaving")
    /\ UNCHANGED <<userVars, sip, callState, callNo, handle, stream, accepted, late, rxKey,
                   senderVars, signalled>>

\* The INVITE is refused or times out, or the remote party hangs up: OnClose.
OutgoingClosed ==
    /\ ~corrupt
    /\ sip = "loop"
    /\ outgoing \in {"inviting", "established"}
    /\ CloseOutgoing("none")
    /\ UNCHANGED <<userVars, sip, callState, callNo, handle, stream, accepted, late, rxKey,
                   senderVars, signalled>>

\* The final response to a cancelled INVITE: a 2xx that crossed the CANCEL
\* is followed by a BYE, and libre's own handlers run, not those of Call.c.
CancelAnswered ==
    /\ ~corrupt
    /\ sip = "loop"
    /\ outgoing = "cancelling"
    /\ outgoing' \in {"none", "leaving"}
    /\ UNCHANGED <<userVars, sip, callState, exiting, callNo, handle, stream, reSipSess,
                   incoming, accepted, late, rxKey, senderVars, signalled, corrupt>>
    /\ SessionGone

\* The answer to a BYE, or its timeout.
ByeAnswered ==
    /\ ~corrupt
    /\ sip = "loop"
    /\ \/ outgoing = "leaving" /\ outgoing' = "none" /\ UNCHANGED incoming
       \/ incoming = "leaving" /\ incoming' = "none" /\ UNCHANGED outgoing
    /\ UNCHANGED <<userVars, sip, callState, exiting, callNo, handle, stream, reSipSess,
                   accepted, late, rxKey, senderVars, signalled, corrupt>>
    /\ SessionGone

\* OnConnect: an INVITE from outside is refused while there is a session,
\* else accepted, and a sender is launched.  re_cancel only clears polling:
\* the turn under way still serves an INVITE.
OnConnect ==
    /\ ~corrupt
    /\ sip = "loop"
    /\ reSipSess = "null"
    /\ incoming = "none"
    /\ accepted < MaxIncoming
    /\ accepted' = accepted + 1
    /\ late' = (late \/ ~polling)
    /\ incoming' = "accepted"
    /\ reSipSess' = "incoming"
    /\ UpdateMedia
    /\ LaunchSender
    /\ UNCHANGED <<userVars, sip, callState, exiting, callNo, stackVars, outgoing,
                   signalled, corrupt>>

\* The ACK of an accepted call, with the SDP answer if the INVITE had no
\* offer (OnAnswer): OnEstablish launches a sender once more.
IncomingEstablished ==
    /\ ~corrupt
    /\ sip = "loop"
    /\ incoming = "accepted"
    /\ incoming' = "established"
    /\ UpdateMedia
    /\ LaunchSender
    /\ UNCHANGED <<userVars, sip, callState, exiting, callNo, stackVars, reSipSess,
                   outgoing, accepted, late, signalled, corrupt>>

\* OnOffer: a re-INVITE in an established session.
OnOffer ==
    /\ ~corrupt
    /\ sip = "loop"
    /\ "established" \in {outgoing, incoming}
    /\ UpdateMedia
    /\ UNCHANGED <<userVars, sip, callState, exiting, callNo, stackVars, sessVars,
                   senderVars, signalled, corrupt>>

\* The accepted call ends: no ACK in time or a bad answer in it (libre says
\* BYE), or a BYE from the caller.
IncomingClosed ==
    /\ ~corrupt
    /\ sip = "loop"
    /\ \/ incoming = "accepted" /\ CloseIncoming("leaving")
       \/ incoming = "established" /\ CloseIncoming("none")
    /\ UNCHANGED <<userVars, sip, callState, callNo, handle, stream, accepted, late, rxKey,
                   senderVars, signalled>>

\* OnRtp: a packet that the receiving context decrypts is decoded and then
\* offered to the stream until the stream takes it; the loop waits.
OnRtp ==
    /\ ~corrupt
    /\ sip = "loop"
    /\ rxKey = callNo
    /\ sip' = "write"
    /\ UNCHANGED <<userVars, callState, exiting, callNo, stackVars, sessVars, rxKey,
                   senderVars, signalled, corrupt>>

OnRtpWritten ==
    /\ ~corrupt
    /\ sip = "write"
    /\ sip' = "loop"
    /\ UNCHANGED <<userVars, callState, exiting, callNo, stackVars, sessVars, rxKey,
                   senderVars, signalled, corrupt>>

-----------------------------------------------------------------------------
(* The SIP thread after the main loop.                                     *)

LoopEnds ==
    /\ ~corrupt
    /\ sip = "loop"
    /\ ~polling
    /\ sip' = "join"
    /\ exiting' = TRUE
    /\ callState' = "Stopping"
    /\ UNCHANGED <<userVars, callNo, stackVars, sessVars, rxKey, senderVars, signalled,
                   corrupt>>

\* SIGINT, SIGALRM or SIGTERM: OnSignal cancels the loop at the beginning of
\* a turn, which looks at polling next; sessions are left as they are.
OnSignal ==
    /\ ~corrupt
    /\ sip = "loop"
    /\ sip' = "join"
    /\ polling' = FALSE
    /\ exiting' = TRUE
    /\ callState' = "Stopping"
    /\ signalled' = TRUE
    /\ UNCHANGED <<userVars, callNo, handle, stream, closing, sessVars, rxKey, senderVars,
                   corrupt>>

\* Mutated: the SIP thread does not wait for the sender.
JoinSenderSkipped ==
    /\ ~corrupt
    /\ sip = "join"
    /\ rtpThread' = NoThread
    /\ sip' = "stop"
    /\ UNCHANGED <<userVars, callState, exiting, callNo, stackVars, sessVars, rxKey,
                   sender, signalled, corrupt>>

JoinSender ==
    /\ ~corrupt
    /\ sip = "join"
    /\ \A i \in Senders : i = rtpThread => ~SenderRuns(i)
    /\ rtpThread' = NoThread
    /\ sip' = "stop"
    /\ UNCHANGED <<userVars, callState, exiting, callNo, stackVars, sessVars, rxKey,
                   sender, signalled, corrupt>>

\* AudioStream_Stop may fail, and then stream and codecs are not released.
StopStream ==
    /\ ~corrupt
    /\ sip = "stop"
    /\ sip' = "cleanup"
    /\ stream' \in {"freed", "running"}
    /\ UNCHANGED <<userVars, callState, exiting, callNo, handle, closing, polling,
                   sessVars, rxKey, senderVars, signalled, corrupt>>

\* The code at label cleanup: the pointers keep their values.
SipThreadEnds ==
    /\ ~corrupt
    /\ sip = "cleanup"
    /\ sip' = "done"
    /\ corrupt' = (\E h \in Handles : handle[h] = "freed")
    /\ handle' = [h \in Handles |-> IF handle[h] = "null" THEN "null" ELSE "freed"]
    /\ UNCHANGED <<userVars, callState, exiting, callNo, stream, closing, polling,
                   sessVars, rxKey, senderVars, signalled>>

-----------------------------------------------------------------------------
(* The RTP sender threads.                                                 *)

SenderChecks(i) ==
    /\ ~corrupt
    /\ sender[i] = "check"
    /\ sender' = [sender EXCEPT ![i] = IF exiting THEN "ended" ELSE "read"]
    /\ UNCHANGED <<userVars, sip, callState, exiting, callNo, stackVars, sessVars, rxKey,
                   rtpThread, signalled, corrupt>>

\* The stream has a frame: it is encoded, encrypted and sent, or an error
\* ends the thread.  Until there is a frame the thread does not look at
\* exiting.
SenderSends(i) ==
    /\ ~corrupt
    /\ sender[i] = "read"
    /\ sender' \in {[sender EXCEPT ![i] = "check"], [sender EXCEPT ![i] = "ended"]}
    /\ corrupt' = (stream = "freed" \/ handle["reRtpSock"] = "freed")
    /\ UNCHANGED <<userVars, sip, callState, exiting, callNo, stackVars, sessVars, rxKey,
                   rtpThread, signalled>>

-----------------------------------------------------------------------------
SipSetsUp == SipThreadBegin \/ SetupStage \/ SetupFails \/ ReMain

RemoteActs == Answered \/ BadAnswer \/ OutgoingClosed \/ OnConnect \/ OnOffer
                  \/ IncomingEstablished \/ IncomingClosed \/ OnRtp

SipTearsDown == JoinSender \/ StopStream \/ SipThreadEnds

SenderActs(i) == SenderChecks(i) \/ SenderSends(i)

Next ==
    \/ Start \/ UserStops \/ BlockOnCall \/ BlockReturns
    \/ SipSetsUp \/ RemoteActs \/ CancelAnswered \/ ByeAnswered \/ OnRtpWritten
    \/ LoopEnds \/ OnSignal \/ SipTearsDown
    \/ \E i \in Senders : SenderActs(i)

Spec == Init /\ [][Next]_vars

\* Every thread runs.  libre's transaction timers end a CANCEL and a BYE that
\* nobody answers, and a round of the main loop serves every ready socket
\* before it looks at polling; packets may keep arriving in between, hence
\* SF.  The audio device keeps asking for frames and delivering them.  The
\* user need not hang up, nor the remote party answer.
Fairness ==
    /\ WF_vars(StopSession \/ StopExiting \/ StopClose \/ StopJoin)
    /\ WF_vars(BlockReturns)
    /\ WF_vars(SipSetsUp)
    /\ WF_vars(OnRtpWritten)
    /\ SF_vars(CancelAnswered)
    /\ SF_vars(ByeAnswered)
    /\ SF_vars(LoopEnds)
    /\ WF_vars(SipTearsDown)
    /\ \A i \in Senders : WF_vars(SenderActs(i))

FairSpec == Spec /\ Fairness

-----------------------------------------------------------------------------
OutsideLoop == {"off", "started", "join", "stop", "cleanup", "done"} \cup InStages

\* Every variable has its type.
TypeOK ==
    /\ user \in {"idle", "release", "exit", "close", "join", "blocked"}
    /\ loaded \in {"null", "outgoing", "incoming"}
    /\ took \in BOOLEAN
    /\ sip \in OutsideLoop \cup {"re_main", "loop", "write"}
    /\ callState \in {"None", "Starting", "Started", "Stopping"}
    /\ exiting \in BOOLEAN
    /\ callNo \in 0..MaxCalls
    /\ handle \in [Handles -> {"null", "live", "freed"}]
    /\ stream \in {"null", "running", "stopped", "freed"}
    /\ closing \in BOOLEAN
    /\ polling \in BOOLEAN
    /\ reSipSess \in {"null", "outgoing", "incoming"}
    /\ outgoing \in {"none", "inviting", "established", "cancelling", "leaving", "leaked"}
    /\ incoming \in {"none", "accepted", "established", "leaving", "leaked"}
    /\ accepted \in 0..MaxIncoming
    /\ late \in BOOLEAN
    /\ signalled \in BOOLEAN
    /\ rxKey \in 0..MaxCalls
    /\ sender \in [Senders -> {"check", "read", "ended"}]
    /\ rtpThread \in Senders \cup {NoThread}
    /\ corrupt \in BOOLEAN

\* What may be left of the sessions: nothing of the outgoing one, and an
\* incoming one only if it was accepted after the loop was cancelled.
OnlyLateLeft ==
    /\ outgoing = "none"
    /\ ~late => incoming = "none" /\ reSipSess = "null"

\* Unless a signal ends it, the main loop does not end before the sessions
\* have: whenever the SIP thread is outside the loop, no INVITE, CANCEL or BYE
\* is unanswered and reSipSess is NULL ("wait for pending transactions to
\* finish", Terminate).  Only a call accepted after the exit handler, in the
\* turn the loop was cancelled in, may still be there.
PendingFinished == sip \in OutsideLoop /\ ~signalled => OnlyLateLeft

\* Once Stop has ended a session that nobody else had ended, it does not use
\* a released SIP stack, whatever the remote party does meanwhile (unless an
\* incoming call was accepted or a signal ended a loop).
HangupInCallSafe ==
    took /\ accepted = 0 /\ ~signalled /\ user \in {"exit", "close", "join"} => ~corrupt

\* A sender thread has its audio stream and its RTP socket as long as it may
\* use them: the SIP thread releases them only after the sender has ended
\* (unless an incoming call was accepted).
SenderHasItsResources ==
    accepted = 0 =>
        \A i \in Senders :
            SenderRuns(i) => stream = "running" /\ handle["reRtpSock"] = "live"

\* The input ring buffer has one reader (RingBuffer.c: "safe only for a
\* single-thread reader"): one sender thread runs at a time (unless an
\* incoming call was accepted).
OneReader ==
    accepted = 0 => \A i, j \in Senders : SenderRuns(i) /\ SenderRuns(j) => i = j

\* BlockOnCall returns only when the call is over: the loop has ended, the
\* sender has been told to exit and, unless a signal ended the loop, no
\* session is left but one accepted after the loop was cancelled.
BlockOnCallOutlastsCall ==
    [][user = "blocked" /\ user' = "idle" =>
           /\ sip \in OutsideLoop \ (InStages \cup {"started"})
           /\ exiting
           /\ ~signalled => OnlyLateLeft]_vars

\* A hang-up during a call completes: once Stop has ended a session, it
\* returns, unless an incoming call was accepted, which keeps the loop going
\* for as long as the caller stays, or a signal has let the SIP thread release
\* the stack under Stop.
HangupCompletes == (user = "exit" /\ took) ~> (user = "idle" \/ accepted > 0 \/ corrupt)

\* A call that the remote party ends, or that never came about, sets the user
\* free: once OnClose has run while the user is in BlockOnCall, BlockOnCall
\* returns, whatever is still to be said to the remote party (unless an
\* incoming call was accepted).
RemoteEndUnblocks ==
    (user = "blocked" /\ sip \in {"loop", "write"} /\ exiting)
        ~> (user = "idle" \/ accepted > 0)

\* Stop is "hangup" (include/rawr/Call.h): whenever it is called, it returns.
StopReturns == (user = "exit") ~> (user = "idle" \/ corrupt)

\* UpdateMedia: "we need to parse the correct key".  While a call is
\* established, the receiving context holds the key of this call.
CurrentKey == outgoing = "established" /\ rxKey # 0 => rxKey = callNo
=============================================================================
