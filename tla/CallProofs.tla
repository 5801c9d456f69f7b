----------------------------- MODULE CallProofs -----------------------------
(***************************************************************************)
(* Proofs about the threads of a call, for any number of calls, incoming   *)
(* calls and sender threads.                                               *)
(***************************************************************************)
EXTENDS Call, TLAPS

\* The program points at which the SIP thread has built an object.
HasStream == {"reSip", "reSipSessSock", "reRtpSock", "reSdpSess", "connect",
              "re_main", "loop", "write", "join", "stop"}
HasHandle(h) == CASE h = "reSip" -> HasStream \ {"reSip"}
                  [] h = "reSipSessSock" -> HasStream \ {"reSip", "reSipSessSock"}
                  [] h = "reRtpSock" -> HasStream \ {"reSip", "reSipSessSock", "reRtpSock"}
                  [] h = "reSdpSess" -> {"connect", "re_main", "loop", "write", "join", "stop"}

\* The libre objects exist from their allocation to the label cleanup.
Built ==
    /\ sip \in HasStream => stream = "running"
    /\ \A h \in Handles : sip \in HasHandle(h) => handle[h] = "live"

\* reSipSess points to a session that nobody has released, and a call starts
\* with none.  Inside the loop the flag polling is cleared only when no session
\* is left, but for one accepted after that; a stack that is closing waits for
\* a session.
Sessions ==
    /\ PendingFinished
    /\ reSipSess = "outgoing" => outgoing \in {"inviting", "established"}
    /\ reSipSess = "incoming" => incoming \in {"accepted", "established"}
    /\ sip \in {"started"} \cup InStages /\ ~corrupt => ~SessionAlive
    /\ sip = "re_main" => incoming = "none"
    /\ sip \in {"loop", "write"} =>
          /\ outgoing # "none" => polling
          /\ incoming # "none" => polling \/ late
    /\ closing => SessionAlive
    /\ ~signalled /\ user \in {"idle", "blocked", "release"} /\ reSipSess = "outgoing" =>
          ~closing
    /\ accepted = 0 => incoming = "none" /\ ~late

\* The one sender is the one to be joined; it lives in the loop and in the
\* join that follows, and there is none before an answer.
OneSender ==
    accepted = 0 =>
        \A i \in Senders :
            SenderRuns(i) =>
                /\ i = rtpThread
                /\ sip \in {"loop", "write", "join"}
                /\ outgoing # "inviting"

\* While a Stop that ended a session has not closed the stack, nothing ends
\* the loop; after that, the SIP thread tears down what it has built.
HangupState ==
    /\ ~corrupt
    /\ sip \in {"re_main", "loop", "write", "join", "stop", "cleanup", "done"}
    /\ sip = "cleanup" => \A h \in Handles : handle[h] = "live"
    /\ user \in {"exit", "close"} =>
          /\ sip \in {"re_main", "loop", "write"}
          /\ sip \in {"loop", "write"} => polling
          /\ ~closing
          /\ outgoing \notin {"inviting", "established"}

Hangup ==
    took /\ accepted = 0 /\ ~signalled /\ user \in {"exit", "close", "join"} => HangupState

\* The state is that of this call.
Progress ==
    /\ callState = "Stopping" => exiting /\ sip \in {"join", "stop", "cleanup", "done", "off"}
    /\ callState = "None" => sip = "off"
    /\ user = "blocked" => sip # "off"

IInv == TypeOK /\ Built /\ Sessions /\ OneSender /\ Hangup /\ Progress

-----------------------------------------------------------------------------
\* The stages in order.
LEMMA StageOrder ==
  /\ InStages = {"audio", "reSip", "reSipSessSock", "reRtpSock", "reSdpSess", "connect"}
  /\ Len(Stages) = 6
  /\ Stages[1] = "audio" /\ Stages[2] = "reSip" /\ Stages[3] = "reSipSessSock"
  /\ Stages[4] = "reRtpSock" /\ Stages[5] = "reSdpSess" /\ Stages[6] = "connect"
  <1>1. /\ Len(Stages) = 6
        /\ Stages[1] = "audio" /\ Stages[2] = "reSip" /\ Stages[3] = "reSipSessSock"
        /\ Stages[4] = "reRtpSock" /\ Stages[5] = "reSdpSess" /\ Stages[6] = "connect"
    BY DEF Stages
  <1>2. 1..6 = {1, 2, 3, 4, 5, 6}
    OBVIOUS
  <1>3. InStages = {Stages[i] : i \in {1, 2, 3, 4, 5, 6}}
    BY <1>1, <1>2 DEF InStages
  <1> QED BY <1>1, <1>3

\* What a stage that succeeds leads to.
LEMMA StageStep ==
  ASSUME SetupStage
  PROVE  \/ sip = "audio" /\ sip' = "reSip"
         \/ sip = "reSip" /\ sip' = "reSipSessSock"
         \/ sip = "reSipSessSock" /\ sip' = "reRtpSock"
         \/ sip = "reRtpSock" /\ sip' = "reSdpSess"
         \/ sip = "reSdpSess" /\ sip' = "connect"
         \/ sip = "connect" /\ sip' = "re_main"
  <1>1. PICK i \in 1..Len(Stages) :
            /\ sip = Stages[i]
            /\ sip' = IF i = Len(Stages) THEN "re_main" ELSE Stages[i + 1]
    BY DEF SetupStage
  <1>2. i \in 1..6
    BY <1>1, StageOrder
  <1>3. i = 1 \/ i = 2 \/ i = 3 \/ i = 4 \/ i = 5 \/ i = 6
    BY <1>2
  <1> QED BY <1>1, <1>3, StageOrder

LEMMA StageEffect ==
  ASSUME SetupStage
  PROVE  /\ ~corrupt
         /\ stream' = IF sip = "audio" THEN "running" ELSE stream
         /\ handle' = [h \in Handles |-> IF h = sip THEN "live" ELSE handle[h]]
         /\ outgoing' = IF sip = "connect" THEN "inviting" ELSE outgoing
         /\ reSipSess' = IF sip = "connect" THEN "outgoing" ELSE reSipSess
         /\ UNCHANGED <<userVars, callState, exiting, callNo, closing, polling, incoming,
                        accepted, late, rxKey, senderVars, signalled, corrupt>>
  BY DEF SetupStage
\* What sip_close does to the flags.
LEMMA SipCloseEffect ==
  ASSUME TypeOK, SipClose
  PROVE  /\ closing' \in BOOLEAN /\ polling' \in BOOLEAN /\ corrupt' \in BOOLEAN
         /\ handle["reSip"] = "live" =>
               /\ closing' <=> SessionAlive'
               /\ polling' <=> polling /\ SessionAlive'
               /\ corrupt' = corrupt
         /\ handle["reSip"] # "live" => closing' = closing /\ polling' = polling
  <1>1. handle["reSip"] \in {"null", "live", "freed"}
    BY DEF TypeOK, Handles
  <1>2. SessionAlive' \in BOOLEAN
    BY DEF SessionAlive
  <1>3. closing \in BOOLEAN /\ polling \in BOOLEAN /\ corrupt \in BOOLEAN
    BY DEF TypeOK
  <1>4. CASE handle["reSip"] = "live"
    <2>1. /\ closing' = SessionAlive'
          /\ polling' = (polling /\ SessionAlive')
          /\ UNCHANGED corrupt
      BY <1>4 DEF SipClose
    <2> QED BY <2>1, <1>2, <1>3, <1>4, Zenon
  <1>5. CASE handle["reSip"] = "freed"
    <2>1. corrupt' = TRUE /\ UNCHANGED <<closing, polling>>
      BY <1>5 DEF SipClose
    <2> QED BY <2>1, <1>3, <1>5
  <1>6. CASE handle["reSip"] = "null"
    <2>1. UNCHANGED <<closing, polling, corrupt>>
      BY <1>6 DEF SipClose
    <2> QED BY <2>1, <1>3, <1>6
  <1> QED BY <1>1, <1>4, <1>5, <1>6

LEMMA SessionGoneEffect ==
  ASSUME TypeOK, SessionGone
  PROVE  /\ closing' \in BOOLEAN /\ polling' \in BOOLEAN
         /\ closing /\ ~SessionAlive' => ~closing' /\ ~polling'
         /\ ~closing \/ SessionAlive' => closing' = closing /\ polling' = polling
  <1>1. closing \in BOOLEAN /\ polling \in BOOLEAN
    BY DEF TypeOK
  <1>2. CASE closing /\ ~SessionAlive'
    <2>1. closing' = FALSE /\ polling' = FALSE
      BY <1>2, Zenon DEF SessionGone
    <2> QED BY <2>1, <1>2, Zenon
  <1>3. CASE ~(closing /\ ~SessionAlive')
    <2>1. UNCHANGED <<closing, polling>>
      BY <1>3, Zenon DEF SessionGone
    <2>2. closing' = closing /\ polling' = polling
      BY <2>1
    <2> QED BY <2>2, <1>1, <1>3, Zenon
  <1> QED BY <1>2, <1>3, Zenon

LEMMA InitInv == Init => IInv
  <1> SUFFICES ASSUME Init PROVE IInv
    OBVIOUS
  <1> USE CallAssumption
  <1>1. TypeOK
    <2>1. /\ user \in {"idle", "release", "exit", "close", "join", "blocked"}
          /\ sip \in OutsideLoop
          /\ callNo \in 0..MaxCalls /\ rxKey \in 0..MaxCalls /\ accepted \in 0..MaxIncoming
      BY DEF Init, OutsideLoop
    <2>2. handle \in [Handles -> {"null", "live", "freed"}]
      BY DEF Init
    <2>3. sender \in [Senders -> {"check", "read", "ended"}]
      BY DEF Init
    <2> QED BY <2>1, <2>2, <2>3 DEF Init, TypeOK
  <1>2. Built
    BY DEF Init, Built, HasStream, HasHandle, Handles
  <1>3. Sessions
    BY DEF Init, Sessions, PendingFinished, OnlyLateLeft, SessionAlive
  <1>4. OneSender
    BY DEF Init, OneSender, SenderRuns
  <1>5. Hangup /\ Progress
    BY DEF Init, Hangup, Progress
  <1> QED BY <1>1, <1>2, <1>3, <1>4, <1>5 DEF IInv

-----------------------------------------------------------------------------
(* Every action keeps the invariant: one lemma per action, with one step   *)
(* per part that the action can disturb and one for the parts it leaves.   *)

LEMMA StartInv == IInv /\ Start => IInv'
  <1> SUFFICES ASSUME IInv, Start PROVE IInv'
    OBVIOUS
  <1>0. callNo' \in 0..MaxCalls
    <2>1. callNo \in 0..MaxCalls /\ callNo < MaxCalls /\ callNo' = callNo + 1
      BY DEF IInv, TypeOK, Start
    <2> QED BY <2>1, CallAssumption
  <1> USE CallAssumption, StageOrder DEF IInv
  <1>1. TypeOK'
    <2>1. /\ callState' = "Starting" /\ sip' = "started" /\ exiting' = FALSE
          /\ UNCHANGED <<user, loaded, took, handle, stream, closing, polling, reSipSess, late,
                         outgoing, incoming, accepted, rxKey, sender, rtpThread, signalled>>
      BY DEF Start, userVars, stackVars, sessVars, senderVars
    <2>2. exiting' \in BOOLEAN /\ corrupt' \in BOOLEAN
      BY <2>1 DEF Start, SessionAlive
    <2>3. sip' \in OutsideLoop /\ callState' \in {"None", "Starting", "Started", "Stopping"}
      BY <2>1 DEF OutsideLoop
    <2>4. rxKey' \in 0..MaxCalls /\ accepted' \in 0..MaxIncoming
      BY <2>1 DEF TypeOK
    <2>5. /\ handle' \in [Handles -> {"null", "live", "freed"}]
          /\ sender' \in [Senders -> {"check", "read", "ended"}]
      BY <2>1 DEF TypeOK
    <2> QED BY <1>0, <2>1, <2>2, <2>3, <2>4, <2>5 DEF TypeOK
  <1>2. Built'
    BY DEF Built, HasStream, HasHandle, Handles, Start, userVars, stackVars, sessVars,
       senderVars
  <1>3. Sessions'
    BY DEF Sessions, PendingFinished, OnlyLateLeft, OutsideLoop, SessionAlive, Start, userVars,
       stackVars, sessVars, senderVars
  <1>4. OneSender'
    BY DEF OneSender, SenderRuns, Start, userVars, stackVars, sessVars, senderVars
  <1>5. Hangup'
    BY DEF Hangup, HangupState, Start, userVars, stackVars, sessVars, senderVars
  <1>6. Progress'
    BY DEF Progress, Start, userVars, stackVars, sessVars, senderVars
  <1> QED BY <1>1, <1>2, <1>3, <1>4, <1>5, <1>6

LEMMA StopLoadInv == IInv /\ StopLoad => IInv'
  <1> SUFFICES ASSUME IInv, StopLoad PROVE IInv'
    OBVIOUS
  <1> USE CallAssumption, StageOrder DEF IInv
  <1>1. TypeOK'
    BY DEF TypeOK, StopLoad, stackVars, sessVars, senderVars
  <1>2. Sessions'
    BY DEF Sessions, PendingFinished, OnlyLateLeft, OutsideLoop, SessionAlive, StopLoad, stackVars,
       sessVars, senderVars
  <1>3. Hangup'
    BY DEF Hangup, HangupState, StopLoad, stackVars, sessVars, senderVars
  <1>4. Progress'
    BY DEF Progress, StopLoad, stackVars, sessVars, senderVars
  <1>5. Built' /\ OneSender'
    BY DEF Built, OneSender, SenderRuns, StopLoad, stackVars, sessVars, senderVars
  <1> QED BY <1>1, <1>2, <1>3, <1>4, <1>5

LEMMA StopSessionInv == IInv /\ StopSession => IInv'
  <1> SUFFICES ASSUME IInv, StopSession PROVE IInv'
    OBVIOUS
  <1> USE CallAssumption, StageOrder DEF IInv
  <1>0. /\ SessionGone /\ ~corrupt /\ user = "release" /\ user' = "exit" /\ reSipSess' = "null"
        /\ took' = (loaded # "null" /\ loaded = reSipSess)
        /\ corrupt' = (loaded # "null" /\ loaded # reSipSess)
        /\ UNCHANGED <<loaded, sip, callState, exiting, callNo, handle, stream, accepted, late,
                       rxKey, sender, rtpThread, signalled>>
    BY DEF StopSession, senderVars
  <1>1. /\ outgoing' \in {outgoing, "cancelling", "leaving", "none"}
        /\ incoming' \in {incoming, "leaving", "none"}
        /\ outgoing = "none" => outgoing' = "none"
        /\ incoming = "none" => incoming' = "none"
        /\ outgoing = "inviting" \/ outgoing' # "inviting"
        /\ took' /\ reSipSess = "outgoing" => outgoing' \notin {"inviting", "established"}
    BY <1>0 DEF StopSession, ReleaseSession, Released, Sessions
  <1>2. /\ closing' \in BOOLEAN /\ polling' \in BOOLEAN
        /\ closing' => SessionAlive'
        /\ SessionAlive' => polling' = polling
        /\ ~closing => closing' = closing /\ polling' = polling
    <2>1. SessionAlive' => SessionAlive
      BY <1>1 DEF SessionAlive
    <2>2. closing => SessionAlive
      BY DEF Sessions
    <2> QED BY <1>0, <2>1, <2>2, SessionGoneEffect, Zenon
  <1>3. TypeOK'
    <2>1. /\ outgoing' \in {"none", "inviting", "established", "cancelling", "leaving", "leaked"}
          /\ incoming' \in {"none", "accepted", "established", "leaving", "leaked"}
      BY <1>1 DEF TypeOK
    <2>2. took' \in BOOLEAN /\ corrupt' \in BOOLEAN
      BY <1>0
    <2> QED BY <1>0, <1>2, <2>1, <2>2 DEF TypeOK
  <1>4. Sessions'
    <2>1. PendingFinished'
      BY <1>0, <1>1 DEF Sessions, PendingFinished, OnlyLateLeft
    <2>2. SessionAlive' => SessionAlive
      BY <1>1 DEF SessionAlive
    <2>3. sip' \in {"loop", "write"} =>
             /\ outgoing' # "none" => polling'
             /\ incoming' # "none" => polling' \/ late'
      <3>1. (outgoing' # "none" => outgoing # "none") /\ (incoming' # "none" => incoming # "none")
        BY <1>1
      <3>2. (outgoing' # "none" \/ incoming' # "none") => polling' = polling
        BY <1>2 DEF SessionAlive
      <3> QED BY <1>0, <3>1, <3>2 DEF Sessions
    <2> QED BY <1>0, <1>1, <1>2, <2>1, <2>2, <2>3 DEF Sessions
  <1>5. OneSender'
    BY <1>0, <1>1 DEF OneSender, SenderRuns
  <1>6. Hangup'
    <2> SUFFICES ASSUME took', accepted' = 0, ~signalled' PROVE HangupState'
      BY DEF Hangup
    <2>1. /\ loaded # "null" /\ loaded = reSipSess /\ accepted = 0 /\ ~signalled
          /\ ~corrupt' /\ user = "release"
      BY <1>0
    <2>2. reSipSess = "outgoing"
      BY <2>1 DEF TypeOK, Sessions
    <2>3. outgoing # "none" /\ ~closing
      BY <2>1, <2>2 DEF Sessions
    <2>4. sip \in {"re_main", "loop", "write"} /\ (sip # "re_main" => polling)
      BY <2>1, <2>3 DEF TypeOK, Sessions, PendingFinished, OnlyLateLeft
    <2>5. outgoing' \notin {"inviting", "established"}
      BY <1>1, <2>2
    <2>6. ~closing' /\ polling' = polling
      BY <1>2, <2>3, Zenon
    <2> QED BY <1>0, <2>1, <2>4, <2>5, <2>6 DEF HangupState
  <1>7. Built' /\ Progress'
    BY <1>0 DEF Built, Progress
  <1> QED BY <1>3, <1>4, <1>5, <1>6, <1>7

LEMMA StopExitingInv == IInv /\ StopExiting => IInv'
  <1> SUFFICES ASSUME IInv, StopExiting PROVE IInv'
    OBVIOUS
  <1> USE CallAssumption, StageOrder DEF IInv
  <1>1. TypeOK'
    BY DEF TypeOK, StopExiting, stackVars, sessVars, senderVars
  <1>2. Sessions'
    BY DEF Sessions, PendingFinished, OnlyLateLeft, OutsideLoop, SessionAlive, StopExiting, stackVars,
       sessVars, senderVars
  <1>3. Hangup'
    BY DEF Hangup, HangupState, StopExiting, stackVars, sessVars, senderVars
  <1>4. Progress'
    BY DEF Progress, StopExiting, stackVars, sessVars, senderVars
  <1>5. Built' /\ OneSender'
    BY DEF Built, OneSender, SenderRuns, StopExiting, stackVars, sessVars, senderVars
  <1> QED BY <1>1, <1>2, <1>3, <1>4, <1>5

LEMMA StopJoinInv == IInv /\ StopJoin => IInv'
  <1> SUFFICES ASSUME IInv, StopJoin PROVE IInv'
    OBVIOUS
  <1> USE CallAssumption, StageOrder DEF IInv
  <1>1. TypeOK'
    BY DEF TypeOK, OutsideLoop, StopJoin, stackVars, sessVars, senderVars
  <1>2. Built'
    BY DEF Built, HasStream, HasHandle, Handles, StopJoin, stackVars, sessVars,
       senderVars
  <1>3. Sessions'
    BY DEF Sessions, PendingFinished, OnlyLateLeft, OutsideLoop, SessionAlive, StopJoin, stackVars,
       sessVars, senderVars
  <1>4. OneSender'
    BY DEF OneSender, SenderRuns, StopJoin, stackVars, sessVars, senderVars
  <1>5. Hangup'
    BY DEF Hangup, HangupState, StopJoin, stackVars, sessVars, senderVars
  <1>6. Progress'
    BY DEF Progress, StopJoin, stackVars, sessVars, senderVars
  <1> QED BY <1>1, <1>2, <1>3, <1>4, <1>5, <1>6

LEMMA BlockOnCallInv == IInv /\ BlockOnCall => IInv'
  <1> SUFFICES ASSUME IInv, BlockOnCall PROVE IInv'
    OBVIOUS
  <1> USE CallAssumption, StageOrder DEF IInv
  <1>1. TypeOK'
    BY DEF TypeOK, BlockOnCall, stackVars, sessVars, senderVars
  <1>2. Sessions'
    BY DEF Sessions, PendingFinished, OnlyLateLeft, OutsideLoop, SessionAlive, BlockOnCall, stackVars,
       sessVars, senderVars
  <1>3. Hangup'
    BY DEF Hangup, HangupState, BlockOnCall, stackVars, sessVars, senderVars
  <1>4. Progress'
    BY DEF Progress, BlockOnCall, stackVars, sessVars, senderVars
  <1>5. Built' /\ OneSender'
    BY DEF Built, OneSender, SenderRuns, BlockOnCall, stackVars, sessVars, senderVars
  <1> QED BY <1>1, <1>2, <1>3, <1>4, <1>5

LEMMA BlockReturnsInv == IInv /\ BlockReturns => IInv'
  <1> SUFFICES ASSUME IInv, BlockReturns PROVE IInv'
    OBVIOUS
  <1> USE CallAssumption, StageOrder DEF IInv
  <1>1. TypeOK'
    BY DEF TypeOK, BlockReturns, stackVars, sessVars, senderVars
  <1>2. Sessions'
    BY DEF Sessions, PendingFinished, OnlyLateLeft, OutsideLoop, SessionAlive, BlockReturns,
       stackVars, sessVars, senderVars
  <1>3. Hangup'
    BY DEF Hangup, HangupState, BlockReturns, stackVars, sessVars, senderVars
  <1>4. Progress'
    BY DEF Progress, BlockReturns, stackVars, sessVars, senderVars
  <1>5. Built' /\ OneSender'
    BY DEF Built, OneSender, SenderRuns, BlockReturns, stackVars, sessVars, senderVars
  <1> QED BY <1>1, <1>2, <1>3, <1>4, <1>5

LEMMA SipThreadBeginInv == IInv /\ SipThreadBegin => IInv'
  <1> SUFFICES ASSUME IInv, SipThreadBegin PROVE IInv'
    OBVIOUS
  <1> USE CallAssumption, StageOrder DEF IInv
  <1>1. TypeOK'
    BY DEF TypeOK, OutsideLoop, SipThreadBegin, userVars, stackVars, sessVars,
       senderVars
  <1>2. Built'
    BY DEF Built, HasStream, HasHandle, Handles, SipThreadBegin, userVars, stackVars,
       sessVars, senderVars
  <1>3. Sessions'
    BY DEF Sessions, PendingFinished, OnlyLateLeft, OutsideLoop, SessionAlive, SipThreadBegin,
       userVars, stackVars, sessVars, senderVars
  <1>4. OneSender'
    BY DEF OneSender, SenderRuns, SipThreadBegin, userVars, stackVars, sessVars,
       senderVars
  <1>5. Hangup'
    BY DEF Hangup, HangupState, SipThreadBegin, userVars, stackVars, sessVars,
       senderVars
  <1>6. Progress'
    BY DEF Progress, SipThreadBegin, userVars, stackVars, sessVars, senderVars
  <1> QED BY <1>1, <1>2, <1>3, <1>4, <1>5, <1>6

LEMMA SetupFailsInv == IInv /\ SetupFails => IInv'
  <1> SUFFICES ASSUME IInv, SetupFails PROVE IInv'
    OBVIOUS
  <1> USE CallAssumption, StageOrder DEF IInv
  <1>1. TypeOK'
    BY DEF TypeOK, OutsideLoop, SetupFails, userVars, sessVars, senderVars
  <1>2. Built'
    BY DEF Built, HasStream, HasHandle, Handles, SetupFails, userVars, sessVars,
       senderVars
  <1>3. Sessions'
    BY DEF Sessions, PendingFinished, OnlyLateLeft, OutsideLoop, SessionAlive, SetupFails, userVars,
       sessVars, senderVars
  <1>4. OneSender'
    BY DEF OneSender, SenderRuns, SetupFails, userVars, sessVars, senderVars
  <1>5. Hangup'
    BY DEF Hangup, HangupState, SetupFails, userVars, sessVars, senderVars
  <1>6. Progress'
    BY DEF Progress, SetupFails, userVars, sessVars, senderVars
  <1> QED BY <1>1, <1>2, <1>3, <1>4, <1>5, <1>6

LEMMA ReMainInv == IInv /\ ReMain => IInv'
  <1> SUFFICES ASSUME IInv, ReMain PROVE IInv'
    OBVIOUS
  <1> USE CallAssumption, StageOrder DEF IInv
  <1>1. TypeOK'
    BY DEF TypeOK, OutsideLoop, ReMain, userVars, sessVars, senderVars
  <1>2. Built'
    BY DEF Built, HasStream, HasHandle, Handles, ReMain, userVars, sessVars, senderVars
  <1>3. Sessions'
    BY DEF Sessions, PendingFinished, OnlyLateLeft, OutsideLoop, SessionAlive, ReMain, userVars,
       sessVars, senderVars
  <1>4. OneSender'
    BY DEF OneSender, SenderRuns, ReMain, userVars, sessVars, senderVars
  <1>5. Hangup'
    BY DEF Hangup, HangupState, ReMain, userVars, sessVars, senderVars
  <1>6. Progress'
    BY DEF Progress, ReMain, userVars, sessVars, senderVars
  <1> QED BY <1>1, <1>2, <1>3, <1>4, <1>5, <1>6

LEMMA AnsweredInv == IInv /\ Answered => IInv'
  <1> SUFFICES ASSUME IInv, Answered PROVE IInv'
    OBVIOUS
  <1> USE CallAssumption, StageOrder DEF IInv
  <1>1. TypeOK'
    BY DEF TypeOK, Answered, UpdateMedia, LaunchSender, userVars, stackVars
  <1>2. Sessions'
    BY DEF Sessions, PendingFinished, OnlyLateLeft, OutsideLoop, SessionAlive, Answered, UpdateMedia,
       LaunchSender, userVars, stackVars
  <1>3. OneSender'
    BY DEF OneSender, SenderRuns, Answered, UpdateMedia, LaunchSender, userVars,
       stackVars
  <1>4. Hangup'
    BY DEF Hangup, HangupState, Answered, UpdateMedia, LaunchSender, userVars, stackVars
  <1>5. Built' /\ Progress'
    BY DEF Built, Progress, Answered, userVars, stackVars
  <1> QED BY <1>1, <1>2, <1>3, <1>4, <1>5

LEMMA OnConnectInv == IInv /\ OnConnect => IInv'
  <1> SUFFICES ASSUME IInv, OnConnect PROVE IInv'
    OBVIOUS
  <1> USE CallAssumption, StageOrder DEF IInv
  <1>0. accepted' # 0 /\ accepted' \in 0..MaxIncoming
    BY DEF TypeOK, OnConnect
  <1>1. TypeOK'
    BY DEF TypeOK, OnConnect, UpdateMedia, LaunchSender, userVars, stackVars
  <1>2. Sessions'
    BY <1>0 DEF Sessions, PendingFinished, OnlyLateLeft, OutsideLoop, SessionAlive, OnConnect,
       UpdateMedia, LaunchSender, userVars, stackVars
  <1>3. OneSender'
    BY <1>0 DEF OneSender, SenderRuns, OnConnect, UpdateMedia, LaunchSender, userVars,
       stackVars
  <1>4. Hangup'
    BY <1>0 DEF Hangup, HangupState, OnConnect, UpdateMedia, LaunchSender, userVars,
       stackVars
  <1>5. Built' /\ Progress'
    BY DEF Built, Progress, OnConnect, userVars, stackVars
  <1> QED BY <1>1, <1>2, <1>3, <1>4, <1>5

LEMMA IncomingEstablishedInv == IInv /\ IncomingEstablished => IInv'
  <1> SUFFICES ASSUME IInv, IncomingEstablished PROVE IInv'
    OBVIOUS
  <1> USE CallAssumption, StageOrder DEF IInv
  <1>1. TypeOK'
    BY DEF TypeOK, IncomingEstablished, UpdateMedia, LaunchSender, userVars, stackVars
  <1>2. Sessions'
    BY DEF Sessions, PendingFinished, OnlyLateLeft, OutsideLoop, SessionAlive, IncomingEstablished,
       UpdateMedia, LaunchSender, userVars, stackVars
  <1>3. OneSender'
    BY DEF OneSender, SenderRuns, Sessions, IncomingEstablished, UpdateMedia,
       LaunchSender, userVars, stackVars
  <1>4. Built' /\ Hangup' /\ Progress'
    BY DEF Built, Hangup, HangupState, Progress, IncomingEstablished, userVars,
       stackVars
  <1> QED BY <1>1, <1>2, <1>3, <1>4

LEMMA OnOfferInv == IInv /\ OnOffer => IInv'
  <1> SUFFICES ASSUME IInv, OnOffer PROVE IInv'
    OBVIOUS
  <1> USE CallAssumption, StageOrder DEF IInv
  <1>1. TypeOK'
    BY DEF TypeOK, OnOffer, UpdateMedia, userVars, stackVars, sessVars, senderVars
  <1>2. Built' /\ Sessions' /\ OneSender' /\ Hangup' /\ Progress'
    BY DEF Built, Sessions, PendingFinished, OnlyLateLeft, SessionAlive, OneSender, SenderRuns,
       Hangup, HangupState, Progress, OnOffer, userVars, stackVars, sessVars, senderVars
  <1> QED BY <1>1, <1>2

LEMMA OnRtpInv == IInv /\ OnRtp => IInv'
  <1> SUFFICES ASSUME IInv, OnRtp PROVE IInv'
    OBVIOUS
  <1> USE CallAssumption, StageOrder DEF IInv
  <1>1. TypeOK'
    BY DEF TypeOK, OutsideLoop, OnRtp, userVars, stackVars, sessVars, senderVars
  <1>2. Built'
    BY DEF Built, HasStream, HasHandle, Handles, OnRtp, userVars, stackVars, sessVars,
       senderVars
  <1>3. Sessions'
    BY DEF Sessions, PendingFinished, OnlyLateLeft, OutsideLoop, SessionAlive, OnRtp, userVars,
       stackVars, sessVars, senderVars
  <1>4. OneSender'
    BY DEF OneSender, SenderRuns, OnRtp, userVars, stackVars, sessVars, senderVars
  <1>5. Hangup'
    BY DEF Hangup, HangupState, OnRtp, userVars, stackVars, sessVars, senderVars
  <1>6. Progress'
    BY DEF Progress, OnRtp, userVars, stackVars, sessVars, senderVars
  <1> QED BY <1>1, <1>2, <1>3, <1>4, <1>5, <1>6

LEMMA OnRtpWrittenInv == IInv /\ OnRtpWritten => IInv'
  <1> SUFFICES ASSUME IInv, OnRtpWritten PROVE IInv'
    OBVIOUS
  <1> USE CallAssumption, StageOrder DEF IInv
  <1>1. TypeOK'
    BY DEF TypeOK, OutsideLoop, OnRtpWritten, userVars, stackVars, sessVars, senderVars
  <1>2. Built'
    BY DEF Built, HasStream, HasHandle, Handles, OnRtpWritten, userVars, stackVars,
       sessVars, senderVars
  <1>3. Sessions'
    BY DEF Sessions, PendingFinished, OnlyLateLeft, OutsideLoop, SessionAlive, OnRtpWritten, userVars,
       stackVars, sessVars, senderVars
  <1>4. OneSender'
    BY DEF OneSender, SenderRuns, OnRtpWritten, userVars, stackVars, sessVars,
       senderVars
  <1>5. Hangup'
    BY DEF Hangup, HangupState, OnRtpWritten, userVars, stackVars, sessVars, senderVars
  <1>6. Progress'
    BY DEF Progress, OnRtpWritten, userVars, stackVars, sessVars, senderVars
  <1> QED BY <1>1, <1>2, <1>3, <1>4, <1>5, <1>6

LEMMA LoopEndsInv == IInv /\ LoopEnds => IInv'
  <1> SUFFICES ASSUME IInv, LoopEnds PROVE IInv'
    OBVIOUS
  <1> USE CallAssumption, StageOrder DEF IInv
  <1>1. TypeOK'
    BY DEF TypeOK, OutsideLoop, LoopEnds, userVars, stackVars, sessVars, senderVars
  <1>2. Built'
    BY DEF Built, HasStream, HasHandle, Handles, LoopEnds, userVars, stackVars,
       sessVars, senderVars
  <1>3. Sessions'
    BY DEF Sessions, PendingFinished, OnlyLateLeft, OutsideLoop, SessionAlive, TypeOK, LoopEnds,
       userVars, stackVars, sessVars, senderVars
  <1>4. OneSender'
    BY DEF OneSender, SenderRuns, LoopEnds, userVars, stackVars, sessVars, senderVars
  <1>5. Hangup'
    BY DEF Hangup, HangupState, LoopEnds, userVars, stackVars, sessVars, senderVars
  <1>6. Progress'
    BY DEF Progress, LoopEnds, userVars, stackVars, sessVars, senderVars
  <1> QED BY <1>1, <1>2, <1>3, <1>4, <1>5, <1>6

LEMMA OnSignalInv == IInv /\ OnSignal => IInv'
  <1> SUFFICES ASSUME IInv, OnSignal PROVE IInv'
    OBVIOUS
  <1> USE CallAssumption, StageOrder DEF IInv
  <1>1. TypeOK'
    <2>1. polling' \in BOOLEAN /\ exiting' \in BOOLEAN /\ signalled' \in BOOLEAN
      BY Zenon DEF OnSignal
    <2> QED BY <2>1 DEF TypeOK, OutsideLoop, OnSignal, userVars, sessVars, senderVars
  <1>2. Built'
    BY DEF Built, HasStream, HasHandle, Handles, OnSignal, userVars, stackVars,
       sessVars, senderVars
  <1>3. Sessions'
    BY DEF Sessions, PendingFinished, OnlyLateLeft, OutsideLoop, SessionAlive, TypeOK, OnSignal,
       userVars, stackVars, sessVars, senderVars
  <1>4. OneSender'
    BY DEF OneSender, SenderRuns, OnSignal, userVars, stackVars, sessVars, senderVars
  <1>5. Hangup'
    BY DEF Hangup, HangupState, OnSignal, userVars, stackVars, sessVars, senderVars
  <1>6. Progress'
    BY DEF Progress, OnSignal, userVars, stackVars, sessVars, senderVars
  <1> QED BY <1>1, <1>2, <1>3, <1>4, <1>5, <1>6

LEMMA JoinSenderInv == IInv /\ JoinSender => IInv'
  <1> SUFFICES ASSUME IInv, JoinSender PROVE IInv'
    OBVIOUS
  <1> USE CallAssumption, StageOrder DEF IInv
  <1>1. TypeOK'
    BY DEF TypeOK, OutsideLoop, JoinSender, userVars, stackVars, sessVars
  <1>2. Built'
    BY DEF Built, HasStream, HasHandle, Handles, JoinSender, userVars, stackVars,
       sessVars
  <1>3. Sessions'
    BY DEF Sessions, PendingFinished, OnlyLateLeft, OutsideLoop, SessionAlive, JoinSender, userVars,
       stackVars, sessVars
  <1>4. OneSender'
    BY DEF OneSender, SenderRuns, JoinSender, userVars, stackVars, sessVars
  <1>5. Hangup'
    BY DEF Hangup, HangupState, JoinSender, userVars, stackVars, sessVars
  <1>6. Progress'
    BY DEF Progress, JoinSender, userVars, stackVars, sessVars
  <1> QED BY <1>1, <1>2, <1>3, <1>4, <1>5, <1>6

LEMMA StopStreamInv == IInv /\ StopStream => IInv'
  <1> SUFFICES ASSUME IInv, StopStream PROVE IInv'
    OBVIOUS
  <1> USE CallAssumption, StageOrder DEF IInv
  <1>1. TypeOK'
    BY DEF TypeOK, OutsideLoop, StopStream, userVars, sessVars, senderVars
  <1>2. Built'
    BY DEF Built, HasStream, HasHandle, Handles, StopStream, userVars, sessVars,
       senderVars
  <1>3. Sessions'
    BY DEF Sessions, PendingFinished, OnlyLateLeft, OutsideLoop, SessionAlive, StopStream, userVars,
       sessVars, senderVars
  <1>4. OneSender'
    BY DEF OneSender, SenderRuns, StopStream, userVars, sessVars, senderVars
  <1>5. Hangup'
    BY DEF Hangup, HangupState, Built, HasStream, HasHandle, Handles, StopStream,
       userVars, sessVars, senderVars
  <1>6. Progress'
    BY DEF Progress, StopStream, userVars, sessVars, senderVars
  <1> QED BY <1>1, <1>2, <1>3, <1>4, <1>5, <1>6

LEMMA SipThreadEndsInv == IInv /\ SipThreadEnds => IInv'
  <1> SUFFICES ASSUME IInv, SipThreadEnds PROVE IInv'
    OBVIOUS
  <1> USE CallAssumption, StageOrder DEF IInv
  <1>1. TypeOK'
    BY DEF TypeOK, OutsideLoop, SipThreadEnds, userVars, sessVars, senderVars
  <1>2. Built'
    BY DEF Built, HasStream, HasHandle, Handles, SipThreadEnds, userVars, sessVars,
       senderVars
  <1>3. Sessions'
    BY DEF Sessions, PendingFinished, OnlyLateLeft, OutsideLoop, SessionAlive, SipThreadEnds,
       userVars, sessVars, senderVars
  <1>4. OneSender'
    BY DEF OneSender, SenderRuns, SipThreadEnds, userVars, sessVars, senderVars
  <1>5. Hangup'
    BY DEF Hangup, HangupState, SipThreadEnds, userVars, sessVars, senderVars
  <1>6. Progress'
    BY DEF Progress, SipThreadEnds, userVars, sessVars, senderVars
  <1> QED BY <1>1, <1>2, <1>3, <1>4, <1>5, <1>6

LEMMA SenderChecksInv == \A i \in Senders : IInv /\ SenderChecks(i) => IInv'
  <1> SUFFICES ASSUME NEW i \in Senders, IInv, SenderChecks(i) PROVE IInv'
    OBVIOUS
  <1> USE CallAssumption, StageOrder DEF IInv
  <1>1. TypeOK'
    BY DEF TypeOK, SenderChecks, userVars, stackVars, sessVars
  <1>2. OneSender'
    BY DEF OneSender, SenderRuns, SenderChecks, userVars, stackVars, sessVars
  <1>3. Built' /\ Sessions' /\ Hangup' /\ Progress'
    BY DEF Built, Sessions, PendingFinished, OnlyLateLeft, SessionAlive, Hangup, HangupState,
       Progress, SenderChecks, userVars, stackVars, sessVars
  <1> QED BY <1>1, <1>2, <1>3

LEMMA SenderSendsInv == \A i \in Senders : IInv /\ SenderSends(i) => IInv'
  <1> SUFFICES ASSUME NEW i \in Senders, IInv, SenderSends(i) PROVE IInv'
    OBVIOUS
  <1> USE CallAssumption, StageOrder DEF IInv
  <1>1. TypeOK'
    BY DEF TypeOK, SenderSends, userVars, stackVars, sessVars
  <1>2. OneSender'
    BY DEF OneSender, SenderRuns, TypeOK, SenderSends, userVars, stackVars, sessVars
  <1>3. Hangup'
    <2>1. accepted = 0 => stream = "running" /\ handle["reRtpSock"] = "live"
      BY DEF SenderSends, OneSender, SenderRuns, Built, HasStream, HasHandle, Handles
    <2>2. accepted = 0 => ~corrupt'
      BY <2>1 DEF SenderSends
    <2> QED BY <2>2 DEF Hangup, HangupState, SenderSends, userVars, stackVars, sessVars
  <1>4. Built' /\ Sessions' /\ Progress'
    BY DEF Built, Sessions, PendingFinished, OnlyLateLeft, SessionAlive, Progress, SenderSends,
       userVars, stackVars, sessVars
  <1> QED BY <1>1, <1>2, <1>3, <1>4

LEMMA StopCloseInv == IInv /\ StopClose => IInv'
  <1> SUFFICES ASSUME IInv, StopClose PROVE IInv'
    OBVIOUS
  <1> USE CallAssumption, StageOrder DEF IInv
  <1>1. /\ SipClose /\ user = "close" /\ user' = "join"
        /\ UNCHANGED <<took, sip, handle, reSipSess, outgoing, incoming, accepted, late, signalled>>
        /\ ~corrupt
    BY DEF StopClose, sessVars
  <1>2. SessionAlive' <=> SessionAlive
    BY <1>1 DEF SessionAlive
  <1>3. TypeOK'
    <2>1. closing' \in BOOLEAN /\ polling' \in BOOLEAN /\ corrupt' \in BOOLEAN
      BY <1>1, SipCloseEffect
    <2> QED BY <2>1 DEF TypeOK, StopClose, sessVars, senderVars
  <1>4. Sessions'
    <2>1. /\ closing' => SessionAlive'
          /\ polling /\ SessionAlive' => polling'
      BY <1>1, <1>2, SipCloseEffect, Zenon DEF Sessions
    <2>2. (outgoing' # "none" \/ incoming' # "none") => SessionAlive'
      BY DEF SessionAlive
    <2> QED BY <1>1, <1>2, <2>1, <2>2 DEF Sessions, PendingFinished, OnlyLateLeft
  <1>5. Hangup'
    <2> SUFFICES ASSUME took', accepted' = 0, ~signalled' PROVE HangupState'
      BY DEF Hangup
    <2>1. HangupState
      BY <1>1 DEF Hangup
    <2>2. sip \in {"re_main", "loop", "write"} /\ ~corrupt
      BY <1>1, <2>1 DEF HangupState
    <2>3. handle["reSip"] = "live"
      BY <2>2 DEF Built, HasStream, HasHandle, Handles
    <2>4. ~corrupt'
      BY <1>1, <2>2, <2>3, SipCloseEffect
    <2> QED BY <1>1, <2>2, <2>4 DEF HangupState
  <1>6. Built' /\ OneSender' /\ Progress'
    BY DEF Built, OneSender, SenderRuns, Progress, StopClose, sessVars, senderVars
  <1> QED BY <1>3, <1>4, <1>5, <1>6

LEMMA SetupStageInv == IInv /\ SetupStage => IInv'
  <1> SUFFICES ASSUME IInv, SetupStage PROVE IInv'
    OBVIOUS
  <1> USE CallAssumption, StageOrder, StageStep, StageEffect DEF IInv
  <1>1. TypeOK'
    BY DEF TypeOK, OutsideLoop, userVars, senderVars
  <1>2. Built'
    BY DEF TypeOK, Built, HasStream, HasHandle, Handles
  <1>3. Sessions'
    BY DEF Sessions, PendingFinished, OnlyLateLeft, OutsideLoop, SessionAlive, userVars
  <1>4. OneSender'
    BY DEF OneSender, SenderRuns, senderVars
  <1>5. Hangup'
    <2>1. ~(took /\ accepted = 0 /\ ~signalled /\ user \in {"exit", "close", "join"})
      BY DEF Hangup, HangupState
    <2>2. UNCHANGED <<took, accepted, signalled, user>>
      BY DEF userVars
    <2> QED BY <2>1, <2>2 DEF Hangup
  <1>6. Progress'
    BY DEF Progress, userVars
  <1> QED BY <1>1, <1>2, <1>3, <1>4, <1>5, <1>6

LEMMA CancelAnsweredInv == IInv /\ CancelAnswered => IInv'
  <1> SUFFICES ASSUME IInv, CancelAnswered PROVE IInv'
    OBVIOUS
  <1> USE CallAssumption, StageOrder DEF IInv
  <1>0. SessionGone
    BY DEF CancelAnswered
  <1>1. TypeOK'
    BY <1>0, SessionGoneEffect DEF TypeOK, OutsideLoop, CancelAnswered, userVars, senderVars
  <1>2. Built'
    BY DEF Built, HasStream, HasHandle, Handles, CancelAnswered
  <1>3. Sessions'
    <2>1. /\ sip = "loop" /\ sip' = "loop"
          /\ UNCHANGED <<user, reSipSess, accepted, late, signalled>>
          /\ reSipSess = "outgoing" => UNCHANGED outgoing
          /\ reSipSess = "incoming" => UNCHANGED incoming
          /\ outgoing' # "none" => outgoing # "none"
          /\ incoming' # "none" => incoming # "none"
      BY DEF CancelAnswered, Sessions, userVars
    <2>2. SessionAlive /\ (SessionAlive' => polling' = polling) /\ (closing' => SessionAlive')
      <3>1. SessionAlive
        BY DEF CancelAnswered, SessionAlive
      <3> QED BY <1>0, <3>1, SessionGoneEffect, Zenon
    <2>3. /\ outgoing' # "none" => polling'
          /\ incoming' # "none" => polling' \/ late'
      BY <2>1, <2>2 DEF Sessions, SessionAlive
    <2>4. "loop" \notin OutsideLoop
      BY DEF OutsideLoop
    <2>5. ~closing => ~closing'
      BY <1>0, SessionGoneEffect, Zenon
    <2>6. PendingFinished'
      BY <2>1, <2>4 DEF PendingFinished
    <2> QED BY <2>1, <2>2, <2>3, <2>5, <2>6 DEF Sessions
  <1>4. OneSender'
    BY DEF OneSender, SenderRuns, CancelAnswered, senderVars
  <1>5. Hangup'
    <2>1. /\ sip = "loop" /\ outgoing' \in {"none", "leaving"}
          /\ UNCHANGED <<user, took, sip, handle, accepted, signalled, corrupt>>
      BY DEF CancelAnswered, userVars
    <2>2. ~closing => closing' = closing /\ polling' = polling
      BY <1>0, SessionGoneEffect, Zenon
    <2> QED BY <2>1, <2>2 DEF Hangup, HangupState
  <1>6. Progress'
    BY DEF Progress, CancelAnswered, userVars
  <1> QED BY <1>1, <1>2, <1>3, <1>4, <1>5, <1>6

LEMMA ByeAnsweredInv == IInv /\ ByeAnswered => IInv'
  <1> SUFFICES ASSUME IInv, ByeAnswered PROVE IInv'
    OBVIOUS
  <1> USE CallAssumption, StageOrder DEF IInv
  <1>0. SessionGone
    BY DEF ByeAnswered
  <1>1. TypeOK'
    BY <1>0, SessionGoneEffect DEF TypeOK, OutsideLoop, ByeAnswered, userVars, senderVars
  <1>2. Built'
    BY DEF Built, HasStream, HasHandle, Handles, ByeAnswered
  <1>3. Sessions'
    <2>1. /\ sip = "loop" /\ sip' = "loop"
          /\ UNCHANGED <<user, reSipSess, accepted, late, signalled>>
          /\ reSipSess = "outgoing" => UNCHANGED outgoing
          /\ reSipSess = "incoming" => UNCHANGED incoming
          /\ outgoing' # "none" => outgoing # "none"
          /\ incoming' # "none" => incoming # "none"
      BY DEF ByeAnswered, Sessions, userVars
    <2>2. SessionAlive /\ (SessionAlive' => polling' = polling) /\ (closing' => SessionAlive')
      <3>1. SessionAlive
        BY DEF ByeAnswered, SessionAlive
      <3> QED BY <1>0, <3>1, SessionGoneEffect, Zenon
    <2>3. /\ outgoing' # "none" => polling'
          /\ incoming' # "none" => polling' \/ late'
      BY <2>1, <2>2 DEF Sessions, SessionAlive
    <2>4. "loop" \notin OutsideLoop
      BY DEF OutsideLoop
    <2>5. ~closing => ~closing'
      BY <1>0, SessionGoneEffect, Zenon
    <2>6. PendingFinished'
      BY <2>1, <2>4 DEF PendingFinished
    <2> QED BY <2>1, <2>2, <2>3, <2>5, <2>6 DEF Sessions
  <1>4. OneSender'
    BY DEF OneSender, SenderRuns, ByeAnswered, senderVars
  <1>5. Hangup'
    <2>1. /\ sip = "loop" /\ (outgoing' = "none" \/ UNCHANGED outgoing)
          /\ UNCHANGED <<user, took, sip, handle, accepted, signalled, corrupt>>
      BY DEF ByeAnswered, userVars
    <2>2. ~closing => closing' = closing /\ polling' = polling
      BY <1>0, SessionGoneEffect, Zenon
    <2> QED BY <2>1, <2>2 DEF Hangup, HangupState
  <1>6. Progress'
    BY DEF Progress, ByeAnswered, userVars
  <1> QED BY <1>1, <1>2, <1>3, <1>4, <1>5, <1>6

\* OnClose on the SIP thread, whichever session ended.
LEMMA OnCloseInv ==
  ASSUME IInv, ~corrupt, sip = "loop", SipClose,
         UNCHANGED <<userVars, sip, callState, callNo, handle, stream, accepted, late,
                     rxKey, senderVars, signalled>>,
         reSipSess' = "null", exiting' = TRUE,
         \/ outgoing \in {"inviting", "established"}
         \/ incoming \in {"accepted", "established"},
         outgoing' \in {"none", "established", "cancelling", "leaving", "leaked", outgoing},
         incoming' \in {"none", "leaving", "leaked", incoming},
         outgoing = "inviting" \/ outgoing' # "inviting",
         outgoing = "none" => outgoing' = "none",
         incoming = "none" => incoming' = "none",
         accepted = 0 => outgoing' \notin {"inviting", "established"}
  PROVE  IInv'
  <1> USE CallAssumption, StageOrder DEF IInv
  <1>1. TypeOK'
    <2>1. /\ outgoing' \in {"none", "inviting", "established", "cancelling", "leaving", "leaked"}
          /\ incoming' \in {"none", "accepted", "established", "leaving", "leaked"}
      BY DEF TypeOK
    <2>2. closing' \in BOOLEAN /\ polling' \in BOOLEAN /\ corrupt' \in BOOLEAN
      BY SipCloseEffect
    <2> QED BY <2>1, <2>2 DEF TypeOK, OutsideLoop, userVars, senderVars
  <1>2. Built'
    BY DEF Built, HasStream, HasHandle, Handles
  <1>3. handle["reSip"] = "live"
    BY DEF Built, HasStream, HasHandle, Handles
  <1>4. /\ closing' <=> SessionAlive'
        /\ polling' <=> polling /\ SessionAlive'
        /\ corrupt' = corrupt
    BY <1>3, SipCloseEffect
  <1>5. Sessions'
    <2>1. "loop" \notin OutsideLoop
      BY DEF OutsideLoop
    <2>2. SessionAlive' /\ polling => polling'
      BY <1>4, Zenon
    <2>3. /\ outgoing' # "none" => polling'
          /\ incoming' # "none" => polling' \/ late'
      BY <2>2 DEF Sessions, SessionAlive
    <2>4. PendingFinished'
      BY <2>1 DEF PendingFinished
    <2> QED BY <1>4, <2>1, <2>3, <2>4 DEF Sessions, userVars
  <1>6. OneSender'
    BY DEF OneSender, SenderRuns, senderVars
  <1>7. Hangup'
    <2>1. accepted = 0 => incoming = "none"
      BY DEF Sessions
    <2>2. took /\ accepted = 0 /\ ~signalled => user \notin {"exit", "close"}
      BY <2>1 DEF Hangup, HangupState
    <2> QED BY <1>4, <2>2 DEF Hangup, HangupState, userVars
  <1>8. Progress'
    BY DEF Progress, userVars
  <1> QED BY <1>1, <1>2, <1>5, <1>6, <1>7, <1>8

LEMMA BadAnswerInv == IInv /\ BadAnswer => IInv'
  <1> SUFFICES ASSUME IInv, BadAnswer PROVE IInv'
    OBVIOUS
  <1>1. /\ outgoing' \in {"leaving", "leaked"}
        /\ incoming' \in {"leaving", "none", incoming} /\ (incoming = "none" => incoming' = "none")
    BY DEF BadAnswer, CloseOutgoing, Released, IInv, Sessions
  <1> QED BY <1>1, OnCloseInv DEF BadAnswer, CloseOutgoing

LEMMA OutgoingClosedInv == IInv /\ OutgoingClosed => IInv'
  <1> SUFFICES ASSUME IInv, OutgoingClosed PROVE IInv'
    OBVIOUS
  <1>1. /\ outgoing' \in {"none", "leaked"}
        /\ incoming' \in {"leaving", "none", incoming} /\ (incoming = "none" => incoming' = "none")
    BY DEF OutgoingClosed, CloseOutgoing, Released, IInv, Sessions
  <1> QED BY <1>1, OnCloseInv DEF OutgoingClosed, CloseOutgoing

LEMMA IncomingClosedInv == IInv /\ IncomingClosed => IInv'
  <1> SUFFICES ASSUME IInv, IncomingClosed PROVE IInv'
    OBVIOUS
  <1>1. PICK s \in {"none", "leaving"} : CloseIncoming(s) /\ incoming \in {"accepted", "established"}
    BY DEF IncomingClosed
  <1>2. /\ incoming' \in {"none", "leaving", "leaked"}
        /\ outgoing' \in {"cancelling", "leaving", "none", outgoing}
        /\ outgoing = "none" => outgoing' = "none"
        /\ outgoing = "inviting" \/ outgoing' # "inviting"
    BY <1>1 DEF CloseIncoming, Released
  <1>3. accepted # 0
    BY <1>1 DEF IInv, Sessions
  <1> QED BY <1>1, <1>2, <1>3, OnCloseInv DEF IncomingClosed, CloseIncoming

-----------------------------------------------------------------------------
LEMMA StutterInv == IInv /\ UNCHANGED vars => IInv'
  BY DEF IInv, TypeOK, Built, Sessions, PendingFinished, OnlyLateLeft, SessionAlive, OneSender, SenderRuns,
         Hangup, HangupState, Progress, vars, userVars, stackVars, sessVars, senderVars

LEMMA StepInv == IInv /\ [Next]_vars => IInv'
  <1> SUFFICES ASSUME IInv, [Next]_vars PROVE IInv'
    OBVIOUS
  <1>1. CASE Start \/ UserStops \/ BlockOnCall \/ BlockReturns
    BY <1>1, StartInv, StopLoadInv, StopSessionInv, StopExitingInv, StopCloseInv, StopJoinInv,
       BlockOnCallInv, BlockReturnsInv, Zenon DEF UserStops
  <1>2. CASE SipSetsUp
    BY <1>2, SipThreadBeginInv, SetupStageInv, SetupFailsInv, ReMainInv, Zenon DEF SipSetsUp
  <1>3. CASE RemoteActs
    BY <1>3, AnsweredInv, BadAnswerInv, OutgoingClosedInv, OnConnectInv, OnOfferInv,
       IncomingEstablishedInv, IncomingClosedInv, OnRtpInv, Zenon DEF RemoteActs
  <1>4. CASE CancelAnswered \/ ByeAnswered \/ OnRtpWritten \/ LoopEnds \/ OnSignal
    BY <1>4, CancelAnsweredInv, ByeAnsweredInv, OnRtpWrittenInv, LoopEndsInv, OnSignalInv, Zenon
  <1>5. CASE SipTearsDown
    BY <1>5, JoinSenderInv, StopStreamInv, SipThreadEndsInv, Zenon DEF SipTearsDown
  <1>6. CASE \E i \in Senders : SenderActs(i)
    BY <1>6, SenderChecksInv, SenderSendsInv, Zenon DEF SenderActs
  <1>7. CASE UNCHANGED vars
    BY <1>7, StutterInv
  <1> QED BY <1>1, <1>2, <1>3, <1>4, <1>5, <1>6, <1>7, Zenon DEF Next

\* The inductive invariant holds in every reachable state of a call.
THEOREM Invariance == Spec => []IInv
  BY InitInv, StepInv, PTL DEF Spec

\* Every variable of a call keeps its type, for any number of calls, incoming
\* calls and sender threads.
THEOREM TypeCorrect == Spec => []TypeOK
  <1>1. IInv => TypeOK
    BY DEF IInv
  <1> QED BY <1>1, Invariance, PTL

\* Unless a signal ended it, the main loop of the SIP thread does not end
\* before the sessions have, but for a call accepted after it was cancelled.
THEOREM LoopOutlastsSessions == Spec => []PendingFinished
  <1>1. IInv => PendingFinished
    BY DEF IInv, Sessions
  <1> QED BY <1>1, Invariance, PTL

\* A Stop that ended a session uses no released object of the SIP stack.
THEOREM SafeHangup == Spec => []HangupInCallSafe
  <1>1. IInv => HangupInCallSafe
    BY DEF IInv, Hangup, HangupState, HangupInCallSafe
  <1> QED BY <1>1, Invariance, PTL

\* The RTP sender has its stream and its socket as long as it runs.
THEOREM SenderSafe == Spec => []SenderHasItsResources
  <1>1. IInv => SenderHasItsResources
    BY DEF IInv, OneSender, Built, HasStream, HasHandle, Handles, SenderHasItsResources
  <1> QED BY <1>1, Invariance, PTL

\* One sender thread at a time reads the input ring buffer.
THEOREM SingleReader == Spec => []OneReader
  <1>1. IInv => OneReader
    BY DEF IInv, OneSender, OneReader
  <1> QED BY <1>1, Invariance, PTL

\* BlockOnCall returns only after the main loop has ended and the sender was
\* told to exit; unless a signal ended the loop no session is left then, but
\* for one accepted after the loop was cancelled.
THEOREM BlocksToTheEnd == Spec => BlockOnCallOutlastsCall
  <1>1. IInv /\ [Next]_vars =>
           [user = "blocked" /\ user' = "idle" =>
               /\ sip \in OutsideLoop \ (InStages \cup {"started"})
               /\ exiting
               /\ ~signalled => OnlyLateLeft]_vars
    <2> SUFFICES ASSUME IInv, [Next]_vars, user = "blocked", user' = "idle"
                 PROVE  /\ sip \in OutsideLoop \ (InStages \cup {"started"})
                        /\ exiting
                        /\ ~signalled => OnlyLateLeft
      OBVIOUS
    <2>1. BlockReturns
      BY DEF Next, UserStops, SipSetsUp, RemoteActs, SipTearsDown, SenderActs, Start, StopLoad,
             StopSession, StopExiting, StopClose, StopJoin, BlockOnCall, SipThreadBegin,
             SetupStage, SetupFails, ReMain, Answered, BadAnswer, OutgoingClosed, OnConnect,
             OnOffer, IncomingEstablished, IncomingClosed, OnRtp, CancelAnswered, ByeAnswered,
             OnRtpWritten, LoopEnds, OnSignal, JoinSender, StopStream, SipThreadEnds, SenderChecks,
             SenderSends, vars, userVars
    <2>2. exiting /\ sip \in {"join", "stop", "cleanup", "done"}
      BY <2>1 DEF IInv, TypeOK, Progress, BlockReturns
    <2>3. sip \in OutsideLoop \ (InStages \cup {"started"})
      BY <2>2, StageOrder DEF OutsideLoop
    <2> QED BY <2>2, <2>3 DEF IInv, Sessions, PendingFinished
  <1> QED BY <1>1, Invariance, PTL DEF Spec, BlockOnCallOutlastsCall
=============================================================================
