-------------------------- MODULE PlaygroundProofs ---------------------------
(***************************************************************************)
(* Proofs about two programs of the playground: the SIP user agent, for    *)
(* any number of incoming calls, and the SRTP demonstrations, for any      *)
(* audio devices of the host and any number of packets.                    *)
(***************************************************************************)
EXTENDS Playground, TLAPS

-----------------------------------------------------------------------------
(* The SIP agent: the inductive invariant.                                 *)

Registration == [at : {"none", "asking", "idle", "finishing"},
                 registered : BOOLEAN, expires : BOOLEAN, refused : BOOLEAN]

\* Until main has sent its request there is neither session nor registration.
NothingYet ==
    pc \in DOMAIN StageAfter =>
        /\ re_sess = None /\ \A s \in Sessions : sess[s] = "none"
        /\ reg = NoReg /\ ~re_reg /\ ~bound /\ ~heard /\ ~polling

\* When the loop was cancelled, only calls accepted since are left.
CancelledWhenDone ==
    pc \notin DOMAIN StageAfter /\ ~polling =>
        reg.at = "none" /\ \A s \in Sessions \ afterExit : sess[s] = "none"

\* The loop is left only when it was cancelled, or was never entered.
LeftCancelled == pc = "done" => ~polling

\* The program's pointer is at a session it has not released.
SessionHeld ==
    re_sess # None => sess[re_sess] \in {"inviting", "accepted", "established"}

\* The program's registration has not been released, and once the agent has
\* heard of its binding libre's registration is registered until the request
\* that takes it back.
BindingKnown ==
    /\ re_reg => reg.at \in {"asking", "idle"}
    /\ heard => /\ reg.at = "none" /\ bound => reg.refused
                /\ reg.at \in {"asking", "idle"} => reg.registered
                /\ reg.at = "finishing" /\ reg.expires => reg.registered

IInv ==
    /\ TypeOK
    /\ NothingYet
    /\ CancelledWhenDone
    /\ LeftCancelled
    /\ SessionHeld
    /\ BindingKnown

\* The values of constant expressions.
LEMMA Constants ==
  /\ 0 \in Sessions /\ None \notin Sessions /\ Incoming \subseteq Sessions /\ 0 \notin Incoming
  /\ DOMAIN StageAfter = {"resolver", "stack", "tls", "sockets", "sdp", "request"}
  /\ NoReg \in Registration /\ NoReg.at = "none"
  /\ RefusedReg \in Registration /\ RefusedReg.at = "none" /\ RefusedReg.refused = TRUE
  <1>1. 0 \in Sessions /\ None \notin Sessions /\ Incoming \subseteq Sessions /\ 0 \notin Incoming
    BY AgentAssumption DEF Sessions, None, Incoming
  <1>2. DOMAIN StageAfter = {"resolver", "stack", "tls", "sockets", "sdp", "request"}
    BY DEF StageAfter
  <1>3. /\ NoReg \in Registration /\ NoReg.at = "none"
        /\ RefusedReg \in Registration /\ RefusedReg.at = "none" /\ RefusedReg.refused = TRUE
    BY DEF NoReg, RefusedReg, Registration
  <1> QED BY <1>1, <1>2, <1>3

LEMMA InitIInv == Init => IInv
  <1> SUFFICES ASSUME Init PROVE IInv
    OBVIOUS
  <1> USE Constants DEF Init
  <1>1. TypeOK
    BY DEF TypeOK, SessionStates, Registration
  <1>2. NothingYet /\ CancelledWhenDone /\ LeftCancelled /\ SessionHeld /\ BindingKnown
    BY DEF NothingYet, CancelledWhenDone, LeftCancelled, SessionHeld, BindingKnown
  <1> QED BY <1>1, <1>2 DEF IInv

-----------------------------------------------------------------------------
(* The SIP stack.                                                          *)

\* sip_close cancels the loop only when nothing is left.
LEMMA SipCloseCancels ==
  ASSUME polling \in BOOLEAN, SipClose
  PROVE  /\ closing' \in BOOLEAN /\ polling' \in BOOLEAN
         /\ (~polling' => ~polling \/ ~Holds')
         /\ ~polling => ~polling'
  <1>1. Holds' \in BOOLEAN
    BY Zenon DEF Holds
  <1> QED BY <1>1, Zenon DEF SipClose

\* Nor does its exit handler run earlier.
LEMMA LetGoCancels ==
  ASSUME polling \in BOOLEAN, closing \in BOOLEAN, LetGo
  PROVE  /\ closing' \in BOOLEAN /\ polling' \in BOOLEAN
         /\ (~polling' => ~polling \/ ~Holds')
         /\ ~polling => ~polling'
  BY Zenon DEF LetGo

\* The loop goes on, or was cancelled with nothing left or before.
LEMMA CancelStep ==
  ASSUME IInv, pc = "loop", pc' = "loop",
         ~polling' => ~polling \/ ~Holds',
         ~polling => /\ reg'.at = "none"
                     /\ \A s \in Sessions \ afterExit' : sess'[s] = "none"
  PROVE  NothingYet' /\ CancelledWhenDone' /\ LeftCancelled'
  <1>1. CancelledWhenDone'
    BY DEF CancelledWhenDone, Holds
  <1> QED BY <1>1, Constants DEF NothingYet, LeftCancelled

-----------------------------------------------------------------------------
(* Set-up.                                                                 *)

LEMMA SetupStageStep == ASSUME IInv, SetupStage PROVE IInv'
  <1> USE Constants DEF SetupStage
  <1>1. CASE pc = "request"
    <2>1. pc' = "loop" /\ polling' = TRUE
      BY <1>1 DEF StageAfter
    <2>2. /\ sess \in [Sessions -> SessionStates]
          /\ \E v \in {"inviting", "none"} : sess' = [sess EXCEPT ![0] = v]
          /\ sess' \in [Sessions -> SessionStates]
      BY <1>1 DEF IInv, TypeOK, SessionStates
    <2>3. /\ re_sess' \in {0, None}
          /\ re_sess' # None => sess'[0] = "inviting"
      BY <1>1, <2>2
    <2>4. reg' \in Registration /\ re_reg' \in BOOLEAN /\ (re_reg' => reg'.at = "asking")
      <3>1. [NoReg EXCEPT !.at = "asking"] \in Registration
        BY DEF NoReg, Registration
      <3>2. [NoReg EXCEPT !.at = "asking"].at = "asking"
        BY DEF NoReg
      <3>3. CASE invites
        BY <1>1, <3>3
      <3>4. CASE ~invites
        BY <1>1, <3>1, <3>2, <3>4
      <3> QED BY <3>3, <3>4
    <2>5. TypeOK'
      BY <2>1, <2>2, <2>3, <2>4 DEF IInv, TypeOK, Registration
    <2>6. NothingYet' /\ CancelledWhenDone' /\ LeftCancelled' /\ SessionHeld'
      BY <2>1, <2>3 DEF NothingYet, CancelledWhenDone, LeftCancelled, SessionHeld
    <2>7. BindingKnown'
      BY <1>1, <2>4 DEF IInv, NothingYet, BindingKnown
    <2> QED BY <2>5, <2>6, <2>7 DEF IInv
  <1>2. CASE pc # "request"
    <2>1. pc' \in DOMAIN StageAfter
      BY <1>2 DEF StageAfter
    <2>2. UNCHANGED <<invites, closing, bound, heard, late, afterExit, corrupt, polling, sess, re_sess,
                       reg, re_reg>>
      BY <1>2
    <2>3. TypeOK'
      BY <2>1, <2>2 DEF IInv, TypeOK
    <2>4. NothingYet' /\ CancelledWhenDone' /\ LeftCancelled' /\ SessionHeld' /\ BindingKnown'
      BY <2>1, <2>2 DEF IInv, NothingYet, CancelledWhenDone, LeftCancelled, SessionHeld,
                        BindingKnown
    <2> QED BY <2>3, <2>4 DEF IInv
  <1> QED BY <1>1, <1>2

LEMMA SetupFailsStep == ASSUME IInv, SetupFails PROVE IInv'
  <1> USE Constants DEF SetupFails, stackVars, sessVars, regVars
  <1>1. corrupt' \in BOOLEAN
    BY Zenon
  <1>2. TypeOK'
    BY <1>1 DEF IInv, TypeOK
  <1>3. NothingYet' /\ CancelledWhenDone' /\ LeftCancelled' /\ SessionHeld' /\ BindingKnown'
    BY DEF IInv, NothingYet, CancelledWhenDone, LeftCancelled, SessionHeld, BindingKnown
  <1> QED BY <1>2, <1>3 DEF IInv

LEMMA LoopEndsStep == ASSUME IInv, LoopEnds PROVE IInv'
  <1> USE Constants DEF LoopEnds, stackVars, sessVars, regVars
  <1>1. TypeOK'
    BY DEF IInv, TypeOK
  <1>2. NothingYet' /\ CancelledWhenDone' /\ LeftCancelled' /\ SessionHeld' /\ BindingKnown'
    BY DEF IInv, NothingYet, CancelledWhenDone, LeftCancelled, SessionHeld, BindingKnown
  <1> QED BY <1>1, <1>2 DEF IInv

-----------------------------------------------------------------------------
(* terminate.                                                              *)

\* What mem_deref(re_reg) may leave.
LEMMA ReleasedRegFacts ==
  ASSUME IInv, NEW r \in ReleasedReg
  PROVE  /\ r \in Registration
         /\ reg.at = "none" => r.at = "none"
         /\ heard => /\ r.at = "none" /\ bound => r.refused
                     /\ r.at \notin {"asking", "idle"} \/ ~re_reg
                     /\ r.at \in {"asking", "idle"} => r.registered
                     /\ r.at = "finishing" /\ r.expires => r.registered
  <1>1. reg \in Registration
    BY DEF IInv, TypeOK, Registration
  <1>2. CASE ~re_reg
    <2>1. r = reg
      BY <1>2 DEF ReleasedReg
    <2> QED BY <1>1, <1>2, <2>1 DEF IInv, BindingKnown
  <1>3. CASE re_reg /\ reg.at = "asking"
    <2>1. r = [reg EXCEPT !.at = "finishing"]
      BY <1>3 DEF ReleasedReg
    <2>2. /\ r \in Registration /\ r.at = "finishing" /\ r.registered = reg.registered
      BY <1>1, <2>1 DEF Registration
    <2> QED BY <1>3, <2>2 DEF IInv, BindingKnown
  <1>4. CASE re_reg /\ reg.at = "idle" /\ reg.registered
    <2>1. r \in {[reg EXCEPT !.at = "finishing", !.expires = FALSE], RefusedReg}
      BY <1>4 DEF ReleasedReg
    <2>2. \/ r \in Registration /\ r.at = "finishing" /\ r.expires = FALSE
          \/ r = RefusedReg
      BY <1>1, <2>1 DEF Registration
    <2> QED BY <1>4, <2>2, Constants
  <1>5. CASE re_reg /\ reg.at = "idle" /\ ~reg.registered
    <2>1. r = NoReg
      BY <1>5 DEF ReleasedReg
    <2> QED BY <1>5, <2>1, Constants DEF IInv, BindingKnown
  <1> QED BY <1>2, <1>3, <1>4, <1>5 DEF IInv, BindingKnown

\* terminate, on a signal or for a session that is closed.
LEMMA TerminateStep ==
  ASSUME IInv, pc = "loop", NEW st \in SessionStates, Terminate(st),
         UNCHANGED <<invites, pc, tls, bound, heard, late, afterExit>>
  PROVE  IInv'
  <1> USE DEF Terminate
  <1>1. /\ closing' \in BOOLEAN /\ polling' \in BOOLEAN
        /\ (~polling' => ~polling \/ ~Holds')
    BY SipCloseCancels DEF IInv, TypeOK
  <1>2. sess \in [Sessions -> SessionStates] /\ sess' \in [Sessions -> SessionStates]
    BY DEF IInv, TypeOK
  <1>3. corrupt' \in BOOLEAN
    BY Zenon
  <1>4. /\ reg' \in Registration
        /\ reg.at = "none" => reg'.at = "none"
        /\ heard => /\ reg'.at = "none" /\ bound => reg'.refused
                    /\ reg'.at \in {"asking", "idle"} => reg'.registered
                    /\ reg'.at = "finishing" /\ reg'.expires => reg'.registered
    BY ReleasedRegFacts
  <1>5. TypeOK'
    BY <1>1, <1>2, <1>3, <1>4, Constants DEF IInv, TypeOK, Registration
  <1>6. ~polling => \A s \in Sessions \ afterExit' : sess'[s] = "none"
    <2>1. ~polling => \A s \in Sessions \ afterExit : sess[s] = "none"
      BY Constants DEF IInv, CancelledWhenDone
    <2>2. ~polling /\ re_sess # None => re_sess \in afterExit
      BY <2>1 DEF IInv, SessionHeld, TypeOK
    <2>3. \A s \in Sessions : s # re_sess => sess'[s] = sess[s]
      BY <1>2
    <2> QED BY <2>1, <2>2, <2>3, Constants
  <1>7. ~polling => reg'.at = "none"
    BY <1>4, Constants DEF IInv, CancelledWhenDone
  <1>8. NothingYet' /\ CancelledWhenDone' /\ LeftCancelled'
    BY <1>1, <1>6, <1>7, CancelStep
  <1>9. SessionHeld' /\ BindingKnown'
    BY <1>4 DEF SessionHeld, BindingKnown
  <1> QED BY <1>5, <1>8, <1>9 DEF IInv

LEMMA SignalStep == ASSUME IInv, Signal PROVE IInv'
  <1>1. PICK st \in IF re_sess = None THEN {"none"} ELSE Released(sess[re_sess]) : Terminate(st)
    BY DEF Signal
  <1>2. st \in SessionStates
    BY <1>1 DEF IInv, TypeOK, SessionHeld, Released, SessionStates
  <1> QED BY <1>1, <1>2, TerminateStep DEF Signal

LEMMA ClosedStep == ASSUME IInv, Closed PROVE IInv'
  BY TerminateStep DEF Closed, SessionStates

-----------------------------------------------------------------------------
(* The other handlers.                                                     *)

\* A session changes its state; none begins.
LEMMA SessionStep ==
  ASSUME IInv, pc = "loop", NEW s \in Sessions, sess[s] # "none", NEW st \in SessionStates,
         sess' = [sess EXCEPT ![s] = st],
         s = re_sess => st \in {"inviting", "accepted", "established"},
         polling' \in BOOLEAN, closing' \in BOOLEAN, ~polling' => ~polling \/ ~Holds',
         UNCHANGED <<invites, pc, tls, re_sess, late, afterExit, regVars, corrupt>>
  PROVE  IInv'
  <1> USE DEF regVars
  <1>1. /\ sess \in [Sessions -> SessionStates] /\ sess' \in [Sessions -> SessionStates]
        /\ sess'[s] = st /\ \A t \in Sessions : t # s => sess'[t] = sess[t]
    BY DEF IInv, TypeOK
  <1>2. TypeOK'
    BY <1>1 DEF IInv, TypeOK
  <1>3. ~polling => /\ reg'.at = "none"
                    /\ \A t \in Sessions \ afterExit' : sess'[t] = "none"
    BY <1>1, Constants DEF IInv, CancelledWhenDone
  <1>4. NothingYet' /\ CancelledWhenDone' /\ LeftCancelled'
    BY <1>3, CancelStep
  <1>5. SessionHeld' /\ BindingKnown'
    BY <1>1, Constants DEF IInv, TypeOK, SessionHeld, BindingKnown
  <1> QED BY <1>2, <1>4, <1>5 DEF IInv

LEMMA AnsweredStep == ASSUME IInv, Answered PROVE IInv'
  <1>1. /\ polling' \in BOOLEAN /\ closing' \in BOOLEAN /\ (~polling' => ~polling \/ ~Holds')
        /\ "established" \in SessionStates
    BY DEF IInv, TypeOK, Answered, stackVars, SessionStates
  <1>2. /\ pc = "loop" /\ 0 \in Sessions /\ sess[0] # "none"
        /\ sess' = [sess EXCEPT ![0] = "established"]
        /\ UNCHANGED <<invites, pc, tls, re_sess, late, afterExit, regVars, corrupt>>
    BY Constants DEF Answered
  <1> QED BY <1>1, <1>2, SessionStep

LEMMA EstablishedStep == ASSUME IInv, NEW n \in Incoming, IncomingEstablished(n) PROVE IInv'
  <1>1. /\ polling' \in BOOLEAN /\ closing' \in BOOLEAN /\ (~polling' => ~polling \/ ~Holds')
        /\ "established" \in SessionStates
    BY DEF IInv, TypeOK, IncomingEstablished, stackVars, SessionStates
  <1>2. /\ pc = "loop" /\ n \in Sessions /\ sess[n] # "none"
        /\ sess' = [sess EXCEPT ![n] = "established"]
        /\ UNCHANGED <<invites, pc, tls, re_sess, late, afterExit, regVars, corrupt>>
    BY Constants DEF IncomingEstablished
  <1> QED BY <1>1, <1>2, SessionStep

LEMMA FinishedStep == ASSUME IInv, NEW s \in Sessions, Finished(s) PROVE IInv'
  <1>1. /\ polling' \in BOOLEAN /\ closing' \in BOOLEAN /\ (~polling' => ~polling \/ ~Holds')
    BY LetGoCancels DEF IInv, TypeOK, Finished
  <1>2. "none" \in SessionStates /\ "leaving" \in SessionStates
    BY DEF SessionStates
  <1>3. s # re_sess
    BY Constants DEF Finished, IInv, SessionHeld
  <1>4. /\ pc = "loop" /\ sess[s] # "none"
        /\ UNCHANGED <<invites, pc, tls, re_sess, late, afterExit, regVars, corrupt>>
    BY DEF Finished
  <1>5. PICK st \in SessionStates : sess' = [sess EXCEPT ![s] = st]
    BY <1>2 DEF Finished
  <1> QED BY <1>1, <1>3, <1>4, <1>5, SessionStep

LEMMA OnConnectStep == ASSUME IInv, NEW n \in Incoming, OnConnect(n) PROVE IInv'
  <1> USE DEF OnConnect, regVars, stackVars
  <1>1. /\ n \in Sessions /\ sess \in [Sessions -> SessionStates]
        /\ sess' \in [Sessions -> SessionStates]
        /\ sess'[n] = "accepted" /\ \A t \in Sessions : t # n => sess'[t] = sess[t]
    BY Constants DEF IInv, TypeOK, SessionStates
  <1>2. TypeOK'
    BY <1>1 DEF IInv, TypeOK
  <1>3. ~polling => /\ reg'.at = "none"
                    /\ \A t \in Sessions \ afterExit' : sess'[t] = "none"
    BY <1>1, Constants DEF IInv, CancelledWhenDone
  <1>4. NothingYet' /\ CancelledWhenDone' /\ LeftCancelled'
    BY <1>3, CancelStep
  <1>5. SessionHeld' /\ BindingKnown'
    BY <1>1, Constants DEF IInv, SessionHeld, BindingKnown
  <1> QED BY <1>2, <1>4, <1>5 DEF IInv

\* The registration changes, and what is known of the binding with it.
LEMMA RegStep ==
  ASSUME IInv, pc = "loop", reg.at # "none",
         reg' \in Registration, bound' \in BOOLEAN, heard' \in BOOLEAN, BindingKnown',
         polling' \in BOOLEAN, closing' \in BOOLEAN, ~polling' => ~polling \/ ~Holds',
         UNCHANGED <<invites, pc, tls, sessVars, re_reg, corrupt>>
  PROVE  IInv'
  <1> USE DEF sessVars
  <1>1. TypeOK'
    BY DEF IInv, TypeOK, Registration
  <1>2. polling
    BY Constants DEF IInv, CancelledWhenDone
  <1>3. NothingYet' /\ CancelledWhenDone' /\ LeftCancelled'
    BY <1>2, CancelStep
  <1>4. SessionHeld'
    BY DEF IInv, SessionHeld
  <1> QED BY <1>1, <1>3, <1>4 DEF IInv

LEMMA RegisterAnswerStep == ASSUME IInv, RegisterAnswer PROVE IInv'
  <1> USE DEF RegisterAnswer
  <1>1. PICK o \in Outcomes :
           /\ reg' = [reg EXCEPT !.at = "idle", !.registered = @ \/ o = "ok"]
           /\ bound' = (bound \/ Done(o))
           /\ heard' = (heard \/ o = "ok")
    OBVIOUS
  <1>2. reg \in Registration /\ reg.at = "asking" /\ pc = "loop"
    BY DEF IInv, TypeOK, Registration
  <1>3. (reg.registered \/ o = "ok") \in BOOLEAN
    BY Zenon
  <1>4. /\ reg' \in Registration /\ reg'.at = "idle"
        /\ reg'.registered = (reg.registered \/ o = "ok")
    BY <1>1, <1>2, <1>3 DEF Registration
  <1>5. bound' \in BOOLEAN /\ heard' \in BOOLEAN /\ (heard' => reg'.registered)
    BY <1>1, <1>2, <1>4, Zenon DEF IInv, BindingKnown
  <1>6. BindingKnown'
    BY <1>4, <1>5 DEF BindingKnown
  <1>7. polling' \in BOOLEAN /\ closing' \in BOOLEAN /\ (~polling' => ~polling \/ ~Holds')
    BY DEF stackVars, IInv, TypeOK
  <1> QED BY <1>2, <1>4, <1>5, <1>6, <1>7, RegStep

LEMMA RegisterTimerStep == ASSUME IInv, RegisterTimer PROVE IInv'
  <1> USE DEF RegisterTimer
  <1>1. reg \in Registration /\ reg.at = "idle" /\ pc = "loop"
    BY DEF IInv, TypeOK, Registration
  <1>2. reg' \in Registration /\ reg'.at = "asking" /\ reg'.registered = reg.registered
    BY <1>1 DEF Registration
  <1>3. BindingKnown'
    BY <1>1, <1>2 DEF IInv, BindingKnown
  <1>4. /\ polling' \in BOOLEAN /\ closing' \in BOOLEAN /\ (~polling' => ~polling \/ ~Holds')
        /\ bound' \in BOOLEAN /\ heard' \in BOOLEAN
    BY DEF stackVars, IInv, TypeOK
  <1> QED BY <1>1, <1>2, <1>3, <1>4, RegStep

LEMMA RegisterFinishedStep == ASSUME IInv, RegisterFinished PROVE IInv'
  <1> USE DEF RegisterFinished
  <1>1. reg \in Registration /\ reg.at = "finishing" /\ pc = "loop" /\ ~re_reg
    BY DEF IInv, TypeOK, Registration, BindingKnown
  <1>2. polling' \in BOOLEAN /\ closing' \in BOOLEAN /\ (~polling' => ~polling \/ ~Holds')
    BY LetGoCancels DEF IInv, TypeOK
  <1>3. PICK o \in Outcomes :
          \/ /\ reg.expires /\ (reg.registered \/ o = "ok")
             /\ reg' \in {[reg EXCEPT !.registered = TRUE, !.expires = FALSE], RefusedReg}
             /\ bound' = (bound \/ Done(o))
             /\ heard' = (heard \/ o = "ok")
          \/ /\ reg.expires /\ ~reg.registered /\ o # "ok"
             /\ reg' = NoReg
             /\ bound' = (bound \/ Done(o))
             /\ UNCHANGED heard
          \/ /\ ~reg.expires
             /\ reg' = [NoReg EXCEPT !.refused = ~Done(o)]
             /\ bound' = (bound /\ ~Done(o))
             /\ UNCHANGED heard
    OBVIOUS
  <1>4. bound' \in BOOLEAN /\ heard' \in BOOLEAN
    <2>1. heard \in BOOLEAN
      BY DEF IInv, TypeOK
    <2> QED BY <1>3, <2>1, Zenon
  <1>5. CASE reg' = [reg EXCEPT !.registered = TRUE, !.expires = FALSE]
    <2>1. reg' \in Registration /\ reg'.at = "finishing" /\ reg'.registered = TRUE
      BY <1>1, <1>5 DEF Registration
    <2>2. BindingKnown'
      BY <1>1, <2>1 DEF BindingKnown
    <2> QED BY <1>1, <1>2, <1>4, <2>1, <2>2, RegStep
  <1>6. CASE reg' = RefusedReg
    <2>1. BindingKnown'
      BY <1>1, <1>6, Constants DEF BindingKnown
    <2> QED BY <1>1, <1>2, <1>4, <1>6, <2>1, Constants, RegStep
  <1>7. CASE reg.expires /\ ~reg.registered /\ reg' = NoReg /\ UNCHANGED heard
    <2>1. ~heard'
      BY <1>1, <1>7 DEF IInv, BindingKnown
    <2>2. BindingKnown'
      BY <1>1, <2>1 DEF BindingKnown
    <2> QED BY <1>1, <1>2, <1>4, <1>7, <2>2, Constants, RegStep
  <1>8. CASE reg' = [NoReg EXCEPT !.refused = ~Done(o)] /\ bound' = (bound /\ ~Done(o))
    <2>0. (~Done(o)) \in BOOLEAN
      BY Zenon
    <2>1. reg' \in Registration /\ reg'.at = "none" /\ reg'.refused = ~Done(o)
      BY <1>8, <2>0 DEF NoReg, Registration
    <2>2. bound' => reg'.refused
      BY <1>8, <2>1, Zenon
    <2>3. BindingKnown'
      BY <1>1, <2>1, <2>2 DEF BindingKnown
    <2> QED BY <1>1, <1>2, <1>4, <2>1, <2>3, RegStep
  <1> QED BY <1>3, <1>5, <1>6, <1>7, <1>8

LEMMA StepIInv == IInv /\ [Next]_vars => IInv'
  <1> SUFFICES ASSUME IInv, [Next]_vars PROVE IInv'
    OBVIOUS
  <1>1. CASE SetupStage \/ SetupFails \/ LoopEnds
    BY <1>1, SetupStageStep, SetupFailsStep, LoopEndsStep
  <1>2. CASE SessionHandlers
    BY <1>2, SignalStep, AnsweredStep, ClosedStep, FinishedStep, OnConnectStep, EstablishedStep
       DEF SessionHandlers
  <1>3. CASE RegHandlers
    BY <1>3, RegisterAnswerStep, RegisterTimerStep, RegisterFinishedStep DEF RegHandlers
  <1>4. CASE UNCHANGED vars
    BY <1>4 DEF vars, stackVars, sessVars, regVars, IInv, TypeOK, NothingYet, CancelledWhenDone,
                LeftCancelled, SessionHeld, BindingKnown
  <1> QED BY <1>1, <1>2, <1>3, <1>4 DEF Next

LEMMA Invariance == ProgramSpec => []IInv
  <1>1. ProgramInit => IInv
    BY InitIInv DEF ProgramInit
  <1>2. IInv /\ [ProgramNext]_programVars => IInv'
    BY StepIInv DEF ProgramNext, SrtpRuns, programVars
  <1> QED BY <1>1, <1>2, PTL DEF ProgramSpec

-----------------------------------------------------------------------------
(* The SIP agent: the theorems.                                            *)

\* Type correctness.
THEOREM TypeCorrect == ProgramSpec => []TypeOK
  <1>1. IInv => TypeOK
    BY DEF IInv
  <1> QED BY <1>1, Invariance, PTL

\* The agent ends with no session and no registration left, but for a call
\* it accepted after the exit handler had run.
THEOREM NothingLeft == ProgramSpec => []PendingFinished
  <1>1. IInv => PendingFinished
    BY Constants DEF IInv, LeftCancelled, CancelledWhenDone, PendingFinished
  <1> QED BY <1>1, Invariance, PTL

\* The registrar keeps a binding that the agent has heard of only if it refused
\* to take it back or could not be asked to.
THEOREM BindingTakenBack == ProgramSpec => []UnregisteredAtExit
  <1>1. IInv => UnregisteredAtExit
    BY Constants DEF IInv, LeftCancelled, CancelledWhenDone, BindingKnown, UnregisteredAtExit
  <1> QED BY <1>1, Invariance, PTL

\* terminate may be called by a signal, by close_handler or by both: it never
\* releases a session twice.
THEOREM NoDoubleRelease == ProgramSpec => []~Dangling
  <1>1. IInv => ~Dangling
    BY DEF IInv, SessionHeld, Dangling
  <1> QED BY <1>1, Invariance, PTL
-----------------------------------------------------------------------------
(* The SRTP programs: the inductive invariant.                             *)

\* Where the threads can be.
Places == {"idle", "ended", "devices", "codec", "socket", "context", "stream", "loop", "close",
           "flag", "return"}

\* The types of what the invariant speaks of.
SrtpTyped ==
    /\ tpc \in [Srtp!Threads -> Places]
    /\ mpc \in {"init", "wait", "join_send", "join_recv", "shutdown", "end"}
    /\ exiting \in BOOLEAN

\* No thread runs before it is launched, and what was joined has ended.
Joined ==
    /\ mpc = "init" => \A t \in Srtp!Threads : tpc[t] = "idle"
    /\ mpc = "join_recv" => tpc["send"] = "ended"

\* The flag of a thread is set from its store on.
FlagsSet == \A t \in Srtp!Threads : t \in done <=> tpc[t] \in {"return", "ended"}

\* The main thread leaves its poll once, when both flags are set.
ExitAfterBoth ==
    /\ exiting => done = Srtp!Threads
    /\ mpc \in {"join_send", "join_recv", "shutdown"} => exiting

SrtpInv ==
    /\ SrtpTyped
    /\ Joined
    /\ FlagsSet
    /\ ExitAfterBoth
    /\ done \subseteq Srtp!Threads
    /\ Srtp!ShutsDownLast

LEMMA InitSrtpInv == Srtp!Init => SrtpInv
  <1> SUFFICES ASSUME Srtp!Init PROVE SrtpInv
    OBVIOUS
  <1>1. SrtpTyped
    BY DEF Srtp!Init, SrtpTyped, Places
  <1>2. Joined /\ FlagsSet /\ ExitAfterBoth /\ done \subseteq Srtp!Threads
    BY DEF Srtp!Init, Joined, FlagsSet, ExitAfterBoth
  <1>3. Srtp!ShutsDownLast
    BY DEF Srtp!Init, Srtp!ShutsDownLast
  <1> QED BY <1>1, <1>2, <1>3 DEF SrtpInv

-----------------------------------------------------------------------------
(* The SRTP programs: the main thread.                                     *)

LEMMA LaunchStep == ASSUME SrtpInv, Srtp!Launch PROVE SrtpInv'
  <1> USE DEF SrtpInv
  <1>1. SrtpTyped'
    BY DEF Srtp!Launch, Srtp!mainVars, SrtpTyped, Places
  <1>2. (Joined /\ FlagsSet)'
    BY DEF Srtp!Launch, Srtp!mainVars, SrtpTyped, Joined, FlagsSet
  <1>3. (ExitAfterBoth /\ done \subseteq Srtp!Threads)'
    BY DEF Srtp!Launch, Srtp!mainVars, ExitAfterBoth
  <1>4. Srtp!ShutsDownLast'
    BY DEF Srtp!Launch, Srtp!mainVars, SrtpTyped, Joined, Srtp!ShutsDownLast
  <1> QED BY <1>1, <1>2, <1>3, <1>4

LEMMA LeaveStep == ASSUME SrtpInv, Srtp!Leave PROVE SrtpInv'
  <1> USE DEF SrtpInv
  <1>1. SrtpTyped'
    BY DEF Srtp!Leave, Srtp!mainVars, SrtpTyped
  <1>2. done = Srtp!Threads
    BY DEF Srtp!Leave, Srtp!GetDone, ExitAfterBoth
  <1>3. (Joined /\ FlagsSet /\ ExitAfterBoth /\ done \subseteq Srtp!Threads /\ Srtp!ShutsDownLast)'
    BY <1>2 DEF Srtp!Leave, Srtp!mainVars, SrtpTyped, Joined, FlagsSet, ExitAfterBoth, Srtp!ShutsDownLast
  <1> QED BY <1>1, <1>3

LEMMA JoinStep == ASSUME SrtpInv, Srtp!Join \/ Srtp!Shutdown PROVE SrtpInv'
  <1> USE DEF SrtpInv
  <1>1. SrtpTyped'
    BY DEF Srtp!Join, Srtp!Shutdown, Srtp!mainVars, SrtpTyped
  <1>2. (Joined /\ FlagsSet /\ ExitAfterBoth /\ done \subseteq Srtp!Threads)'
    BY DEF Srtp!Join, Srtp!Shutdown, Srtp!mainVars, SrtpTyped, Joined, FlagsSet, ExitAfterBoth
  <1>3. Srtp!ShutsDownLast'
    BY DEF Srtp!Join, Srtp!Shutdown, Srtp!mainVars, SrtpTyped, Joined, Srtp!ShutsDownLast, Srtp!Threads
  <1> QED BY <1>1, <1>2, <1>3

-----------------------------------------------------------------------------
(* The SRTP programs: the two threads.                                     *)

\* A thread that goes from one place to another where its flag is as before
\* disturbs nothing.
LEMMA MoveStep ==
  ASSUME SrtpInv, NEW t \in Srtp!Threads, NEW s \in Places \ {"idle"},
         tpc[t] \notin {"idle", "ended"}, s = "ended" <=> tpc[t] = "return", s # "return",
         Srtp!GoTo(t, s), UNCHANGED <<mpc, exiting, done>>
  PROVE  SrtpInv'
  <1> USE DEF SrtpInv, Srtp!GoTo
  <1>1. SrtpTyped'
    BY DEF SrtpTyped
  <1>2. (Joined /\ FlagsSet /\ ExitAfterBoth /\ done \subseteq Srtp!Threads)'
    BY DEF SrtpTyped, Joined, FlagsSet, ExitAfterBoth
  <1>3. Srtp!ShutsDownLast'
    BY DEF SrtpTyped, Srtp!ShutsDownLast
  <1> QED BY <1>1, <1>2, <1>3

LEMMA SetUpStep == ASSUME SrtpInv, NEW t \in Srtp!Threads, Srtp!SetUp(t) PROVE SrtpInv'
  <1>1. tpc[t] \in {"devices", "codec", "socket", "context", "stream"}
    BY DEF Srtp!SetUp, Srtp!ChooseDevice, Srtp!SetUpCodec, Srtp!OpenSocket, Srtp!MakeContext, Srtp!OpenStream
  <1>2. PICK s \in {"flag", "codec", "socket", "close", "context", "stream", "loop"} : Srtp!GoTo(t, s)
    BY DEF Srtp!SetUp, Srtp!ChooseDevice, Srtp!SetUpCodec, Srtp!OpenSocket, Srtp!MakeContext, Srtp!OpenStream
  <1>3. UNCHANGED <<mpc, exiting, done>>
    BY DEF Srtp!SetUp, Srtp!ChooseDevice, Srtp!SetUpCodec, Srtp!OpenSocket, Srtp!MakeContext, Srtp!OpenStream, Srtp!threadVars
  <1>4. s \in Places \ {"idle"} /\ s \notin {"ended", "return"}
    BY DEF Places
  <1> QED BY <1>1, <1>2, <1>3, <1>4, MoveStep

LEMMA FlagStep == ASSUME SrtpInv, NEW t \in Srtp!Threads, Srtp!Flag(t) PROVE SrtpInv'
  <1> USE DEF SrtpInv
  <1>1. SrtpTyped'
    BY DEF Srtp!Flag, Srtp!GoTo, SrtpTyped, Places
  <1>2. (Joined /\ FlagsSet /\ ExitAfterBoth /\ done \subseteq Srtp!Threads)'
    BY DEF Srtp!Flag, Srtp!GoTo, SrtpTyped, Joined, FlagsSet, ExitAfterBoth
  <1>3. Srtp!ShutsDownLast'
    BY DEF Srtp!Flag, Srtp!GoTo, SrtpTyped, Srtp!ShutsDownLast
  <1> QED BY <1>1, <1>2, <1>3

LEMMA FinishStep == ASSUME SrtpInv, NEW t \in Srtp!Threads, Srtp!Finish(t) PROVE SrtpInv'
  <1>1. CASE Srtp!Close(t)
    BY <1>1, MoveStep DEF Srtp!Close, Srtp!threadVars, Places
  <1>2. CASE Srtp!Flag(t)
    BY <1>2, FlagStep
  <1>3. CASE Srtp!Return(t)
    BY <1>3, MoveStep DEF Srtp!Return, Srtp!threadVars, Places
  <1> QED BY <1>1, <1>2, <1>3 DEF Srtp!Finish

LEMMA SendStep == ASSUME SrtpInv, Srtp!SendRound PROVE SrtpInv'
  <1>1. CASE UNCHANGED tpc
    BY <1>1 DEF SrtpInv, Srtp!SendRound, SrtpTyped, Joined, FlagsSet, ExitAfterBoth, Srtp!ShutsDownLast
  <1>2. CASE Srtp!GoTo("send", "close")
    BY <1>2, MoveStep DEF Srtp!SendRound, Srtp!Threads, Places
  <1> QED BY <1>1, <1>2 DEF Srtp!SendRound

LEMMA RecvStep == ASSUME SrtpInv, Srtp!RecvRound PROVE SrtpInv'
  <1>1. tpc["recv"] = "loop" /\ UNCHANGED <<mpc, exiting, done>>
    BY DEF Srtp!RecvRound, Srtp!RecvDatagram, Srtp!RecvFails, Srtp!threadVars
  <1>2. CASE UNCHANGED tpc
    BY <1>1, <1>2 DEF SrtpInv, SrtpTyped, Joined, FlagsSet, ExitAfterBoth, Srtp!ShutsDownLast
  <1>3. CASE Srtp!GoTo("recv", "close")
    BY <1>1, <1>3, MoveStep DEF Srtp!Threads, Places
  <1> QED BY <1>2, <1>3 DEF Srtp!RecvRound, Srtp!RecvDatagram, Srtp!RecvFails

LEMMA ArriveStep == ASSUME SrtpInv, Srtp!Arrive PROVE SrtpInv'
  BY DEF SrtpInv, Srtp!Arrive, SrtpTyped, Joined, FlagsSet, ExitAfterBoth, Srtp!ShutsDownLast

LEMMA StepSrtpInv == SrtpInv /\ [Srtp!Next]_(Srtp!vars) => SrtpInv'
  <1> SUFFICES ASSUME SrtpInv, [Srtp!Next]_(Srtp!vars) PROVE SrtpInv'
    OBVIOUS
  <1>1. CASE Srtp!Main
    BY <1>1, LaunchStep, LeaveStep, JoinStep DEF Srtp!Main
  <1>2. CASE \E t \in Srtp!Threads : Srtp!SetUp(t) \/ Srtp!Finish(t)
    BY <1>2, SetUpStep, FinishStep
  <1>3. CASE Srtp!SendRound \/ Srtp!RecvRound \/ Srtp!Arrive
    BY <1>3, SendStep, RecvStep, ArriveStep
  <1>4. CASE UNCHANGED Srtp!vars
    BY <1>4 DEF Srtp!vars, SrtpInv, SrtpTyped, Joined, FlagsSet, ExitAfterBoth, Srtp!ShutsDownLast
  <1> QED BY <1>1, <1>2, <1>3, <1>4 DEF Srtp!Next

LEMMA SrtpInvariance == ProgramSpec => []SrtpInv
  <1>1. ProgramInit => SrtpInv
    BY InitSrtpInv DEF ProgramInit
  <1>2. SrtpInv /\ [ProgramNext]_programVars => SrtpInv'
    BY StepSrtpInv DEF ProgramNext, AgentRuns, programVars, srtpVars, Srtp!vars
  <1> QED BY <1>1, <1>2, PTL DEF ProgramSpec

-----------------------------------------------------------------------------
(* The SRTP programs: the theorems.                                        *)

\* srtp_shutdown runs after every thread has returned, although the flags the
\* main thread polls are set before that.
THEOREM ShutdownIsLast == ProgramSpec => []ShutsDownLast
  <1>1. SrtpInv => ShutsDownLast
    BY DEF SrtpInv, ShutsDownLast
  <1> QED BY <1>1, SrtpInvariance, PTL

\* The loops of the threads test the flag exiting in each round, and none of
\* them ever finds it set: the main thread sets it when both are over.
THEOREM LoopsNeverSeeExiting == ProgramSpec => [](\A t \in Srtp!Threads : tpc[t] = "loop" => ~exiting)
  <1>1. SrtpInv => \A t \in Srtp!Threads : tpc[t] = "loop" => ~exiting
    BY DEF SrtpInv, ExitAfterBoth, FlagsSet
  <1> QED BY <1>1, SrtpInvariance, PTL
=============================================================================
