------------------------------ MODULE SipAgent ------------------------------
(***************************************************************************)
(* The SIP user agent of playground_re_sip.c: it registers, or invites the *)
(* address it is given, accepts calls while it is in none, and terminates  *)
(* on a signal or when its session is closed.  Everything runs on the main *)
(* loop of libre; a handler is one action.                                 *)
(*                                                                         *)
(* Sessions and the registration are those of libre (deps/re/src/sipsess,  *)
(* deps/re/src/sipreg): one that is released lives on until its last       *)
(* request is answered, and each holds a reference to the SIP stack, whose *)
(* exit handler runs when the stack is closing and the last one is gone.   *)
(***************************************************************************)
EXTENDS Naturals

CONSTANT MaxIncoming   \* bound on the incoming calls that are accepted

ASSUME AgentAssumption == MaxIncoming \in Nat

VARIABLES
    invites,     \* an address to invite is given on the command line
    pc,          \* set-up stage, "loop", "done"
    tls,         \* the variable sip_tls of main
    closing,     \* sip::closing
    polling,     \* re::polling
    re_sess,     \* the session the program's pointer is at
    sess,        \* the sessions of libre: 0 is the invited one
    re_reg,      \* the program's pointer to the registration is set
    reg,         \* the registration of libre
    bound,       \* the registrar has a binding for this agent
    heard,       \* history: a 2xx to a REGISTER has reached the agent
    late,        \* history: sessions accepted while the stack was closing
    afterExit,   \* history: sessions accepted after the exit handler
    corrupt      \* an uninitialised or released pointer was used

sessVars == <<re_sess, sess, late, afterExit>>
regVars == <<re_reg, reg, bound, heard>>
stackVars == <<closing, polling>>
vars == <<invites, pc, tls, stackVars, sessVars, regVars, corrupt>>

Incoming == 1..MaxIncoming
Sessions == 0..MaxIncoming
None == MaxIncoming + 1   \* re_sess = NULL

\* What main builds, in order. A stage stands for all calls that fail alike.
StageAfter == [resolver |-> "stack", stack |-> "tls", tls |-> "sockets",
               sockets |-> "sdp", sdp |-> "request", request |-> "loop"]

SessionStates == {"none", "inviting", "accepted", "established", "cancelling", "leaving"}
\* The registration: whether it holds, whether the request under way asks for
\* it or takes it back; refused remembers that it could not be taken back.
NoReg == [at |-> "none", registered |-> FALSE, expires |-> TRUE, refused |-> FALSE]
RefusedReg == [NoReg EXCEPT !.refused = TRUE]

TypeOK ==
    /\ invites \in BOOLEAN
    /\ pc \in DOMAIN StageAfter \cup {"loop", "done"}
    /\ tls \in {"garbage", "live", "freed"}
    /\ closing \in BOOLEAN /\ polling \in BOOLEAN
    /\ re_sess \in Sessions \cup {None}
    /\ sess \in [Sessions -> SessionStates]
    /\ re_reg \in BOOLEAN
    /\ reg \in [at : {"none", "asking", "idle", "finishing"},
                registered : BOOLEAN, expires : BOOLEAN, refused : BOOLEAN]
    /\ bound \in BOOLEAN /\ heard \in BOOLEAN
    /\ late \subseteq Incoming /\ afterExit \subseteq Incoming
    /\ corrupt \in BOOLEAN

Init ==
    /\ invites \in BOOLEAN
    /\ pc = "resolver" /\ tls = "garbage"
    /\ closing = FALSE /\ polling = FALSE
    /\ re_sess = None /\ sess = [s \in Sessions |-> "none"]
    /\ re_reg = FALSE /\ reg = NoReg /\ bound = FALSE /\ heard = FALSE
    /\ late = {} /\ afterExit = {}
    /\ corrupt = FALSE

-----------------------------------------------------------------------------
(* Set-up.                                                                 *)

\* The last stage sends the INVITE or the first REGISTER and enters re_main.
SetupStage ==
    /\ pc \in DOMAIN StageAfter
    /\ pc' = StageAfter[pc]
    /\ tls' = IF pc = "tls" THEN "live" ELSE tls
    /\ IF pc = "request"
       THEN /\ polling' = TRUE
            /\ sess' = [sess EXCEPT ![0] = IF invites THEN "inviting" ELSE "none"]
            /\ re_sess' = IF invites THEN 0 ELSE None
            /\ reg' = IF invites THEN NoReg ELSE [NoReg EXCEPT !.at = "asking"]
            /\ re_reg' = ~invites
       ELSE UNCHANGED <<polling, sess, re_sess, reg, re_reg>>
    /\ UNCHANGED <<invites, closing, bound, heard, late, afterExit, corrupt>>

\* A goto out before the declaration of sip_tls leaves it uninitialised;
\* within the stage "tls" it is NULL when tls_alloc fails.
SetupFails ==
    /\ pc \in DOMAIN StageAfter
    /\ pc' = "done"
    /\ tls' = IF tls = "live" THEN "freed" ELSE tls
    /\ corrupt' = (tls = "garbage" /\ pc # "tls")
    /\ UNCHANGED <<invites, stackVars, sessVars, regVars>>

-----------------------------------------------------------------------------
(* terminate.                                                              *)

Holds == (\E s \in Sessions : sess[s] # "none") \/ reg.at # "none"

\* Mutated: the exit handler does not cancel the loop.
LetGoStays ==
    IF closing /\ ~Holds'
    THEN closing' = FALSE /\ UNCHANGED polling
    ELSE UNCHANGED <<closing, polling>>

\* A session or the registration may be gone: the last one lets go of a
\* closing stack, whose exit handler cancels the loop.
LetGo ==
    IF closing /\ ~Holds'
    THEN closing' = FALSE /\ polling' = FALSE
    ELSE UNCHANGED <<closing, polling>>

\* Mutated: the loop is cancelled at once.
SipCloseAtOnce == closing' = FALSE /\ polling' = FALSE

\* sip_close(re_sip, false)
SipClose ==
    /\ closing' = Holds'
    /\ polling' = (polling /\ Holds')

\* mem_deref(re_sess) where the remote party has not ended the session: a
\* CANCEL, the wait for an ACK, or a BYE, if that can be sent.
Released(s) == CASE s = "inviting" -> {"cancelling"}
                 [] s = "accepted" -> {"leaving"}
                 [] s = "established" -> {"leaving", "none"}
                 [] OTHER -> {s}

\* Mutated: a registration is forgotten at once.
ReleasedRegForgets == IF re_reg THEN {NoReg} ELSE {reg}

\* mem_deref(re_reg): a request under way is waited for; a registration that
\* has none is taken back by a last request, if that can be sent.
ReleasedReg ==
    CASE ~re_reg -> {reg}
      [] re_reg /\ reg.at = "asking" -> {[reg EXCEPT !.at = "finishing"]}
      [] re_reg /\ reg.at = "idle" /\ reg.registered ->
            {[reg EXCEPT !.at = "finishing", !.expires = FALSE], RefusedReg}
      [] OTHER -> {NoReg}

\* The program's pointer is at a session it has released before.
Dangling == re_sess # None /\ sess[re_sess] \in {"none", "cancelling", "leaving"}

\* terminate, when libre leaves the program's session in state s.
Terminate(s) ==
    /\ sess' = IF re_sess = None THEN sess ELSE [sess EXCEPT ![re_sess] = s]
    /\ corrupt' = (corrupt \/ Dangling)
    /\ re_sess' = None
    /\ reg' \in ReleasedReg
    /\ re_reg' = FALSE
    /\ SipClose

-----------------------------------------------------------------------------
(* The handlers the main loop calls.                                       *)

Signal ==
    /\ pc = "loop"
    /\ \E s \in IF re_sess = None THEN {"none"} ELSE Released(sess[re_sess]) : Terminate(s)
    /\ UNCHANGED <<invites, pc, tls, bound, heard, late, afterExit>>

\* 2xx to the INVITE: answer_handler, establish_handler.
Answered ==
    /\ pc = "loop" /\ sess[0] = "inviting"
    /\ sess' = [sess EXCEPT ![0] = "established"]
    /\ UNCHANGED <<invites, pc, tls, stackVars, re_sess, late, afterExit, regVars, corrupt>>

\* The session fails or ends, and close_handler terminates the agent: a 2xx
\* with an SDP that answer_handler refuses or no ACK in time (libre says
\* BYE), a refusal or a BYE (nothing is left to say).
Closed ==
    /\ pc = "loop" /\ re_sess # None
    /\ \/ sess[re_sess] \in {"inviting", "accepted"} /\ Terminate("leaving")
       \/ sess[re_sess] \in {"inviting", "established"} /\ Terminate("none")
    /\ UNCHANGED <<invites, pc, tls, bound, heard, late, afterExit>>

\* The last request of a released session is answered; a 2xx that crossed
\* the CANCEL is followed by a BYE.
Finished(s) ==
    /\ pc = "loop"
    /\ \/ sess[s] \in {"cancelling", "leaving"} /\ sess' = [sess EXCEPT ![s] = "none"]
       \/ sess[s] = "cancelling" /\ sess' = [sess EXCEPT ![s] = "leaving"]
    /\ UNCHANGED <<invites, pc, tls, re_sess, late, afterExit, regVars, corrupt>>
    /\ LetGo

\* connect_handler: while there is a session the caller is told 486, and 500
\* when the offer or sipsess_accept fails; neither changes anything.
OnConnect(n) ==
    /\ pc = "loop"
    /\ re_sess = None
    /\ sess[n] = "none" /\ n \notin late \cup afterExit
    /\ \A m \in Incoming : m < n => sess[m] # "none" \/ m \in late \cup afterExit
    /\ sess' = [sess EXCEPT ![n] = "accepted"]
    /\ re_sess' = n
    /\ late' = IF closing THEN late \cup {n} ELSE late
    /\ afterExit' = IF ~polling THEN afterExit \cup {n} ELSE afterExit
    /\ UNCHANGED <<invites, pc, tls, stackVars, regVars, corrupt>>

\* The ACK of an accepted call: establish_handler.
IncomingEstablished(n) ==
    /\ pc = "loop" /\ sess[n] = "accepted"
    /\ sess' = [sess EXCEPT ![n] = "established"]
    /\ UNCHANGED <<invites, pc, tls, stackVars, re_sess, late, afterExit, regVars, corrupt>>

\* What becomes of a REGISTER: its 2xx arrives; the registrar does what was
\* asked but the answer is lost, and libre's transaction times out; or it is
\* refused or never gets there.
Outcomes == {"ok", "lost", "refused"}
Done(o) == o \in {"ok", "lost"}

\* The response handler of libre for a registration in use: only a 2xx that
\* arrives makes it registered, nothing but a 2xx for its removal ends that.
\* It is asked for again later in any case. register_handler prints.
RegisterAnswer ==
    /\ pc = "loop" /\ reg.at = "asking"
    /\ \E o \in Outcomes :
          /\ reg' = [reg EXCEPT !.at = "idle", !.registered = @ \/ o = "ok"]
          /\ bound' = (bound \/ Done(o))
          /\ heard' = (heard \/ o = "ok")
    /\ UNCHANGED <<invites, pc, tls, stackVars, sessVars, re_reg, corrupt>>

\* The renewal timer of the registration.
RegisterTimer ==
    /\ pc = "loop" /\ reg.at = "idle"
    /\ reg' = [reg EXCEPT !.at = "asking"]
    /\ UNCHANGED <<invites, pc, tls, stackVars, sessVars, re_reg, bound, heard, corrupt>>

\* The answer to a request of a released registration: the first one, or a
\* renewal, is followed by the request that takes it back, if libre knows of
\* a registration.
RegisterFinished ==
    /\ pc = "loop" /\ reg.at = "finishing"
    /\ \E o \in Outcomes :
          \/ /\ reg.expires /\ (reg.registered \/ o = "ok")
             /\ reg' \in {[reg EXCEPT !.registered = TRUE, !.expires = FALSE], RefusedReg}
             /\ bound' = (bound \/ Done(o))
             /\ heard' = (heard \/ o = "ok")
          \/ /\ reg.expires /\ ~reg.registered /\ o # "ok"
             /\ reg' = NoReg
             /\ bound' = (bound \/ Done(o))
             /\ UNCHANGED heard
          \/ /\ ~reg.expires
             /\ reg' = [NoReg EXCEPT !.refused = ~Done(o)]
             /\ bound' = (bound /\ ~Done(o))
             /\ UNCHANGED heard
    /\ UNCHANGED <<invites, pc, tls, sessVars, re_reg, corrupt>>
    /\ LetGo

\* re_main returns once a turn has begun with the loop cancelled, and main
\* releases what it has built.
LoopEnds ==
    /\ pc = "loop" /\ ~polling
    /\ pc' = "done"
    /\ tls' = IF tls = "live" THEN "freed" ELSE tls
    /\ UNCHANGED <<invites, stackVars, sessVars, regVars, corrupt>>

SessionHandlers ==
    \/ Signal \/ Answered \/ Closed
    \/ \E s \in Sessions : Finished(s)
    \/ \E n \in Incoming : OnConnect(n) \/ IncomingEstablished(n)
RegHandlers == RegisterAnswer \/ RegisterTimer \/ RegisterFinished

Next == SetupStage \/ SetupFails \/ SessionHandlers \/ RegHandlers \/ LoopEnds

Spec == Init /\ [][Next]_vars

-----------------------------------------------------------------------------
\* When the loop has ended, no session and no registration is left: the exit
\* handler ran after the last of them. Only a call that was accepted after
\* it, in the last turn of the loop, may still be there.
PendingFinished ==
    pc = "done" => /\ reg.at = "none"
                   /\ \A s \in Sessions \ afterExit : sess[s] = "none"

\* A binding the agent has heard of is left at the registrar only if that
\* refused to take it back or could not be asked to, even when renewals were
\* lost and the registration is released in the midst of one. (Of a binding
\* whose every 2xx was lost libre knows nothing, and leaves it to expire.)
UnregisteredAtExit == pc = "done" /\ bound /\ heard => reg.refused

\* Once terminate was called the loop comes to its end, if no call comes in
\* while the requests under way are waited for.
TerminateEnds == (pc = "loop" /\ closing) ~> (pc = "done" \/ late # {})
=============================================================================
