----------------------------- MODULE Playground -----------------------------
(***************************************************************************)
(* The playground builds programs that are run one at a time: a run is a   *)
(* run of the SIP user agent (SipAgent) or of one of the SRTP programs     *)
(* (SrtpSession), and the variables of the other keep the values of one    *)
(* initial state.                                                          *)
(***************************************************************************)
EXTENDS SipAgent, Integers, Sequences

CONSTANTS MaxDevices, MaxPackets   \* SrtpSession's bounds

ASSUME SrtpAssumption == MaxDevices \in Nat /\ MaxPackets \in Nat

VARIABLES
    program,   \* the program that runs
    launched, host, mpc, tpc, exiting, done, dev, sock, net, played, sent, refused   \* SrtpSession's

srtpVars == <<launched, host, mpc, tpc, exiting, done, dev, sock, net, played, sent, refused>>
programVars == <<program, vars, srtpVars>>

Srtp == INSTANCE SrtpSession WITH pc <- tpc

\* The program that does not run is in one of its initial states.
ProgramInit ==
    /\ program \in {"agent", "srtp"}
    /\ Init /\ Srtp!Init
    /\ program = "agent" => launched = Srtp!Threads /\ host.count < 0 /\ host.api = {}
    /\ program = "srtp" => invites

AgentRuns == program = "agent" /\ UNCHANGED <<program, srtpVars>>
SrtpRuns == program = "srtp" /\ UNCHANGED <<program, vars>>

ProgramNext ==
    \/ AgentRuns /\ Next
    \/ SrtpRuns /\ Srtp!Next

\* The agent's loop goes on, and every request is answered or times out; nobody
\* has to answer its INVITE, to hang up, or to send a signal. The scheduler runs
\* every thread of an SRTP program and recvfrom returns a datagram that is there;
\* none need come and no call need fail, so the loops need not end.
ProgramSpec ==
    /\ ProgramInit /\ [][ProgramNext]_programVars
    /\ WF_programVars(AgentRuns /\ (SetupStage \/ SetupFails))
    /\ WF_programVars(AgentRuns /\ LoopEnds)
    /\ WF_programVars(AgentRuns /\ RegisterFinished)
    /\ \A s \in Sessions : WF_programVars(AgentRuns /\ Finished(s))
    /\ WF_programVars(SrtpRuns /\ Srtp!Main)
    /\ WF_programVars(SrtpRuns /\ Srtp!RecvDatagram)
    /\ \A t \in Srtp!Threads : WF_programVars(SrtpRuns /\ (Srtp!SetUp(t) \/ Srtp!Finish(t)))

-----------------------------------------------------------------------------
\* libsrtp is shut down only after every thread that was launched has returned:
\* see SrtpSession.
ShutsDownLast == Srtp!ShutsDownLast

=============================================================================
