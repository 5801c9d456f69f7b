----------------------------- MODULE LoopTests ------------------------------
(***************************************************************************)
(* The two test programs that run libre's main loop under a watchdog, the  *)
(* ICE test (IceTest) and the DTLS-SRTP test (DtlsTest).  Both have the    *)
(* same helpers, re_main_timeout with its watchdog and a function that     *)
(* stores an error and cancels the loop; a run is a run of one of them,    *)
(* and the variables of the other keep their initial values.               *)
(***************************************************************************)
EXTENDS IceTest, Sequences, Integers

CONSTANT MaxStray   \* bound on the datagrams that reach the DTLS server

ASSUME MaxStrayAssumption == MaxStray \in Nat

VARIABLES
    program,   \* the test that runs
    at, polling, sockets, conn, refs, wire, n, err, late, stray, result   \* DtlsTest's

dtlsVars == <<at, polling, sockets, conn, refs, wire, n, err, late, stray, result>>
testVars == <<program, vars, dtlsVars>>

Dtls == INSTANCE DtlsTest WITH batch <- sockets, net <- wire, fired <- late

TestsInit == program \in {"ice", "dtls"} /\ Init /\ Dtls!Init

IceRuns == program = "ice" /\ UNCHANGED <<program, dtlsVars>>
DtlsRuns == program = "dtls" /\ UNCHANGED <<program, vars>>

TestsNext ==
    \/ IceRuns /\ Next
    \/ DtlsRuns /\ Dtls!Next

\* The programs run, and the time of the watchdogs comes although other turns
\* may come first. No datagram or answer need arrive.
TestsSpec ==
    /\ TestsInit /\ [][TestsNext]_testVars
    /\ WF_testVars(IceRuns /\ Next)
    /\ SF_testVars(IceRuns /\ \E expired \in SUBSET timers :
                                 "watchdog" \in expired /\ TmrPoll(expired))
    /\ WF_testVars(IceRuns /\ Watchdog)
    /\ WF_testVars(DtlsRuns /\ Dtls!Program)
    /\ SF_testVars(DtlsRuns /\ Dtls!Timers /\ late')

-----------------------------------------------------------------------------
\* The DTLS test gets as far as comparing names only if every handler ran once
\* and none reported an error (abort_test overwrites it): see DtlsTest.
VerifiedIsSpotless == Dtls!VerifiedIsSpotless

\* The two connections of the DTLS test are released once each, by their close
\* handlers or at label out: see DtlsTest.
ReleasedOnce == Dtls!ReleasedOnce

\* Whatever is lost, both tests come to their end: the watchdog is armed before
\* the loop starts and nothing but the end of the loop stops it.
TestEnds == <>(loop.at = "done" \/ at = "done")
=============================================================================
