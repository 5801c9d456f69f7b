------------------------------ MODULE DtlsTest ------------------------------
(***************************************************************************)
(* The DTLS-SRTP test of playground_dtls.c: a client and a server of one   *)
(* process shake hands over UDP, the client sends a greeting, the server   *)
(* echoes it, and the test is verified; a watchdog of 800 ms ends the main *)
(* loop.  Retransmissions of DTLS start after a second and never happen.   *)
(*                                                                         *)
(* A flight of the handshake is one datagram.  Datagrams may be lost, and  *)
(* others may reach the server's socket.  In a turn of re_main each socket *)
(* with something to read is read once, then the timers are served; a loop *)
(* that is cancelled finishes its turn.                                    *)
(***************************************************************************)
EXTENDS Integers, Sequences

CONSTANT MaxStray   \* bound on the datagrams from elsewhere

Sides == {"cli", "srv"}
Datagrams == {"hello", "flight2", "flight3", "flight4", "data", "echo", "alert", "stray", "stranger"}

\* The subject of test_certificate_rsa, and what it is compared with
Subject == "sip.serverlynx.net"
CommonName == "retest"

VARIABLES
    at,        \* where the program is
    polling,   \* re->polling
    conn,      \* conn_cli and conn_srv: "null", or how far the handshake is; the
               \* server's may be with a stranger, established as a "guest"
    refs,      \* history: references the test has taken and not given back
    net,       \* datagrams on their way to each side
    batch,     \* sockets left to read in this turn
    n,         \* the counters of struct dtls_test
    err,       \* dtls_test::err, and the history: was an error ever reported
    fired,     \* the watchdog has fired
    stray,     \* number of datagrams from elsewhere
    result     \* how the test came out

loopVars == <<at, polling, batch, fired>>
vars == <<loopVars, conn, refs, net, n, err, stray, result>>

Counters == {"srv_estab", "srv_recv", "cli_estab", "cli_recv", "conn"}

TypeOK ==
    /\ at \in {"setup", "poll", "serve", "verify", "done"}
    /\ polling \in BOOLEAN
    /\ conn \in [Sides -> {"null", "shaking", "up", "stranger", "guest"}]
    /\ refs \in [Sides -> Int]
    /\ net \in [Sides -> Seq(Datagrams)]
    /\ batch \subseteq Sides
    /\ n \in [Counters -> Nat]
    /\ err \in [now : BOOLEAN, ever : BOOLEAN]
    /\ fired \in BOOLEAN
    /\ stray \in 0..MaxStray
    /\ result \in {"none", "setup", "skipped", "timeout", "aborted", "count", "name", "OK"}

Init ==
    /\ at = "setup" /\ polling = FALSE /\ batch = {} /\ fired = FALSE
    /\ conn = [s \in Sides |-> "null"]
    /\ refs = [s \in Sides |-> 0]
    /\ net = [s \in Sides |-> <<>>]
    /\ n = [c \in Counters |-> 0]
    /\ err = [now |-> FALSE, ever |-> FALSE]
    /\ stray = 0
    /\ result = "none"

-----------------------------------------------------------------------------
(* Set-up and the main loop *)

\* test_dtls_srtp_base up to re_main: the client's hello is sent. Without
\* SRTP in the TLS library the test is skipped and succeeds.
Setup ==
    /\ at = "setup"
    /\ \/ /\ at' = "poll" /\ polling' = TRUE
          /\ conn' = [conn EXCEPT !["cli"] = "shaking"]
          /\ refs' = [refs EXCEPT !["cli"] = 1]
          /\ net' = [net EXCEPT !["srv"] = <<"hello">>]
          /\ UNCHANGED result
       \/ /\ at' = "done" /\ result' \in {"setup", "skipped"}
          /\ UNCHANGED <<polling, conn, refs, net>>
    /\ UNCHANGED <<batch, fired, n, err, stray>>

\* re_main: the sockets with something to read are those of this turn.
Poll ==
    /\ at = "poll"
    /\ IF polling
       THEN at' = "serve" /\ batch' = {s \in Sides : net[s] # <<>>}
       ELSE at' = "verify" /\ UNCHANGED batch
    /\ UNCHANGED <<polling, fired, conn, refs, net, n, err, stray, result>>

\* tmr_poll: the watchdog is due or not.
Timers ==
    /\ at = "serve" /\ batch = {}
    /\ at' = "poll"
    /\ \/ fired' = TRUE /\ polling' = FALSE
       \/ UNCHANGED <<fired, polling>>
    /\ UNCHANGED <<batch, conn, refs, net, n, err, stray, result>>

\* The network
Lose(s) ==
    /\ at \in {"poll", "serve"} /\ net[s] # <<>> /\ s \notin batch
    /\ net' = [net EXCEPT ![s] = Tail(@)]
    /\ UNCHANGED <<loopVars, conn, refs, n, err, stray, result>>

Intrudes ==
    /\ at \in {"poll", "serve"} /\ stray < MaxStray
    /\ stray' = stray + 1
    /\ \E m \in {"stray", "stranger"} : net' = [net EXCEPT !["srv"] = Append(@, m)]
    /\ UNCHANGED <<loopVars, conn, refs, n, err, result>>

-----------------------------------------------------------------------------
(* The handlers. One reads the datagram at the head, has done d to its own *)
(* connection, sends out to the other side, and counts.                    *)

\* abort_test: the error is overwritten, the loop is cancelled.
Abort(e) ==
    /\ err' = [now |-> e, ever |-> err.ever \/ e]
    /\ polling' = FALSE

GoesOn == UNCHANGED <<err, polling>>

Other(s) == CHOOSE o \in Sides : o # s

Takes(s, m) ==
    /\ at = "serve" /\ s \in batch /\ net[s] # <<>> /\ Head(net[s]) = m
    /\ batch' = batch \ {s}
    /\ UNCHANGED <<at, fired, stray, result>>

Sends(s, out) ==
    net' = [net EXCEPT ![s] = Tail(@), ![Other(s)] = @ \o out]

Counts(c) == n' = [n EXCEPT ![c] = @ + 1]

\* The first datagram of a peer the server does not know: conn_handler. A
\* second connection is refused, as is what is no hello.
conn_handler(m) ==
    /\ Counts("conn")
    /\ \/ /\ conn["srv"] = "null" /\ m \in {"hello", "stranger"}
          /\ conn' = [conn EXCEPT !["srv"] = IF m = "hello" THEN "shaking" ELSE m]
          /\ refs' = [refs EXCEPT !["srv"] = @ + 1]
          /\ Sends("srv", IF m = "hello" THEN <<"flight2">> ELSE <<>>)
          /\ GoesOn
       \/ Sends("srv", <<>>) /\ Abort(TRUE) /\ UNCHANGED <<conn, refs>>

\* Mutated: the pointer stays.
CloseKeeps(s) ==
    /\ refs' = [refs EXCEPT ![s] = @ - 1]
    /\ UNCHANGED conn

\* srv_close_handler and cli_close_handler: the connection is released and
\* its pointer cleared.
Close(s) ==
    /\ refs' = [refs EXCEPT ![s] = @ - 1]
    /\ conn' = [conn EXCEPT ![s] = "null"]

\* conn_close of libre
Closes(s) == Close(s) /\ GoesOn /\ UNCHANGED n

\* A step of the handshake fails, with or without an alert to the peer.
Fails(s) == Closes(s) /\ \E out \in {<<>>, <<"alert">>} : Sends(s, out)

\* The peer's handshake has failed.
Alerted(s) == Closes(s) /\ Sends(s, <<>>)

\* The server is established with the client or a stranger; its last flight is
\* under way when the keys are exported, which may fail.
srv_estab_handler(state, flight) ==
    /\ Counts("srv_estab") /\ conn' = [conn EXCEPT !["srv"] = state]
    /\ Sends("srv", flight)
    /\ \/ GoesOn
       \/ Abort(TRUE)
    /\ UNCHANGED refs

\* What has come is echoed to whoever has the connection.
srv_recv_handler(echo) ==
    /\ Counts("srv_recv") /\ UNCHANGED <<conn, refs>>
    /\ \/ Sends("srv", echo) /\ GoesOn
       \/ Sends("srv", <<>>) /\ Abort(TRUE)

\* The handshake of the client goes on inside libre.
HandshakeGoesOn ==
    Sends("cli", <<"flight3">>) /\ GoesOn /\ UNCHANGED <<conn, refs, n>>

\* The fingerprint, the name and the keys are taken, the greeting is sent.
cli_estab_handler ==
    /\ Counts("cli_estab") /\ conn' = [conn EXCEPT !["cli"] = "up"]
    /\ \/ Sends("cli", <<"data">>) /\ GoesOn
       \/ Sends("cli", <<>>) /\ Abort(TRUE)
    /\ UNCHANGED refs

\* The greeting is compared, and the test is over, well or not.
cli_recv_handler ==
    /\ Counts("cli_recv") /\ Sends("cli", <<>>)
    /\ \E differs \in BOOLEAN : Abort(differs)
    /\ UNCHANGED <<conn, refs>>

IgnoredByClient == Sends("cli", <<>>) /\ GoesOn /\ UNCHANGED <<conn, refs, n>>

\* A further datagram of the stranger that has the connection goes to it: its
\* handshake goes on, succeeds or fails, its data is echoed to it, or it closes.
StrangerReads ==
    \/ /\ conn["srv"] = "stranger"
       /\ Sends("srv", <<>>) /\ GoesOn /\ UNCHANGED <<conn, refs, n>>
    \/ conn["srv"] = "stranger" /\ srv_estab_handler("guest", <<>>)
    \/ conn["srv"] = "guest" /\ srv_recv_handler(<<>>)
    \/ conn["srv"] \in {"stranger", "guest"} /\ Alerted("srv")

\* recv_handler of libre: a datagram of a known peer goes to its connection,
\* any other to conn_handler.
ServerReads(m) ==
    /\ Takes("srv", m)
    /\ \/ /\ m \in {"stray", "stranger"} \/ conn["srv"] \notin {"shaking", "up"}
          /\ conn_handler(m)
       \/ m = "stranger" /\ StrangerReads
       \/ /\ conn["srv"] \in {"shaking", "up"}
          /\ \/ m = "flight3" /\ (srv_estab_handler("up", <<"flight4">>) \/ Fails("srv"))
             \/ m = "data" /\ srv_recv_handler(<<"echo">>)
             \/ m = "alert" /\ Alerted("srv")

\* The client's socket has no conn_handler.
ClientReads(m) ==
    /\ Takes("cli", m)
    /\ IF conn["cli"] = "null"
       THEN IgnoredByClient
       ELSE \/ m = "flight2" /\ (HandshakeGoesOn \/ Fails("cli"))
            \/ m = "flight4" /\ (cli_estab_handler \/ Fails("cli"))
            \/ m = "echo" /\ cli_recv_handler
            \/ m = "alert" /\ Alerted("cli")

\* Mutated: the error of the test is not looked at, nor are the counters.
OutcomeLax ==
    IF fired THEN "timeout" ELSE IF Subject # CommonName THEN "name" ELSE "OK"

\* What is compared after the loop, in this order. The fingerprint, compared
\* before the name, is that of the one certificate both sides are given; the
\* suites and keys come after the name, which always differs.
Outcome ==
    CASE fired -> "timeout"
      [] ~fired /\ err.now -> "aborted"
      [] ~fired /\ ~err.now /\ \E c \in Counters : n[c] # 1 -> "count"
      [] OTHER -> IF Subject # CommonName THEN "name" ELSE "OK"

\* The verification, and the code at label out
Verify ==
    /\ at = "verify" /\ at' = "done"
    /\ result' = Outcome
    /\ refs' = [s \in Sides |-> IF conn[s] = "null" THEN refs[s] ELSE refs[s] - 1]
    /\ conn' = [s \in Sides |-> "null"]
    /\ UNCHANGED <<polling, batch, fired, net, n, err, stray>>

Next ==
    \/ Setup \/ Poll \/ Timers \/ Intrudes \/ Verify
    \/ \E s \in Sides : Lose(s)
    \/ \E m \in Datagrams : ServerReads(m) \/ ClientReads(m)

Spec == Init /\ [][Next]_vars

\* What the program does by itself: the turns of the loop and their handlers.
Program ==
    Setup \/ Poll \/ Timers \/ Verify \/ \E m \in Datagrams : ServerReads(m) \/ ClientReads(m)

-----------------------------------------------------------------------------
(* Properties *)

\* The test gets as far as comparing names only if every handler ran once and
\* none reported an error, although abort_test overwrites the error with the
\* success of a handler that runs later in the same turn.
VerifiedIsSpotless ==
    result \in {"name", "OK"} => ~err.ever /\ ~fired /\ \A c \in Counters : n[c] = 1

\* What a pointer of the test holds is one reference, and at the end none is
\* left: close handlers release what they clear, the code at label out the
\* rest, however many connections the server has had.
ReleasedOnce ==
    /\ \A s \in Sides : refs[s] = IF conn[s] = "null" THEN 0 ELSE 1
    /\ at = "done" => \A s \in Sides : refs[s] = 0
=============================================================================
