------------------------------ MODULE IceTest ------------------------------
(***************************************************************************)
(* The ICE loop test of playground_ice.c: two agents of one process gather *)
(* their candidates from a STUN server, exchange them, run connectivity    *)
(* checks and are verified; a watchdog of 300 ms ends the main loop.       *)
(*                                                                         *)
(* One turn of re_main is modelled in its two halves, since re_cancel only *)
(* clears a flag that the next turn reads: the sockets that were ready     *)
(* when the poll returned are all served, then the timers that were due.   *)
(* The checks themselves belong to libre: what the program sees of them is *)
(* how many of the pairs became valid.                                     *)
(***************************************************************************)
EXTENDS Naturals, FiniteSets

CONSTANTS Stray   \* the number of datagrams from outside that may arrive
                  \* at the sockets of the two local STUN servers

ASSUME StrayAssumption == Stray \in Nat

Agents == {"A", "B"}
Other(ag) == CHOOSE o \in Agents : o # ag

Errors == {"OK", "EINVAL", "EPROTO", "ENOENT", "ENOMEM", "ETIMEDOUT",
           "ECONNABORTED", "EOTHER"}

VARIABLES nat,      \* the server sees another address than the agents' own
          agent,    \* the two agents
          it,       \* struct ice_test: its err, the result of the loop test
          loop,     \* where the program is, and re->polling
          batch,    \* sockets left to serve in this turn: their messages
          due,      \* timers left to serve in this turn
          net,      \* answers on their way to the agents
          timers,   \* timers that run
          fired     \* the watchdog has fired (its own err is ETIMEDOUT)

vars == <<nat, agent, it, loop, batch, due, net, timers, fired>>

Candidates == Agents \X {"host", "srflx"}

\* What each agent can be told: the answer to the request for its mapped
\* address, and the end of its connectivity checks.
Messages == [to : Agents, answer : {"mapped", "nomapped", "refused"}]
            \cup [to : Agents, valid : 0..2]
Timers == {"watchdog", "test"} \cup Agents   \* an agent: its pacing timer

NoAgent == [up |-> FALSE, gathering_ok |-> FALSE, conncheck_ok |-> FALSE,
            lcand |-> {}, attr_m |-> {}, rcand |-> {}, checking |-> FALSE,
            checkl |-> 0, validl |-> 0, nrecv |-> 0]

TypeOK ==
    /\ nat \in BOOLEAN
    /\ agent \in [Agents -> [up : BOOLEAN, gathering_ok : BOOLEAN,
                             conncheck_ok : BOOLEAN,
                             lcand : SUBSET Candidates,
                             attr_m : SUBSET Candidates,
                             rcand : SUBSET Candidates,
                             checking : BOOLEAN,
                             checkl : 0..2, validl : 0..2, nrecv : 0..Stray]]
    /\ it \in [err : Errors, failed : BOOLEAN, result : Errors \cup {"none"}]
    /\ loop \in [at : {"alloc", "poll", "fd", "tmr", "done"}, polling : BOOLEAN]
    /\ batch \subseteq Messages
    /\ due \subseteq Timers
    /\ net \subseteq Messages
    /\ timers \subseteq Timers
    /\ fired \in BOOLEAN

Init ==
    /\ nat \in BOOLEAN
    /\ agent = [ag \in Agents |-> NoAgent]
    /\ it = [err |-> "OK", failed |-> FALSE, result |-> "none"]
    /\ loop = [at |-> "alloc", polling |-> FALSE]
    /\ batch = {} /\ due = {} /\ net = {} /\ timers = {} /\ fired = FALSE

----------------------------------------------------------------------------
\* complete_test: the error of the test is overwritten, the loop is to end.
\* `failed' remembers that some error was reported (a history variable).
complete_test(err) ==
    /\ it' = [it EXCEPT !.err = err, !.failed = @ \/ err # "OK"]
    /\ loop' = [loop EXCEPT !.polling = FALSE]

\* The request of an agent that is released is answered with ECONNABORTED by
\* the destructor of the STUN instance, through the same handlers.
\* Its answer may have arrived, or never arrive at all.
Pending(ag) == agent[ag].up /\ \E m \in net \cup batch :
                   m.to = ag /\ "answer" \in DOMAIN m

\* icetest_destructor, with the result the caller has computed before.
Release(result) ==
    /\ it' = [it EXCEPT !.result = result,
                        !.err = IF \E ag \in Agents : Pending(ag)
                                THEN "ECONNABORTED" ELSE @]
    /\ agent' = [ag \in Agents |-> NoAgent]
    /\ loop' = [at |-> "done", polling |-> FALSE]
    /\ net' = {} /\ batch' = {} /\ due' = {} /\ timers' = {}
    /\ UNCHANGED <<nat, fired>>

\* agent_alloc, first for A and then for B, each with its own STUN server:
\* the host candidate, and the request to the server, which is answered or
\* lost. The watchdog starts when both are there (re_main_timeout).
AgentAlloc(ag) ==
    /\ loop.at = "alloc" /\ ~agent[ag].up
    /\ ag = "B" => agent["A"].up
    /\ agent' = [agent EXCEPT ![ag].up = TRUE, ![ag].lcand = {<<ag, "host">>}]
    /\ \E a \in {"mapped", "nomapped", "refused"} :
          net' = net \cup {[to |-> ag, answer |-> a]}
    /\ IF ag = "B"
       THEN /\ loop' = [at |-> "poll", polling |-> TRUE]
            /\ timers' = {"watchdog"}
       ELSE UNCHANGED <<loop, timers>>
    /\ UNCHANGED <<nat, it, batch, due, fired>>

\* Any of the calls agent_alloc makes may fail: the agent is released, and
\* icetest_alloc then releases the test with the other agent.
AgentAllocFails(ag) ==
    /\ loop.at = "alloc" /\ ~agent[ag].up
    /\ ag = "B" => agent["A"].up
    /\ Release("EOTHER")

----------------------------------------------------------------------------
\* The turn of re_main. Timers that are started while timers are served are
\* not due before the next turn: tmr_poll reads the clock once.

FdPoll ==
    /\ loop.at = "poll" /\ loop.polling
    /\ \E ready \in SUBSET net : batch' = ready /\ net' = net \ ready
    /\ loop' = [loop EXCEPT !.at = "fd"]
    /\ UNCHANGED <<nat, agent, it, due, timers, fired>>

TmrPoll(expired) ==
    /\ loop.at = "fd" /\ batch = {}
    /\ due' = expired /\ timers' = timers \ expired
    /\ loop' = [loop EXCEPT !.at = "tmr"]
    /\ UNCHANGED <<nat, agent, it, batch, net, fired>>

NextTurn ==
    /\ loop.at = "tmr" /\ due = {}
    /\ loop' = [loop EXCEPT !.at = "poll"]
    /\ UNCHANGED <<nat, agent, it, batch, due, net, timers, fired>>

----------------------------------------------------------------------------
\* Gathering.

\* icem_cand_redund_elim: a mapped address that is the agent's own address
\* adds no candidate.
Gathered(ag) ==
    agent[ag].lcand \cup (IF nat THEN {<<ag, "srflx">>} ELSE {})

\* send_sdp: what an agent expects of its lists after gathering.
SendSdpOk(ag) ==
    agent[ag].rcand = {} /\ agent[ag].checkl = 0 /\ agent[ag].validl = 0

\* Mutant: the check of one agent is missing.
GatheringsCompleteOne(agents) == \E ag \in Agents : agents[ag].gathering_ok

GatheringsComplete(agents) == \A ag \in Agents : agents[ag].gathering_ok

\* agent_decode_sdp for both agents.
Exchanged(agents) ==
    [ag \in Agents |-> [agents[ag] EXCEPT
        !.rcand = agents[ag].rcand \cup agents[Other(ag)].attr_m]]

\* agent_start: icem_conncheck_start forms the list of pairs; pairs with the
\* server-reflexive candidate are pruned to those with its base. Agents that
\* could not start (out of memory, or B after A could not) keep an empty list.
Started(agents, running) ==
    [ag \in Agents |-> IF ag \in running
        THEN [agents[ag] EXCEPT !.checking = TRUE,
                                !.checkl = Cardinality(agents[ag].rcand)]
        ELSE agents[ag]]

\* icetest_check_gatherings, after `agents' is what agent_gather_handler left:
\* the one that comes second exchanges the descriptions and starts both.
icetest_check_gatherings(agents) ==
    \/ /\ ~GatheringsComplete(agents)
       /\ agent' = agents
       /\ UNCHANGED <<it, loop, timers>>
    \/ /\ GatheringsComplete(agents)
       /\ \E running \in {{"A", "B"}, {"A"}, {}} :
             /\ agent' = Started(Exchanged(agents), running)
             /\ timers' = timers \cup running
             /\ IF running = Agents THEN UNCHANGED <<it, loop>>
                                    ELSE complete_test("ENOMEM")

\* stun_resp_handler and agent_gather_handler.
GatherResponse(m) ==
    /\ loop.at = "fd" /\ m \in batch /\ "answer" \in DOMAIN m
    /\ batch' = batch \ {m}
    /\ \/ /\ m.answer # "mapped"
          /\ complete_test("EPROTO")
          /\ UNCHANGED <<agent, timers>>
       \/ /\ m.answer = "mapped"
          /\ LET gathered == [agent EXCEPT ![m.to].lcand = Gathered(m.to),
                                           ![m.to].gathering_ok = TRUE]
                 described == [gathered EXCEPT ![m.to].attr_m = Gathered(m.to)]
             IN  IF SendSdpOk(m.to)
                 THEN icetest_check_gatherings(described)
                 ELSE /\ agent' = gathered
                      /\ complete_test("EINVAL")
                      /\ UNCHANGED timers
    /\ UNCHANGED <<nat, due, net, fired>>

----------------------------------------------------------------------------
\* Connectivity checks.

\* icem_selected_laddr: behind a NAT the pair that is found valid is the one
\* with the mapped address.
Selected(a, ag) == <<ag, IF <<ag, "srflx">> \in a.lcand THEN "srflx" ELSE "host">>

\* What agent_connchk_handler verifies; n_cand is 1 for both agents.
ConnchkError(a, ag) ==
    CASE Cardinality(a.lcand) # 1 \/ Cardinality(a.rcand) # 1
         \/ a.checkl # 0 \/ a.validl # 1             -> "EINVAL"
      [] Selected(a, ag) # <<ag, "host">>            -> "EPROTO"
      [] <<Other(ag), "host">> \notin a.rcand        -> "EPROTO"
      [] OTHER                                       -> "OK"

\* agent_connchk_handler, when libre reports err for ag, whose state is a.
agent_connchk_handler(ag, a, err) ==
    \/ /\ err # "OK"
       /\ agent' = [agent EXCEPT ![ag] = a]
       /\ complete_test(err)
       /\ UNCHANGED timers
    \/ /\ err = "OK"   \* the update flag is not what the agent's role says
       /\ agent' = [agent EXCEPT ![ag] = a]
       /\ complete_test("EPROTO")
       /\ UNCHANGED timers
    \/ /\ err = "OK"
       /\ agent' = [agent EXCEPT ![ag] = [a EXCEPT !.conncheck_ok = TRUE]]
       /\ IF ConnchkError(a, ag) # "OK"
          THEN complete_test(ConnchkError(a, ag)) /\ UNCHANGED timers
          ELSE /\ timers' = IF \A o \in Agents : agent'[o].conncheck_ok
                            THEN timers \cup {"test"} ELSE timers
               /\ UNCHANGED <<it, loop>>

\* The pacing timer of an agent: the first check is sent (the answers may be
\* lost), or cannot be sent and the checks are over.
PaceTimeout(ag) ==
    /\ loop.at = "tmr" /\ ag \in due
    /\ due' = due \ {ag}
    /\ \/ /\ \E v \in 0..agent[ag].checkl : net' = net \cup {[to |-> ag, valid |-> v]}
          /\ UNCHANGED <<agent, it, loop, timers>>
       \/ /\ \E err \in {"ENOMEM", "ENOENT"} :
                agent_connchk_handler(ag, [agent[ag] EXCEPT !.checking = FALSE], err)
          /\ UNCHANGED net
    /\ UNCHANGED <<nat, batch, fired>>

\* The last answer: pairs found valid have left the check list, pairs that
\* failed stay in it.
CheckResponse(m) ==
    /\ loop.at = "fd" /\ m \in batch /\ "valid" \in DOMAIN m
    /\ batch' = batch \ {m}
    /\ agent_connchk_handler(m.to,
          [agent[m.to] EXCEPT !.checking = FALSE, !.validl = m.valid,
                              !.checkl = @ - m.valid],
          IF m.valid = 0 THEN "ENOENT" ELSE "OK")
    /\ UNCHANGED <<nat, due, net, fired>>

\* tmr_handler: one millisecond after both agents were found complete.
TestTimer ==
    /\ loop.at = "tmr" /\ "test" \in due
    /\ due' = due \ {"test"}
    /\ complete_test("OK")
    /\ UNCHANGED <<nat, agent, batch, net, timers, fired>>

\* Mutant: the watchdog sets its error and does not cancel the loop.
WatchdogNoCancel ==
    /\ loop.at = "tmr" /\ "watchdog" \in due
    /\ due' = due \ {"watchdog"}
    /\ fired' = TRUE
    /\ UNCHANGED <<nat, agent, it, loop, batch, net, timers>>

\* oom_watchdog_timeout.
Watchdog ==
    /\ loop.at = "tmr" /\ "watchdog" \in due
    /\ due' = due \ {"watchdog"}
    /\ fired' = TRUE
    /\ loop' = [loop EXCEPT !.polling = FALSE]
    /\ UNCHANGED <<nat, agent, it, batch, net, timers>>

\* process_msg of a local STUN server counts a datagram before it decodes it;
\* the answer, if it is a request, goes back to where it came from.
StunserverRecv(ag) ==
    /\ loop.at = "fd" /\ agent[ag].up /\ agent[ag].nrecv < Stray
    /\ agent' = [agent EXCEPT ![ag].nrecv = @ + 1]
    /\ UNCHANGED <<nat, it, loop, batch, due, net, timers, fired>>

\* agent_verify_completed
VerifyCompleted(a) ==
    /\ a.gathering_ok /\ a.conncheck_ok
    /\ a.checkl = 0 /\ a.validl = 1
    /\ a.nrecv >= 1

\* Mutant: the error of re_main_timeout is not looked at.
ResultIgnoresWatchdog ==
    CASE it.err # "OK"                                    -> it.err
      [] it.err = "OK"
         /\ ~(\A ag \in Agents : VerifyCompleted(agent[ag])) -> "EINVAL"
      [] OTHER                                            -> "OK"

\* What _test_ice_loop returns once the loop has ended.
Result ==
    CASE fired                                            -> "ETIMEDOUT"
      [] ~fired /\ it.err # "OK"                          -> it.err
      [] ~fired /\ it.err = "OK"
         /\ ~(\A ag \in Agents : VerifyCompleted(agent[ag])) -> "EINVAL"
      [] OTHER                                            -> "OK"

LoopEnds ==
    /\ loop.at = "poll" /\ ~loop.polling
    /\ Release(Result)

Next ==
    \/ \E ag \in Agents : AgentAlloc(ag) \/ AgentAllocFails(ag)
    \/ FdPoll
    \/ \E expired \in SUBSET timers : TmrPoll(expired)
    \/ NextTurn
    \/ \E m \in Messages : GatherResponse(m) \/ CheckResponse(m)
    \/ \E ag \in Agents : PaceTimeout(ag) \/ StunserverRecv(ag)
    \/ TestTimer
    \/ Watchdog
    \/ LoopEnds

Spec == Init /\ [][Next]_vars

----------------------------------------------------------------------------
\* An agent that checks, or has checked, knows exactly the candidates the
\* other one has gathered, and its list holds every pair that is not yet
\* valid: no check runs on half an exchange, in whichever order the two
\* gatherings end (icetest_check_gatherings).
ChecksAfterExchange ==
    \A ag \in Agents : LET a == agent[ag] IN
        a.checking \/ a.conncheck_ok =>
            /\ a.rcand = agent[Other(ag)].lcand
            /\ a.checkl + a.validl = Cardinality(a.rcand)

\* The loop test reports success only when neither handler has reported an
\* error, the watchdog has not fired and there is no NAT, although
\* complete_test overwrites the error of the test and handlers go on running
\* after re_cancel until the turn is over.
SuccessIsSpotless ==
    it.result = "OK" => ~it.failed /\ ~fired /\ ~nat
============================================================================
