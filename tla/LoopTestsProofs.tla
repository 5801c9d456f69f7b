--------------------------- MODULE LoopTestsProofs ---------------------------
(***************************************************************************)
(* Proofs about the two test programs, for any number of datagrams from    *)
(* outside.                                                                *)
(***************************************************************************)
EXTENDS LoopTests, FiniteSetTheorems, TLAPS

-----------------------------------------------------------------------------
(* DTLS: the inductive invariant.                                          *)

\* What may be on its way to each side.
ToServer == {"hello", "flight3", "data", "alert", "stray", "stranger"}
ToClient == {"flight2", "flight4", "echo", "alert"}

\* What the client sends after its hello.
FromClient == {"flight3", "data", "alert"}

\* A datagram is among those of a queue.
Has(q, m) == \E i \in DOMAIN q : q[i] = m

DtlsTyped ==
    /\ at \in {"setup", "poll", "serve", "verify", "done"}
    /\ polling \in BOOLEAN
    /\ conn \in [Dtls!Sides -> {"null", "shaking", "up", "stranger", "guest"}]
    /\ refs \in [Dtls!Sides -> Int]
    /\ wire \in [Dtls!Sides -> Seq(Dtls!Datagrams)]
    /\ wire["srv"] \in Seq(ToServer) /\ wire["cli"] \in Seq(ToClient)
    /\ sockets \subseteq Dtls!Sides
    /\ n \in [Dtls!Counters -> Nat]
    /\ err \in [now : BOOLEAN, ever : BOOLEAN]
    /\ late \in BOOLEAN
    /\ stray \in 0..MaxStray
    /\ result \in {"none", "setup", "skipped", "timeout", "aborted", "count", "name", "OK"}

\* Before the loop there is no connection and no datagram, and no result
\* before the end.
Before ==
    /\ at = "setup" => /\ \A s \in Dtls!Sides : conn[s] = "null" /\ wire[s] = <<>>
                       /\ sockets = {} /\ ~err.ever /\ ~late
    /\ at # "done" => result = "none"

\* The hello is the first datagram of all.
HelloFirst ==
    \A i \in DOMAIN wire["srv"] : wire["srv"][i] = "hello" => i = 1 /\ conn["srv"] = "null"

\* What has been sent has gone through the handlers before it.
Causes ==
    /\ conn["srv"] # "null" => n["conn"] >= 1
    /\ conn["srv"] = "guest" => n["srv_estab"] >= 1
    /\ Has(wire["cli"], "flight4") => n["srv_estab"] >= 1
    /\ Has(wire["srv"], "data") => n["srv_estab"] >= 1
    /\ Has(wire["cli"], "echo") => n["srv_recv"] >= 1
    /\ n["srv_recv"] >= 1 => n["srv_estab"] >= 1
    /\ n["srv_estab"] >= 1 => n["conn"] >= 1

\* A socket that is to be read in this turn has something to read.
Ready == "cli" \in sockets => wire["cli"] # <<>>

\* Some handler ran twice.
Twice == \E c \in Dtls!Counters : n[c] >= 2

\* An error is the last of the loop: if the client has yet to read in that
\* turn what ends the test with success, a handler has run twice.
ErrorIsLast ==
    err.ever => /\ ~polling
                /\ "cli" \in sockets /\ Head(wire["cli"]) = "echo" => Twice
                /\ err.now \/ Twice

DtlsInv ==
    /\ DtlsTyped
    /\ Before
    /\ HelloFirst
    /\ Causes
    /\ Ready
    /\ ErrorIsLast
    /\ ReleasedOnce
    /\ VerifiedIsSpotless

-----------------------------------------------------------------------------
(* Queues of datagrams.                                                    *)

\* Taking the head of a queue leaves the others, one place further ahead.
LEMMA TakeHead ==
  ASSUME NEW S, NEW q \in Seq(S), q # <<>>
  PROVE  /\ Tail(q) \in Seq(S) /\ Head(q) \in S /\ Head(q) = q[1] /\ 1 \in DOMAIN q
         /\ \A i \in DOMAIN Tail(q) : /\ i \in Nat /\ i >= 1 /\ i + 1 \in DOMAIN q
                                      /\ Tail(q)[i] = q[i + 1]
         /\ \A m : Has(Tail(q), m) => Has(q, m)
  <1>1. /\ Tail(q) \in Seq(S) /\ Head(q) \in S /\ Head(q) = q[1] /\ 1 \in DOMAIN q
    OBVIOUS
  <1>2. \A i \in DOMAIN Tail(q) : /\ i \in Nat /\ i >= 1 /\ i + 1 \in DOMAIN q
                                  /\ Tail(q)[i] = q[i + 1]
    OBVIOUS
  <1>3. \A m : Has(Tail(q), m) => Has(q, m)
    BY <1>2 DEF Has
  <1> QED BY <1>1, <1>2, <1>3

\* Sending keeps what was there, in its place.
LEMMA Enqueue ==
  ASSUME NEW S, NEW q \in Seq(S), NEW out \in Seq(S)
  PROVE  /\ q \o out \in Seq(S)
         /\ \A i \in DOMAIN (q \o out) :
               \/ i \in DOMAIN q /\ (q \o out)[i] = q[i]
               \/ \E j \in DOMAIN out : (q \o out)[i] = out[j]
         /\ \A m : Has(q \o out, m) => Has(q, m) \/ Has(out, m)
         /\ q # <<>> => q \o out # <<>> /\ Head(q \o out) = Head(q)
  <1>1. q \o out \in Seq(S) /\ Len(q \o out) = Len(q) + Len(out)
    OBVIOUS
  <1>2. \A i \in DOMAIN (q \o out) :
               \/ i \in DOMAIN q /\ (q \o out)[i] = q[i]
               \/ \E j \in DOMAIN out : (q \o out)[i] = out[j]
    <2> SUFFICES ASSUME NEW i \in 1..(Len(q) + Len(out))
                 PROVE  \/ i \in DOMAIN q /\ (q \o out)[i] = q[i]
                        \/ \E j \in DOMAIN out : (q \o out)[i] = out[j]
      BY <1>1
    <2>1. CASE i <= Len(q)
      BY <2>1
    <2>2. CASE i > Len(q)
      <3>1. i - Len(q) \in DOMAIN out /\ (q \o out)[i] = out[i - Len(q)]
        BY <2>2
      <3> QED BY <3>1
    <2> QED BY <2>1, <2>2
  <1>3. \A m : Has(q \o out, m) => Has(q, m) \/ Has(out, m)
    BY <1>2 DEF Has
  <1>4. q # <<>> => q \o out # <<>> /\ Head(q \o out) = Head(q)
    BY <1>1
  <1> QED BY <1>1, <1>2, <1>3, <1>4

\* The two sides.
LEMMA TwoSides ==
  /\ Dtls!Sides = {"cli", "srv"} /\ Dtls!Other("srv") = "cli" /\ Dtls!Other("cli") = "srv"
  BY DEF Dtls!Sides, Dtls!Other

\* The server reads a datagram and sends out.
LEMMA ServerSends ==
  ASSUME DtlsTyped, HelloFirst, wire["srv"] # <<>>, NEW out \in Seq(ToClient),
         Dtls!Sends("srv", out)
  PROVE  /\ wire' \in [Dtls!Sides -> Seq(Dtls!Datagrams)]
         /\ wire'["srv"] \in Seq(ToServer) /\ wire'["cli"] \in Seq(ToClient)
         /\ \A i \in DOMAIN wire'["srv"] : wire'["srv"][i] # "hello"
         /\ Has(wire'["srv"], "data") => Has(wire["srv"], "data")
         /\ \A m : Has(wire'["cli"], m) => Has(wire["cli"], m) \/ Has(out, m)
         /\ wire["cli"] # <<>> => wire'["cli"] # <<>> /\ Head(wire'["cli"]) = Head(wire["cli"])
  <1>1. wire \in [Dtls!Sides -> Seq(Dtls!Datagrams)]
    BY DEF DtlsTyped
  <1>2. wire' = [wire EXCEPT !["srv"] = Tail(@), !["cli"] = @ \o out]
    BY TwoSides DEF Dtls!Sends
  <1>3. DOMAIN wire' = Dtls!Sides /\ wire'["srv"] = Tail(wire["srv"])
        /\ wire'["cli"] = wire["cli"] \o out
    BY <1>1, <1>2, TwoSides
  <1>4. wire["srv"] \in Seq(ToServer) /\ wire["cli"] \in Seq(ToClient)
    BY DEF DtlsTyped
  <1>5. /\ Tail(wire["srv"]) \in Seq(ToServer)
        /\ \A i \in DOMAIN Tail(wire["srv"]) : /\ i \in Nat /\ i >= 1 /\ i + 1 \in DOMAIN wire["srv"]
                                               /\ Tail(wire["srv"])[i] = wire["srv"][i + 1]
        /\ Has(Tail(wire["srv"]), "data") => Has(wire["srv"], "data")
    BY <1>4, TakeHead
  <1>6. /\ wire["cli"] \o out \in Seq(ToClient)
        /\ \A m : Has(wire["cli"] \o out, m) => Has(wire["cli"], m) \/ Has(out, m)
        /\ wire["cli"] # <<>> => /\ wire["cli"] \o out # <<>>
                                 /\ Head(wire["cli"] \o out) = Head(wire["cli"])
    BY <1>4, Enqueue
  <1>7. \A i \in DOMAIN wire'["srv"] : wire'["srv"][i] # "hello"
    <2> SUFFICES ASSUME NEW i \in DOMAIN wire'["srv"], wire'["srv"][i] = "hello" PROVE FALSE
      OBVIOUS
    <2>1. i + 1 \in DOMAIN wire["srv"] /\ wire["srv"][i + 1] = "hello" /\ i \in Nat /\ i >= 1
      BY <1>3, <1>5
    <2>2. i + 1 = 1
      BY <2>1 DEF HelloFirst
    <2> QED BY <2>1, <2>2
  <1>8. wire' \in [Dtls!Sides -> Seq(Dtls!Datagrams)]
    <2>1. Seq(ToServer) \subseteq Seq(Dtls!Datagrams) /\ Seq(ToClient) \subseteq Seq(Dtls!Datagrams)
      <3>1. ToServer \subseteq Dtls!Datagrams /\ ToClient \subseteq Dtls!Datagrams
        BY DEF ToServer, ToClient, Dtls!Datagrams
      <3> QED BY <3>1
    <2>2. \A s \in Dtls!Sides : wire'[s] \in Seq(Dtls!Datagrams)
      BY <1>3, <1>5, <1>6, <2>1, TwoSides
    <2>3. wire' = [s \in Dtls!Sides |-> wire'[s]]
      BY <1>1, <1>2
    <2> QED BY <2>2, <2>3, Zenon
  <1> QED BY <1>3, <1>5, <1>6, <1>7, <1>8

\* The client reads a datagram and sends out.
LEMMA ClientSends ==
  ASSUME DtlsTyped, HelloFirst, wire["cli"] # <<>>,
         NEW out \in Seq(FromClient), Dtls!Sends("cli", out)
  PROVE  /\ wire' \in [Dtls!Sides -> Seq(Dtls!Datagrams)]
         /\ wire'["srv"] \in Seq(ToServer) /\ wire'["cli"] \in Seq(ToClient)
         /\ \A i \in DOMAIN wire'["srv"] :
               wire'["srv"][i] = "hello" => i = 1 /\ conn["srv"] = "null"
         /\ Has(wire'["srv"], "data") => Has(wire["srv"], "data") \/ Has(out, "data")
         /\ \A m : Has(wire'["cli"], m) => Has(wire["cli"], m)
  <1>1. wire \in [Dtls!Sides -> Seq(Dtls!Datagrams)]
    BY DEF DtlsTyped
  <1>2. wire' = [wire EXCEPT !["cli"] = Tail(@), !["srv"] = @ \o out]
    BY TwoSides DEF Dtls!Sends
  <1>3. DOMAIN wire' = Dtls!Sides /\ wire'["cli"] = Tail(wire["cli"])
        /\ wire'["srv"] = wire["srv"] \o out
    BY <1>1, <1>2, TwoSides
  <1>4. /\ wire["srv"] \in Seq(ToServer) /\ wire["cli"] \in Seq(ToClient)
        /\ out \in Seq(ToServer)
    <2>1. FromClient \subseteq ToServer
      BY DEF FromClient, ToServer
    <2>2. out \in Seq(ToServer)
      BY <2>1
    <2> QED BY <2>2 DEF DtlsTyped
  <1>5. /\ Tail(wire["cli"]) \in Seq(ToClient)
        /\ \A m : Has(Tail(wire["cli"]), m) => Has(wire["cli"], m)
    BY <1>4, TakeHead
  <1>6. /\ wire["srv"] \o out \in Seq(ToServer)
        /\ \A i \in DOMAIN (wire["srv"] \o out) :
               \/ i \in DOMAIN wire["srv"] /\ (wire["srv"] \o out)[i] = wire["srv"][i]
               \/ \E j \in DOMAIN out : (wire["srv"] \o out)[i] = out[j]
        /\ Has(wire["srv"] \o out, "data") => Has(wire["srv"], "data") \/ Has(out, "data")
    BY <1>4, Enqueue
  <1>7. \A i \in DOMAIN wire'["srv"] :
               wire'["srv"][i] = "hello" => i = 1 /\ conn["srv"] = "null"
    <2>1. \A j \in DOMAIN out : out[j] # "hello"
      BY DEF FromClient
    <2> QED BY <1>3, <1>6, <2>1 DEF HelloFirst
  <1>8. wire' \in [Dtls!Sides -> Seq(Dtls!Datagrams)]
    <2>1. Seq(ToServer) \subseteq Seq(Dtls!Datagrams) /\ Seq(ToClient) \subseteq Seq(Dtls!Datagrams)
      <3>1. ToServer \subseteq Dtls!Datagrams /\ ToClient \subseteq Dtls!Datagrams
        BY DEF ToServer, ToClient, Dtls!Datagrams
      <3> QED BY <3>1
    <2>2. \A s \in Dtls!Sides : wire'[s] \in Seq(Dtls!Datagrams)
      BY <1>3, <1>5, <1>6, <2>1, TwoSides
    <2>3. wire' = [s \in Dtls!Sides |-> wire'[s]]
      BY <1>1, <1>2
    <2> QED BY <2>2, <2>3, Zenon
  <1> QED BY <1>3, <1>5, <1>6, <1>7, <1>8

-----------------------------------------------------------------------------
(* DTLS: the steps outside the handlers.                                   *)

LEMMA InitDtlsInv == Dtls!Init => DtlsInv
  <1> SUFFICES ASSUME Dtls!Init PROVE DtlsInv
    OBVIOUS
  <1> USE TwoSides DEF Dtls!Init
  <1>1. /\ \A S : <<>> \in Seq(S)
        /\ DOMAIN <<>> = {} /\ MaxStray \in Nat
    BY MaxStrayAssumption
  <1>2. DtlsTyped
    <2>1. /\ wire \in [Dtls!Sides -> Seq(Dtls!Datagrams)]
          /\ wire["srv"] \in Seq(ToServer) /\ wire["cli"] \in Seq(ToClient)
      BY <1>1
    <2>2. /\ conn \in [Dtls!Sides -> {"null", "shaking", "up", "stranger", "guest"}]
          /\ refs \in [Dtls!Sides -> Int] /\ n \in [Dtls!Counters -> Nat]
          /\ err \in [now : BOOLEAN, ever : BOOLEAN] /\ stray \in 0..MaxStray
      BY <1>1
    <2>3. /\ at \in {"setup", "poll", "serve", "verify", "done"} /\ polling \in BOOLEAN
          /\ sockets \subseteq Dtls!Sides /\ late \in BOOLEAN /\ result = "none"
      OBVIOUS
    <2> QED BY <2>1, <2>2, <2>3 DEF DtlsTyped
  <1>3. Before /\ HelloFirst /\ Ready /\ ErrorIsLast
    BY <1>1 DEF Before, HelloFirst, Ready, ErrorIsLast
  <1>4. Causes
    BY <1>1 DEF Causes, Has, Dtls!Counters
  <1>5. ReleasedOnce /\ VerifiedIsSpotless
    BY DEF ReleasedOnce, Dtls!ReleasedOnce, VerifiedIsSpotless, Dtls!VerifiedIsSpotless
  <1> QED BY <1>2, <1>3, <1>4, <1>5 DEF DtlsInv

LEMMA DtlsSetupStep == ASSUME DtlsInv, Dtls!Setup PROVE DtlsInv'
  <1> USE TwoSides DEF Dtls!Setup
  <1>1. CASE at' = "poll"
    <2>1. /\ polling' = TRUE /\ conn' = [conn EXCEPT !["cli"] = "shaking"]
          /\ refs' = [refs EXCEPT !["cli"] = 1] /\ wire' = [wire EXCEPT !["srv"] = <<"hello">>]
          /\ UNCHANGED <<result, sockets, late, n, err, stray>> /\ at = "setup"
      BY <1>1
    <2>2. /\ wire'["srv"] = <<"hello">> /\ wire'["cli"] = <<>>
          /\ conn'["srv"] = "null" /\ conn'["cli"] = "shaking"
          /\ refs'["srv"] = refs["srv"] /\ refs'["cli"] = 1
          /\ sockets = {} /\ err.ever = FALSE /\ result = "none"
      BY <2>1 DEF DtlsInv, DtlsTyped, Before
    <2>3. /\ <<"hello">> \in Seq(ToServer) /\ <<"hello">> \in Seq(Dtls!Datagrams)
          /\ <<>> \in Seq(ToClient) /\ DOMAIN <<"hello">> = {1} /\ <<"hello">>[1] = "hello"
      BY DEF ToServer, Dtls!Datagrams
    <2>4. wire' \in [Dtls!Sides -> Seq(Dtls!Datagrams)]
      BY <2>1, <2>3 DEF DtlsInv, DtlsTyped
    <2>5. DtlsTyped'
      BY <1>1, <2>1, <2>2, <2>3, <2>4 DEF DtlsInv, DtlsTyped
    <2>6. Before' /\ HelloFirst' /\ Ready' /\ ErrorIsLast'
      BY <1>1, <2>1, <2>2, <2>3 DEF Before, HelloFirst, Ready, ErrorIsLast
    <2>7. Causes'
      BY <2>1, <2>2, <2>3 DEF DtlsInv, Causes, Has
    <2>8. ReleasedOnce' /\ VerifiedIsSpotless'
      BY <1>1, <2>1, <2>2 DEF DtlsInv, Before, ReleasedOnce, Dtls!ReleasedOnce, VerifiedIsSpotless,
                        Dtls!VerifiedIsSpotless
    <2> QED BY <2>5, <2>6, <2>7, <2>8 DEF DtlsInv
  <1>2. CASE at' = "done" /\ result' \in {"setup", "skipped"} /\ UNCHANGED <<polling, conn, refs, wire>>
    <2>1. DtlsTyped'
      BY <1>2 DEF DtlsInv, DtlsTyped
    <2>2. Before' /\ HelloFirst' /\ Ready' /\ ErrorIsLast' /\ Causes'
      BY <1>2 DEF DtlsInv, Before, HelloFirst, Ready, ErrorIsLast, Causes, Has, Twice
    <2>3. ReleasedOnce' /\ VerifiedIsSpotless'
      BY <1>2 DEF DtlsInv, Before, ReleasedOnce, Dtls!ReleasedOnce, VerifiedIsSpotless,
                  Dtls!VerifiedIsSpotless
    <2> QED BY <2>1, <2>2, <2>3 DEF DtlsInv
  <1> QED BY <1>1, <1>2

LEMMA DtlsPollStep == ASSUME DtlsInv, Dtls!Poll PROVE DtlsInv'
  <1> USE TwoSides DEF Dtls!Poll
  <1>1. DtlsTyped'
    BY DEF DtlsInv, DtlsTyped
  <1>2. Before' /\ HelloFirst' /\ Causes' /\ Ready'
    BY DEF DtlsInv, Before, HelloFirst, Causes, Has, Ready
  <1>3. ErrorIsLast'
    BY DEF DtlsInv, ErrorIsLast, Twice
  <1>4. ReleasedOnce' /\ VerifiedIsSpotless'
    BY DEF DtlsInv, Before, ReleasedOnce, Dtls!ReleasedOnce, VerifiedIsSpotless,
           Dtls!VerifiedIsSpotless
  <1> QED BY <1>1, <1>2, <1>3, <1>4 DEF DtlsInv

LEMMA DtlsTimersStep == ASSUME DtlsInv, Dtls!Timers PROVE DtlsInv'
  <1> USE TwoSides DEF Dtls!Timers
  <1>1. DtlsTyped'
    BY DEF DtlsInv, DtlsTyped
  <1>2. Before' /\ HelloFirst' /\ Causes' /\ Ready'
    BY DEF DtlsInv, Before, HelloFirst, Causes, Has, Ready
  <1>3. ErrorIsLast'
    BY DEF DtlsInv, ErrorIsLast, Twice
  <1>4. ReleasedOnce' /\ VerifiedIsSpotless'
    BY DEF DtlsInv, Before, ReleasedOnce, Dtls!ReleasedOnce, VerifiedIsSpotless,
           Dtls!VerifiedIsSpotless
  <1> QED BY <1>1, <1>2, <1>3, <1>4 DEF DtlsInv

\* The queues change and nothing else: none has anything new of what matters.
LEMMA NetworkStep ==
  ASSUME DtlsInv, at \in {"poll", "serve"}, stray' \in 0..MaxStray,
         wire' \in [Dtls!Sides -> Seq(Dtls!Datagrams)],
         wire'["srv"] \in Seq(ToServer), wire'["cli"] \in Seq(ToClient),
         \A i \in DOMAIN wire'["srv"] : wire'["srv"][i] = "hello" => i = 1 /\ conn["srv"] = "null",
         Has(wire'["srv"], "data") => Has(wire["srv"], "data"),
         \A m : Has(wire'["cli"], m) => Has(wire["cli"], m),
         "cli" \in sockets => wire'["cli"] = wire["cli"],
         UNCHANGED <<at, polling, sockets, late, conn, refs, n, err, result>>
  PROVE  DtlsInv'
  <1>1. DtlsTyped'
    BY DEF DtlsInv, DtlsTyped
  <1>2. Before' /\ HelloFirst' /\ Causes'
    BY DEF DtlsInv, Before, HelloFirst, Causes
  <1>3. Ready' /\ ErrorIsLast'
    BY DEF DtlsInv, Ready, ErrorIsLast, Twice
  <1>4. ReleasedOnce' /\ VerifiedIsSpotless'
    BY DEF DtlsInv, Before, ReleasedOnce, Dtls!ReleasedOnce, VerifiedIsSpotless,
           Dtls!VerifiedIsSpotless
  <1> QED BY <1>1, <1>2, <1>3, <1>4 DEF DtlsInv

LEMMA LoseStep == ASSUME DtlsInv, NEW s \in Dtls!Sides, Dtls!Lose(s) PROVE DtlsInv'
  <1> USE DEF Dtls!Lose, Dtls!loopVars
  <1>1. /\ wire \in [Dtls!Sides -> Seq(Dtls!Datagrams)]
        /\ wire["srv"] \in Seq(ToServer) /\ wire["cli"] \in Seq(ToClient) /\ wire[s] # <<>>
        /\ stray \in 0..MaxStray
    BY DEF DtlsInv, DtlsTyped
  <1>2. /\ wire' = [wire EXCEPT ![s] = Tail(wire[s])]
        /\ Tail(wire[s]) \in Seq(Dtls!Datagrams)
    BY <1>1
  <1>3. wire' \in [Dtls!Sides -> Seq(Dtls!Datagrams)]
    BY <1>1, <1>2
  <1>4. CASE s = "srv"
    <2>1. wire'["srv"] = Tail(wire["srv"]) /\ wire'["cli"] = wire["cli"]
      BY <1>1, <1>2, <1>4, TwoSides
    <2>2. /\ Tail(wire["srv"]) \in Seq(ToServer)
          /\ \A i \in DOMAIN Tail(wire["srv"]) :
                /\ i \in Nat /\ i >= 1 /\ i + 1 \in DOMAIN wire["srv"]
                /\ Tail(wire["srv"])[i] = wire["srv"][i + 1]
          /\ Has(Tail(wire["srv"]), "data") => Has(wire["srv"], "data")
      BY <1>1, <1>4, TakeHead
    <2>3. \A i \in DOMAIN wire'["srv"] :
             wire'["srv"][i] = "hello" => i = 1 /\ conn["srv"] = "null"
      <3>1. \A i \in DOMAIN wire'["srv"] : i + 1 # 1
        BY <2>1, <2>2
      <3> QED BY <2>1, <2>2, <3>1 DEF DtlsInv, HelloFirst
    <2> QED BY <1>1, <1>3, <2>1, <2>2, <2>3, NetworkStep
  <1>5. CASE s = "cli"
    <2>1. wire'["cli"] = Tail(wire["cli"]) /\ wire'["srv"] = wire["srv"]
      BY <1>1, <1>2, <1>5, TwoSides
    <2>2. /\ Tail(wire["cli"]) \in Seq(ToClient)
          /\ \A m : Has(Tail(wire["cli"]), m) => Has(wire["cli"], m)
      BY <1>1, <1>5, TakeHead
    <2>3. \A i \in DOMAIN wire'["srv"] :
             wire'["srv"][i] = "hello" => i = 1 /\ conn["srv"] = "null"
      BY <2>1 DEF DtlsInv, HelloFirst
    <2> QED BY <1>1, <1>3, <1>5, <2>1, <2>2, <2>3, NetworkStep
  <1> QED BY <1>4, <1>5, TwoSides

LEMMA IntrudesStep == ASSUME DtlsInv, Dtls!Intrudes PROVE DtlsInv'
  <1> USE DEF Dtls!Intrudes, Dtls!loopVars
  <1>1. /\ wire \in [Dtls!Sides -> Seq(Dtls!Datagrams)]
        /\ wire["srv"] \in Seq(ToServer) /\ wire["cli"] \in Seq(ToClient)
        /\ stray' \in 0..MaxStray
    BY MaxStrayAssumption DEF DtlsInv, DtlsTyped
  <1>2. PICK m \in {"stray", "stranger"} : wire' = [wire EXCEPT !["srv"] = Append(@, m)]
    OBVIOUS
  <1>3. m \in ToServer /\ m \in Dtls!Datagrams
    BY DEF ToServer, Dtls!Datagrams
  <1>4. /\ wire'["srv"] = Append(wire["srv"], m) /\ wire'["cli"] = wire["cli"]
        /\ wire' \in [Dtls!Sides -> Seq(Dtls!Datagrams)] /\ wire'["srv"] \in Seq(ToServer)
    BY <1>1, <1>2, <1>3, TwoSides
  <1>5. \A i \in DOMAIN wire'["srv"] :
           wire'["srv"][i] = m \/ (i \in DOMAIN wire["srv"] /\ wire'["srv"][i] = wire["srv"][i])
    BY <1>1, <1>4
  <1>6. /\ \A i \in DOMAIN wire'["srv"] :
              wire'["srv"][i] = "hello" => i = 1 /\ conn["srv"] = "null"
        /\ Has(wire'["srv"], "data") => Has(wire["srv"], "data")
    BY <1>5 DEF DtlsInv, HelloFirst, Has
  <1> QED BY <1>1, <1>4, <1>6, NetworkStep

LEMMA VerifyStep == ASSUME DtlsInv, Dtls!Verify PROVE DtlsInv'
  <1> USE TwoSides DEF Dtls!Verify
  <1>1. Dtls!Outcome \in {"timeout", "aborted", "count", "name", "OK"}
    BY DEF Dtls!Outcome
  <1>2. DtlsTyped'
    BY <1>1 DEF DtlsInv, DtlsTyped
  <1>3. Before' /\ HelloFirst' /\ Causes' /\ Ready' /\ ErrorIsLast'
    BY DEF DtlsInv, Before, HelloFirst, Causes, Has, Ready, ErrorIsLast, Twice
  <1>4. ReleasedOnce'
    BY DEF DtlsInv, DtlsTyped, ReleasedOnce, Dtls!ReleasedOnce
  <1>5. VerifiedIsSpotless'
    <2>1. result' \in {"name", "OK"} => ~late /\ ~err.now /\ \A c \in Dtls!Counters : n[c] = 1
      BY DEF Dtls!Outcome
    <2>2. (\A c \in Dtls!Counters : n[c] = 1) => ~Twice
      BY DEF Twice
    <2>3. result' \in {"name", "OK"} => ~err.ever
      BY <2>1, <2>2 DEF DtlsInv, ErrorIsLast
    <2> QED BY <2>1, <2>3 DEF VerifiedIsSpotless, Dtls!VerifiedIsSpotless
  <1> QED BY <1>2, <1>3, <1>4, <1>5 DEF DtlsInv

-----------------------------------------------------------------------------
(* DTLS: the handlers.                                                     *)

\* Counters only grow.
Grow == n' \in [Dtls!Counters -> Nat] /\ \A c \in Dtls!Counters : n'[c] >= n[c]

LEMMA GrowTwice == ASSUME DtlsTyped, Grow, Twice PROVE Twice'
  <1>1. PICK c \in Dtls!Counters : n[c] >= 2
    BY DEF Twice
  <1>2. n[c] \in Nat /\ n'[c] \in Nat /\ n'[c] >= n[c]
    BY DEF DtlsTyped, Grow
  <1> QED BY <1>1, <1>2 DEF Twice

LEMMA CountsGrow ==
  ASSUME DtlsTyped, NEW c \in Dtls!Counters, Dtls!Counts(c)
  PROVE  Grow /\ n'[c] = n[c] + 1 /\ \A d \in Dtls!Counters : d # c => n'[d] = n[d]
  BY DEF DtlsTyped, Grow, Dtls!Counts

\* abort_test(EPROTO or another error)
LEMMA AbortFacts ==
  ASSUME DtlsTyped, Dtls!Abort(TRUE)
  PROVE  /\ err' \in [now : BOOLEAN, ever : BOOLEAN] /\ err'.now = TRUE /\ polling' = FALSE
  <1>1. (err.ever \/ TRUE) \in BOOLEAN
    OBVIOUS
  <1> QED BY <1>1 DEF Dtls!Abort

\* One handler of the server: the datagram is read, out is sent, the error is
\* as it was or was reported by a handler that had run before.
LEMMA ServerStep ==
  ASSUME DtlsInv, at = "serve", sockets' = sockets \ {"srv"}, wire["srv"] # <<>>,
         UNCHANGED <<at, late, stray, result>>,
         NEW out \in Seq(ToClient), Dtls!Sends("srv", out),
         NEW c, c \in {"null", "shaking", "up", "stranger", "guest"}, conn' = [conn EXCEPT !["srv"] = c],
         NEW r \in Int, refs' = [refs EXCEPT !["srv"] = r], r = IF c = "null" THEN 0 ELSE 1,
         Grow,
         c # "null" => n'["conn"] >= 1,
         c = "guest" => n'["srv_estab"] >= 1,
         Has(out, "flight4") => n'["srv_estab"] >= 1,
         Has(out, "echo") => n'["srv_recv"] >= 1,
         n'["srv_recv"] >= 1 => n'["srv_estab"] >= 1,
         n'["srv_estab"] >= 1 => n'["conn"] >= 1,
         \/ UNCHANGED <<err, polling>>
         \/ /\ err' \in [now : BOOLEAN, ever : BOOLEAN] /\ err'.now = TRUE /\ polling' = FALSE
            /\ Has(wire["cli"], "echo") => Twice'
  PROVE  DtlsInv'
  <1>1. DtlsTyped /\ HelloFirst
    BY DEF DtlsInv
  <1>2. /\ wire' \in [Dtls!Sides -> Seq(Dtls!Datagrams)]
        /\ wire'["srv"] \in Seq(ToServer) /\ wire'["cli"] \in Seq(ToClient)
        /\ \A i \in DOMAIN wire'["srv"] : wire'["srv"][i] # "hello"
        /\ Has(wire'["srv"], "data") => Has(wire["srv"], "data")
        /\ \A m : Has(wire'["cli"], m) => Has(wire["cli"], m) \/ Has(out, m)
        /\ wire["cli"] # <<>> => wire'["cli"] # <<>> /\ Head(wire'["cli"]) = Head(wire["cli"])
    BY <1>1, ServerSends
  <1>3. /\ conn'["srv"] = c /\ conn'["cli"] = conn["cli"]
        /\ refs'["srv"] = r /\ refs'["cli"] = refs["cli"]
        /\ conn' \in [Dtls!Sides -> {"null", "shaking", "up", "stranger", "guest"}]
        /\ refs' \in [Dtls!Sides -> Int]
    BY <1>1, TwoSides DEF DtlsTyped
  <1>4. DtlsTyped'
    BY <1>1, <1>2, <1>3 DEF DtlsTyped, Grow
  <1>5. Before' /\ HelloFirst' /\ Ready'
    BY <1>2 DEF DtlsInv, Before, HelloFirst, Ready
  <1>6. Causes'
    <2>1. /\ n["srv_estab"] \in Nat /\ n'["srv_estab"] \in Nat /\ n'["srv_estab"] >= n["srv_estab"]
          /\ n["srv_recv"] \in Nat /\ n'["srv_recv"] \in Nat /\ n'["srv_recv"] >= n["srv_recv"]
      BY <1>1 DEF DtlsTyped, Grow, Dtls!Counters
    <2> QED BY <1>2, <1>3, <2>1 DEF DtlsInv, Causes
  <1>7. ErrorIsLast'
    <2>1. "cli" \in sockets' /\ Head(wire'["cli"]) = "echo" =>
             /\ "cli" \in sockets /\ Head(wire["cli"]) = "echo" /\ Has(wire["cli"], "echo")
      <3>1. "cli" \in sockets => wire["cli"] # <<>>
        BY DEF DtlsInv, Ready
      <3>2. wire["cli"] # <<>> => 1 \in DOMAIN wire["cli"] /\ Head(wire["cli"]) = wire["cli"][1]
        BY <1>1, TakeHead DEF DtlsTyped
      <3> QED BY <1>2, <3>1, <3>2 DEF Has
    <2>2. Twice => Twice'
      BY <1>1, GrowTwice
    <2>3. CASE UNCHANGED <<err, polling>>
      BY <2>1, <2>2, <2>3 DEF DtlsInv, ErrorIsLast
    <2>4. CASE /\ err'.now = TRUE /\ polling' = FALSE
               /\ Has(wire["cli"], "echo") => Twice'
      BY <2>1, <2>4 DEF ErrorIsLast
    <2> QED BY <2>3, <2>4
  <1>8. ReleasedOnce' /\ VerifiedIsSpotless'
    BY <1>3, TwoSides DEF DtlsInv, Before, ReleasedOnce, Dtls!ReleasedOnce, VerifiedIsSpotless,
                Dtls!VerifiedIsSpotless
  <1> QED BY <1>4, <1>5, <1>6, <1>7, <1>8 DEF DtlsInv

\* One handler of the client. It may clear the error.
LEMMA ClientStep ==
  ASSUME DtlsInv, at = "serve", sockets' = sockets \ {"cli"}, wire["cli"] # <<>>,
         UNCHANGED <<at, late, stray, result>>,
         NEW out \in Seq(FromClient), Dtls!Sends("cli", out),
         NEW c, c \in {"null", "shaking", "up", "stranger", "guest"}, conn' = [conn EXCEPT !["cli"] = c],
         NEW r \in Int, refs' = [refs EXCEPT !["cli"] = r], r = IF c = "null" THEN 0 ELSE 1,
         Grow,
         \A d \in {"conn", "srv_estab", "srv_recv"} : n'[d] = n[d],
         Has(out, "data") => n["srv_estab"] >= 1,
         \/ UNCHANGED <<err, polling>>
         \/ /\ err' \in [now : BOOLEAN, ever : BOOLEAN] /\ polling' = FALSE
            /\ err'.ever => err'.now \/ Twice'
  PROVE  DtlsInv'
  <1>1. DtlsTyped /\ HelloFirst
    BY DEF DtlsInv
  <1>2. /\ wire' \in [Dtls!Sides -> Seq(Dtls!Datagrams)]
        /\ wire'["srv"] \in Seq(ToServer) /\ wire'["cli"] \in Seq(ToClient)
        /\ \A i \in DOMAIN wire'["srv"] :
              wire'["srv"][i] = "hello" => i = 1 /\ conn["srv"] = "null"
        /\ Has(wire'["srv"], "data") => Has(wire["srv"], "data") \/ Has(out, "data")
        /\ \A m : Has(wire'["cli"], m) => Has(wire["cli"], m)
    BY <1>1, ClientSends
  <1>3. /\ conn'["cli"] = c /\ conn'["srv"] = conn["srv"]
        /\ refs'["cli"] = r /\ refs'["srv"] = refs["srv"]
        /\ conn' \in [Dtls!Sides -> {"null", "shaking", "up", "stranger", "guest"}]
        /\ refs' \in [Dtls!Sides -> Int]
    BY <1>1, TwoSides DEF DtlsTyped
  <1>4. DtlsTyped'
    BY <1>1, <1>2, <1>3 DEF DtlsTyped, Grow
  <1>5. Before' /\ HelloFirst' /\ Ready'
    BY <1>2, <1>3 DEF DtlsInv, Before, HelloFirst, Ready
  <1>6. Causes'
    BY <1>2, <1>3 DEF DtlsInv, Causes
  <1>7. ErrorIsLast'
    <2>1. Twice => Twice'
      BY <1>1, GrowTwice
    <2> QED BY <2>1 DEF DtlsInv, ErrorIsLast
  <1>8. ReleasedOnce' /\ VerifiedIsSpotless'
    BY <1>3, TwoSides DEF DtlsInv, Before, ReleasedOnce, Dtls!ReleasedOnce, VerifiedIsSpotless,
                Dtls!VerifiedIsSpotless
  <1> QED BY <1>4, <1>5, <1>6, <1>7, <1>8 DEF DtlsInv

\* What the server finds when it reads m.
LEMMA ServerTakes ==
  ASSUME DtlsInv, NEW m, Dtls!Takes("srv", m)
  PROVE  /\ at = "serve" /\ sockets' = sockets \ {"srv"} /\ wire["srv"] # <<>>
         /\ UNCHANGED <<at, late, stray, result>>
         /\ m \in ToServer /\ (m = "hello" => conn["srv"] = "null")
         /\ Has(wire["srv"], m)
         /\ conn = [conn EXCEPT !["srv"] = conn["srv"]]
         /\ refs = [refs EXCEPT !["srv"] = refs["srv"]]
         /\ conn["srv"] \in {"null", "shaking", "up", "stranger", "guest"}
         /\ refs["srv"] \in Int /\ refs["srv"] = IF conn["srv"] = "null" THEN 0 ELSE 1
  <1>1. /\ at = "serve" /\ sockets' = sockets \ {"srv"} /\ wire["srv"] # <<>>
        /\ UNCHANGED <<at, late, stray, result>> /\ Head(wire["srv"]) = m
    BY DEF Dtls!Takes
  <1>2. wire["srv"] \in Seq(ToServer)
    BY DEF DtlsInv, DtlsTyped
  <1>3. m \in ToServer /\ 1 \in DOMAIN wire["srv"] /\ wire["srv"][1] = m
    BY <1>1, <1>2, TakeHead
  <1>4. (m = "hello" => conn["srv"] = "null") /\ Has(wire["srv"], m)
    BY <1>3 DEF DtlsInv, HelloFirst, Has
  <1>5. /\ conn = [conn EXCEPT !["srv"] = conn["srv"]]
        /\ refs = [refs EXCEPT !["srv"] = refs["srv"]]
        /\ conn["srv"] \in {"null", "shaking", "up", "stranger", "guest"} /\ refs["srv"] \in Int
    BY TwoSides DEF DtlsInv, DtlsTyped
  <1>6. refs["srv"] = IF conn["srv"] = "null" THEN 0 ELSE 1
    BY TwoSides DEF DtlsInv, ReleasedOnce, Dtls!ReleasedOnce
  <1> QED BY <1>1, <1>3, <1>4, <1>5, <1>6

\* The counters that Causes is about.
LEMMA CountedNats ==
  ASSUME DtlsTyped
  PROVE  /\ {"conn", "srv_estab", "srv_recv", "cli_estab", "cli_recv"} \subseteq Dtls!Counters
         /\ n["conn"] \in Nat /\ n["srv_estab"] \in Nat /\ n["srv_recv"] \in Nat
  BY DEF DtlsTyped, Dtls!Counters

\* A message that is not in what is sent.
LEMMA SendsOne == ASSUME NEW S, NEW d \in S
                  PROVE  <<d>> \in Seq(S) /\ (\A m : Has(<<d>>, m) => m = d)
  BY DEF Has

LEMMA SendsNothing == ASSUME NEW S PROVE <<>> \in Seq(S) /\ (\A m : ~Has(<<>>, m))
  BY DEF Has

LEMMA ConnHandlerStep ==
  ASSUME DtlsInv, NEW m, Dtls!Takes("srv", m), Dtls!conn_handler(m) PROVE DtlsInv'
  <1>1. DtlsTyped /\ Causes
    BY DEF DtlsInv
  <1>2. Grow /\ n'["conn"] = n["conn"] + 1 /\ \A d \in Dtls!Counters : d # "conn" => n'[d] = n[d]
    BY <1>1, CountedNats, CountsGrow DEF Dtls!conn_handler
  <1>3. /\ n'["conn"] >= 1 /\ n'["srv_recv"] = n["srv_recv"] /\ n'["srv_estab"] = n["srv_estab"]
        /\ (n'["srv_recv"] >= 1 => n'["srv_estab"] >= 1)
        /\ (conn["srv"] = "guest" => n'["srv_estab"] >= 1)
    BY <1>1, <1>2, CountedNats DEF Causes
  <1>4. CASE /\ conn["srv"] = "null" /\ m \in {"hello", "stranger"}
             /\ conn' = [conn EXCEPT !["srv"] = IF m = "hello" THEN "shaking" ELSE m]
             /\ refs' = [refs EXCEPT !["srv"] = @ + 1]
             /\ Dtls!Sends("srv", IF m = "hello" THEN <<"flight2">> ELSE <<>>)
             /\ Dtls!GoesOn
    <2>0. /\ at = "serve" /\ sockets' = sockets \ {"srv"} /\ wire["srv"] # <<>>
          /\ UNCHANGED <<at, late, stray, result>>
      BY ServerTakes
    <2>1. refs' = [refs EXCEPT !["srv"] = 1]
      <3>1. refs["srv"] = 0
        BY <1>4, ServerTakes
      <3>2. refs' = [refs EXCEPT !["srv"] = refs["srv"] + 1]
        BY <1>4
      <3> QED BY <3>1, <3>2
    <2>2. UNCHANGED <<err, polling>>
      BY <1>4 DEF Dtls!GoesOn
    <2>3. CASE m = "hello"
      <3>1. Dtls!Sends("srv", <<"flight2">>) /\ conn' = [conn EXCEPT !["srv"] = "shaking"]
        BY <1>4, <2>3
      <3>2. <<"flight2">> \in Seq(ToClient) /\ ~Has(<<"flight2">>, "flight4") /\ ~Has(<<"flight2">>, "echo")
        <4>1. "flight2" \in ToClient
          BY DEF ToClient
        <4> QED BY <4>1, SendsOne
      <3>3. 1 \in Int /\ 1 = IF "shaking" = "null" THEN 0 ELSE 1
        OBVIOUS
      <3> QED BY <1>2, <1>3, <2>1, <2>2, <3>1, <3>2, <2>0, <3>3, ServerStep, Zenon
    <2>4. CASE m = "stranger"
      <3>1. Dtls!Sends("srv", <<>>) /\ conn' = [conn EXCEPT !["srv"] = "stranger"]
        BY <1>4, <2>4
      <3>2. <<>> \in Seq(ToClient) /\ ~Has(<<>>, "flight4") /\ ~Has(<<>>, "echo")
        BY SendsNothing
      <3>3. 1 \in Int /\ 1 = IF "stranger" = "null" THEN 0 ELSE 1
        OBVIOUS
      <3> QED BY <1>2, <1>3, <2>1, <2>2, <3>1, <3>2, <2>0, <3>3, ServerStep, Zenon
    <2> QED BY <1>4, <2>3, <2>4
  <1>5. CASE Dtls!Sends("srv", <<>>) /\ Dtls!Abort(TRUE) /\ UNCHANGED <<conn, refs>>
    <2>1. /\ err' \in [now : BOOLEAN, ever : BOOLEAN] /\ err'.now = TRUE /\ polling' = FALSE
      BY <1>1, <1>5, AbortFacts
    <2>2. Has(wire["cli"], "echo") => Twice'
      <3>1. Has(wire["cli"], "echo") => n'["conn"] >= 2
        BY <1>1, <1>2, CountedNats DEF Causes
      <3> QED BY <3>1, CountedNats, <1>1 DEF Twice
    <2>3. <<>> \in Seq(ToClient) /\ ~Has(<<>>, "flight4") /\ ~Has(<<>>, "echo")
      BY SendsNothing
    <2>4. conn' = [conn EXCEPT !["srv"] = conn["srv"]] /\ refs' = [refs EXCEPT !["srv"] = refs["srv"]]
      BY <1>5, ServerTakes
    <2> QED BY <1>2, <1>3, <1>5, <2>1, <2>2, <2>3, <2>4, ServerTakes, ServerStep
  <1> QED BY <1>4, <1>5 DEF Dtls!conn_handler

\* With the client its last flight is sent, with a stranger nothing that the
\* client would see.
LEMMA SrvEstabStep ==
  ASSUME DtlsInv, NEW m, Dtls!Takes("srv", m), conn["srv"] # "null",
         NEW state \in {"up", "guest"}, NEW flight \in {<<>>, <<"flight4">>},
         Dtls!srv_estab_handler(state, flight)
  PROVE  DtlsInv'
  <1> USE DEF Dtls!srv_estab_handler
  <1>1. DtlsTyped /\ Causes
    BY DEF DtlsInv
  <1>2. /\ Grow /\ n'["srv_estab"] = n["srv_estab"] + 1
        /\ \A d \in Dtls!Counters : d # "srv_estab" => n'[d] = n[d]
    BY <1>1, CountedNats, CountsGrow
  <1>3. /\ n'["conn"] >= 1 /\ n'["srv_estab"] >= 1
    BY <1>1, <1>2, CountedNats DEF Causes
  <1>4. flight \in Seq(ToClient) /\ ~Has(flight, "echo")
    <2>1. "flight4" \in ToClient
      BY DEF ToClient
    <2>2. CASE flight = <<>>
      BY <2>2, SendsNothing
    <2>3. CASE flight = <<"flight4">>
      BY <2>1, <2>3, SendsOne
    <2> QED BY <2>2, <2>3
  <1>5. \/ UNCHANGED <<err, polling>>
        \/ /\ err' \in [now : BOOLEAN, ever : BOOLEAN] /\ err'.now = TRUE /\ polling' = FALSE
           /\ Has(wire["cli"], "echo") => Twice'
    <2>1. Has(wire["cli"], "echo") => n'["srv_estab"] >= 2
      BY <1>1, <1>2, CountedNats DEF Causes
    <2>2. Has(wire["cli"], "echo") => Twice'
      BY <2>1, CountedNats, <1>1 DEF Twice
    <2>3. CASE Dtls!GoesOn
      BY <2>3 DEF Dtls!GoesOn
    <2>4. CASE Dtls!Abort(TRUE)
      BY <1>1, <2>2, <2>4, AbortFacts
    <2> QED BY <2>3, <2>4
  <1>6. Dtls!Sends("srv", flight) /\ conn' = [conn EXCEPT !["srv"] = state]
    OBVIOUS
  <1>7. refs' = [refs EXCEPT !["srv"] = 1]
    BY ServerTakes
  <1> QED BY <1>2, <1>3, <1>4, <1>5, <1>6, <1>7, ServerTakes, ServerStep

\* What comes from the client, or from a stranger that is established, is echoed
\* to it.
LEMMA SrvRecvStep ==
  ASSUME DtlsInv, NEW m, Dtls!Takes("srv", m), m = "data" \/ conn["srv"] = "guest",
         NEW echo \in {<<>>, <<"echo">>}, Dtls!srv_recv_handler(echo)
  PROVE  DtlsInv'
  <1> USE DEF Dtls!srv_recv_handler
  <1>1. DtlsTyped /\ Causes
    BY DEF DtlsInv
  <1>2. /\ Grow /\ n'["srv_recv"] = n["srv_recv"] + 1
        /\ \A d \in Dtls!Counters : d # "srv_recv" => n'[d] = n[d]
    BY <1>1, CountedNats, CountsGrow
  <1>3. n'["conn"] >= 1 /\ n'["srv_estab"] >= 1 /\ n'["srv_recv"] >= 1
    <2>1. Has(wire["srv"], "data") \/ conn["srv"] = "guest"
      BY ServerTakes
    <2> QED BY <1>1, <1>2, <2>1, CountedNats DEF Causes
  <1>4. /\ conn' = [conn EXCEPT !["srv"] = conn["srv"]]
        /\ refs' = [refs EXCEPT !["srv"] = refs["srv"]]
    BY ServerTakes
  <1>5. Has(wire["cli"], "echo") => Twice'
    <2>1. Has(wire["cli"], "echo") => n'["srv_recv"] >= 2
      BY <1>1, <1>2, CountedNats DEF Causes
    <2> QED BY <2>1, CountedNats, <1>1 DEF Twice
  <1>6. CASE Dtls!Sends("srv", echo) /\ Dtls!GoesOn
    <2>1. echo \in Seq(ToClient)
      <3>1. <<"echo">> \in Seq(ToClient) /\ <<>> \in Seq(ToClient)
        BY SendsOne, SendsNothing DEF ToClient
      <3> QED BY <3>1
    <2>2. UNCHANGED <<err, polling>>
      BY <1>6 DEF Dtls!GoesOn
    <2> QED BY <1>2, <1>3, <1>4, <1>6, <2>1, <2>2, ServerTakes, ServerStep
  <1>7. CASE Dtls!Sends("srv", <<>>) /\ Dtls!Abort(TRUE)
    <2>1. /\ err' \in [now : BOOLEAN, ever : BOOLEAN] /\ err'.now = TRUE /\ polling' = FALSE
      BY <1>1, <1>7, AbortFacts
    <2>2. <<>> \in Seq(ToClient)
      BY SendsNothing
    <2> QED BY <1>2, <1>3, <1>4, <1>5, <1>7, <2>1, <2>2, ServerTakes, ServerStep
  <1> QED BY <1>6, <1>7

\* The server's connection is closed, with or without an alert.
LEMMA SrvClosesStep ==
  ASSUME DtlsInv, NEW m, Dtls!Takes("srv", m), conn["srv"] # "null",
         Dtls!Closes("srv"), NEW out \in {<<>>, <<"alert">>}, Dtls!Sends("srv", out)
  PROVE  DtlsInv'
  <1>1. DtlsTyped /\ Causes
    BY DEF DtlsInv
  <1>2. UNCHANGED <<n, err, polling>> /\ conn' = [conn EXCEPT !["srv"] = "null"]
    BY DEF Dtls!Closes, Dtls!Close, Dtls!GoesOn
  <1>3. refs' = [refs EXCEPT !["srv"] = 0]
    <2>1. refs["srv"] = 1
      BY ServerTakes
    <2>2. refs' = [refs EXCEPT !["srv"] = refs["srv"] - 1]
      BY DEF Dtls!Closes, Dtls!Close
    <2> QED BY <2>1, <2>2
  <1>4. Grow /\ (n'["srv_recv"] >= 1 => n'["srv_estab"] >= 1)
        /\ (n'["srv_estab"] >= 1 => n'["conn"] >= 1)
    <2>1. Grow
      BY <1>1, <1>2 DEF DtlsTyped, Grow
    <2> QED BY <1>1, <1>2, <2>1 DEF Causes
  <1>5. out \in Seq(ToClient) /\ ~Has(out, "flight4") /\ ~Has(out, "echo")
    <2>1. "alert" \in ToClient
      BY DEF ToClient
    <2>2. CASE out = <<>>
      BY <2>2, SendsNothing
    <2>3. CASE out = <<"alert">>
      BY <2>1, <2>3, SendsOne
    <2> QED BY <2>2, <2>3
  <1>6. /\ at = "serve" /\ sockets' = sockets \ {"srv"} /\ wire["srv"] # <<>>
        /\ UNCHANGED <<at, late, stray, result>>
    BY ServerTakes
  <1>7. 0 \in Int /\ 0 = IF "null" = "null" THEN 0 ELSE 1
    OBVIOUS
  <1> QED BY <1>2, <1>3, <1>4, <1>5, <1>6, <1>7, ServerStep, Zenon

\* The handshake of a stranger goes on.
LEMMA StrangerGoesOnStep ==
  ASSUME DtlsInv, NEW m, Dtls!Takes("srv", m), Dtls!Sends("srv", <<>>), Dtls!GoesOn,
         UNCHANGED <<conn, refs, n>>
  PROVE  DtlsInv'
  <1>1. DtlsTyped /\ Causes
    BY DEF DtlsInv
  <1>2. Grow
    BY <1>1 DEF DtlsTyped, Grow
  <1>3. /\ conn' = [conn EXCEPT !["srv"] = conn["srv"]]
        /\ refs' = [refs EXCEPT !["srv"] = refs["srv"]]
    BY ServerTakes
  <1>4. <<>> \in Seq(ToClient) /\ ~Has(<<>>, "flight4") /\ ~Has(<<>>, "echo")
    BY SendsNothing
  <1>5. UNCHANGED <<err, polling>>
    BY DEF Dtls!GoesOn
  <1>6. /\ conn["srv"] # "null" => n'["conn"] >= 1
        /\ conn["srv"] = "guest" => n'["srv_estab"] >= 1
        /\ n'["srv_recv"] >= 1 => n'["srv_estab"] >= 1
        /\ n'["srv_estab"] >= 1 => n'["conn"] >= 1
    BY <1>1 DEF Causes
  <1> QED BY <1>2, <1>3, <1>4, <1>5, <1>6, ServerTakes, ServerStep

LEMMA StrangerReadsStep ==
  ASSUME DtlsInv, Dtls!Takes("srv", "stranger"), Dtls!StrangerReads PROVE DtlsInv'
  <1>1. CASE /\ Dtls!Sends("srv", <<>>) /\ Dtls!GoesOn /\ UNCHANGED <<conn, refs, n>>
    BY <1>1, StrangerGoesOnStep
  <1>2. CASE conn["srv"] = "stranger" /\ Dtls!srv_estab_handler("guest", <<>>)
    BY <1>2, SrvEstabStep
  <1>3. CASE conn["srv"] = "guest" /\ Dtls!srv_recv_handler(<<>>)
    BY <1>3, SrvRecvStep
  <1>4. CASE conn["srv"] \in {"stranger", "guest"} /\ Dtls!Alerted("srv")
    BY <1>4, SrvClosesStep DEF Dtls!Alerted
  <1> QED BY <1>1, <1>2, <1>3, <1>4 DEF Dtls!StrangerReads

LEMMA ServerReadsStep == ASSUME DtlsInv, NEW m, Dtls!ServerReads(m) PROVE DtlsInv'
  <1>1. Dtls!Takes("srv", m)
    BY DEF Dtls!ServerReads
  <1>2. CASE Dtls!conn_handler(m)
    BY <1>1, <1>2, ConnHandlerStep
  <1>3. CASE m = "stranger" /\ Dtls!StrangerReads
    BY <1>1, <1>3, StrangerReadsStep
  <1>4. CASE /\ m = "flight3" /\ conn["srv"] # "null"
             /\ Dtls!srv_estab_handler("up", <<"flight4">>)
    BY <1>1, <1>4, SrvEstabStep
  <1>5. CASE m = "flight3" /\ conn["srv"] # "null" /\ Dtls!Fails("srv")
    BY <1>1, <1>5, SrvClosesStep DEF Dtls!Fails
  <1>6. CASE m = "data" /\ Dtls!srv_recv_handler(<<"echo">>)
    BY <1>1, <1>6, SrvRecvStep
  <1>7. CASE m = "alert" /\ conn["srv"] # "null" /\ Dtls!Alerted("srv")
    BY <1>1, <1>7, SrvClosesStep DEF Dtls!Alerted
  <1> QED BY <1>2, <1>3, <1>4, <1>5, <1>6, <1>7 DEF Dtls!ServerReads

\* What the client finds when it reads m.
LEMMA ClientTakes ==
  ASSUME DtlsInv, NEW m, Dtls!Takes("cli", m)
  PROVE  /\ at = "serve" /\ sockets' = sockets \ {"cli"} /\ wire["cli"] # <<>>
         /\ UNCHANGED <<at, late, stray, result>>
         /\ "cli" \in sockets /\ Head(wire["cli"]) = m /\ Has(wire["cli"], m)
         /\ conn = [conn EXCEPT !["cli"] = conn["cli"]]
         /\ refs = [refs EXCEPT !["cli"] = refs["cli"]]
         /\ conn["cli"] \in {"null", "shaking", "up", "stranger", "guest"}
         /\ refs["cli"] \in Int /\ refs["cli"] = IF conn["cli"] = "null" THEN 0 ELSE 1
  <1>1. /\ at = "serve" /\ sockets' = sockets \ {"cli"} /\ wire["cli"] # <<>>
        /\ UNCHANGED <<at, late, stray, result>> /\ "cli" \in sockets /\ Head(wire["cli"]) = m
    BY DEF Dtls!Takes
  <1>2. wire["cli"] \in Seq(ToClient)
    BY DEF DtlsInv, DtlsTyped
  <1>3. 1 \in DOMAIN wire["cli"] /\ wire["cli"][1] = m
    BY <1>1, <1>2, TakeHead
  <1>4. Has(wire["cli"], m)
    BY <1>3 DEF Has
  <1>5. /\ conn = [conn EXCEPT !["cli"] = conn["cli"]]
        /\ refs = [refs EXCEPT !["cli"] = refs["cli"]]
        /\ conn["cli"] \in {"null", "shaking", "up", "stranger", "guest"} /\ refs["cli"] \in Int
    BY TwoSides DEF DtlsInv, DtlsTyped
  <1>6. refs["cli"] = IF conn["cli"] = "null" THEN 0 ELSE 1
    BY TwoSides DEF DtlsInv, ReleasedOnce, Dtls!ReleasedOnce
  <1> QED BY <1>1, <1>4, <1>5, <1>6

\* The client's connection, its counters and the error stay as they are.
LEMMA CliQuietStep ==
  ASSUME DtlsInv, NEW m, Dtls!Takes("cli", m), UNCHANGED <<conn, refs, n, err, polling>>,
         NEW out \in Seq(FromClient), ~Has(out, "data"), Dtls!Sends("cli", out)
  PROVE  DtlsInv'
  <1>1. Grow /\ \A d \in {"conn", "srv_estab", "srv_recv"} : n'[d] = n[d]
    BY DEF DtlsInv, DtlsTyped, Grow
  <1>2. /\ conn' = [conn EXCEPT !["cli"] = conn["cli"]]
        /\ refs' = [refs EXCEPT !["cli"] = refs["cli"]]
    BY ClientTakes
  <1> QED BY <1>1, <1>2, ClientTakes, ClientStep

LEMMA CliClosesStep ==
  ASSUME DtlsInv, NEW m, Dtls!Takes("cli", m), conn["cli"] # "null",
         Dtls!Closes("cli"), NEW out \in {<<>>, <<"alert">>}, Dtls!Sends("cli", out)
  PROVE  DtlsInv'
  <1>1. UNCHANGED <<n, err, polling>> /\ conn' = [conn EXCEPT !["cli"] = "null"]
    BY DEF Dtls!Closes, Dtls!Close, Dtls!GoesOn
  <1>2. refs' = [refs EXCEPT !["cli"] = 0]
    <2>1. refs["cli"] = 1
      BY ClientTakes
    <2>2. refs' = [refs EXCEPT !["cli"] = refs["cli"] - 1]
      BY DEF Dtls!Closes, Dtls!Close
    <2> QED BY <2>1, <2>2
  <1>3. Grow /\ \A d \in {"conn", "srv_estab", "srv_recv"} : n'[d] = n[d]
    BY <1>1 DEF DtlsInv, DtlsTyped, Grow
  <1>4. out \in Seq(FromClient) /\ ~Has(out, "data")
    <2>1. CASE out = <<>>
      BY <2>1, SendsNothing
    <2>2. CASE out = <<"alert">>
      <3>1. "alert" \in FromClient
        BY DEF FromClient
      <3> QED BY <2>2, <3>1, SendsOne
    <2> QED BY <2>1, <2>2
  <1>5. /\ at = "serve" /\ sockets' = sockets \ {"cli"} /\ wire["cli"] # <<>>
        /\ UNCHANGED <<at, late, stray, result>>
    BY ClientTakes
  <1>6. 0 \in Int /\ 0 = IF "null" = "null" THEN 0 ELSE 1
    OBVIOUS
  <1> QED BY <1>1, <1>2, <1>3, <1>4, <1>5, <1>6, ClientStep, Zenon

LEMMA CliEstabStep ==
  ASSUME DtlsInv, Dtls!Takes("cli", "flight4"), conn["cli"] # "null", Dtls!cli_estab_handler
  PROVE  DtlsInv'
  <1>1. DtlsTyped
    BY DEF DtlsInv
  <1>2. Grow /\ \A d \in {"conn", "srv_estab", "srv_recv"} : n'[d] = n[d]
    BY <1>1, CountedNats, CountsGrow DEF Dtls!cli_estab_handler
  <1>3. conn' = [conn EXCEPT !["cli"] = "up"] /\ refs' = [refs EXCEPT !["cli"] = 1]
    BY ClientTakes DEF Dtls!cli_estab_handler
  <1>4. n["srv_estab"] >= 1
    BY ClientTakes DEF DtlsInv, Causes
  <1>5. /\ at = "serve" /\ sockets' = sockets \ {"cli"} /\ wire["cli"] # <<>>
        /\ UNCHANGED <<at, late, stray, result>>
    BY ClientTakes
  <1>6. 1 \in Int /\ 1 = IF "up" = "null" THEN 0 ELSE 1
    OBVIOUS
  <1>7. CASE Dtls!Sends("cli", <<"data">>) /\ Dtls!GoesOn
    <2>1. <<"data">> \in Seq(FromClient)
      BY SendsOne DEF FromClient
    <2>2. UNCHANGED <<err, polling>>
      BY <1>7 DEF Dtls!GoesOn
    <2> QED BY <1>2, <1>3, <1>4, <1>5, <1>6, <1>7, <2>1, <2>2, ClientStep, Zenon
  <1>8. CASE Dtls!Sends("cli", <<>>) /\ Dtls!Abort(TRUE)
    <2>1. <<>> \in Seq(FromClient)
      BY SendsNothing
    <2>2. err' \in [now : BOOLEAN, ever : BOOLEAN] /\ err'.now /\ polling' = FALSE
      BY <1>1, <1>8, AbortFacts
    <2> QED BY <1>2, <1>3, <1>4, <1>5, <1>6, <1>8, <2>1, <2>2, ClientStep, Zenon
  <1> QED BY <1>7, <1>8 DEF Dtls!cli_estab_handler

LEMMA CliRecvStep ==
  ASSUME DtlsInv, Dtls!Takes("cli", "echo"), Dtls!cli_recv_handler
  PROVE  DtlsInv'
  <1>1. DtlsTyped /\ ErrorIsLast
    BY DEF DtlsInv
  <1>2. Grow /\ \A d \in {"conn", "srv_estab", "srv_recv"} : n'[d] = n[d]
    BY <1>1, CountedNats, CountsGrow DEF Dtls!cli_recv_handler
  <1>3. /\ conn' = [conn EXCEPT !["cli"] = conn["cli"]]
        /\ refs' = [refs EXCEPT !["cli"] = refs["cli"]]
    BY ClientTakes DEF Dtls!cli_recv_handler
  <1>4. err.ever => Twice'
    <2>1. err.ever => Twice
      BY <1>1, ClientTakes DEF ErrorIsLast
    <2> QED BY <1>1, <1>2, <2>1, GrowTwice
  <1>5. /\ err' \in [now : BOOLEAN, ever : BOOLEAN] /\ polling' = FALSE
        /\ err'.ever => err'.now \/ Twice'
    <2>1. PICK differs \in BOOLEAN : Dtls!Abort(differs)
      BY DEF Dtls!cli_recv_handler
    <2>2. /\ err' = [now |-> differs, ever |-> err.ever \/ differs] /\ polling' = FALSE
          /\ (err.ever \/ differs) \in BOOLEAN
      BY <2>1, Zenon DEF Dtls!Abort
    <2>3. err'.now = differs /\ (err'.ever => err.ever \/ differs)
      BY <2>2
    <2>4. err' \in [now : BOOLEAN, ever : BOOLEAN]
      BY <2>2
    <2> QED BY <1>4, <2>2, <2>3, <2>4
  <1>6. <<>> \in Seq(FromClient) /\ ~Has(<<>>, "data")
    BY SendsNothing
  <1>7. Dtls!Sends("cli", <<>>)
    BY DEF Dtls!cli_recv_handler
  <1> QED BY <1>2, <1>3, <1>4, <1>5, <1>6, <1>7, ClientTakes, ClientStep

LEMMA ClientReadsStep == ASSUME DtlsInv, NEW m, Dtls!ClientReads(m) PROVE DtlsInv'
  <1>1. Dtls!Takes("cli", m)
    BY DEF Dtls!ClientReads
  <1>2. CASE Dtls!IgnoredByClient
    <2>1. <<>> \in Seq(FromClient) /\ ~Has(<<>>, "data")
      BY SendsNothing
    <2> QED BY <1>1, <1>2, <2>1, CliQuietStep DEF Dtls!IgnoredByClient, Dtls!GoesOn
  <1>3. CASE Dtls!HandshakeGoesOn
    <2>1. <<"flight3">> \in Seq(FromClient) /\ ~Has(<<"flight3">>, "data")
      <3>1. "flight3" \in FromClient
        BY DEF FromClient
      <3> QED BY <3>1, SendsOne
    <2> QED BY <1>1, <1>3, <2>1, CliQuietStep DEF Dtls!HandshakeGoesOn, Dtls!GoesOn
  <1>4. CASE conn["cli"] # "null" /\ Dtls!Fails("cli")
    BY <1>1, <1>4, CliClosesStep DEF Dtls!Fails
  <1>5. CASE m = "flight4" /\ conn["cli"] # "null" /\ Dtls!cli_estab_handler
    BY <1>1, <1>5, CliEstabStep
  <1>6. CASE m = "echo" /\ Dtls!cli_recv_handler
    BY <1>1, <1>6, CliRecvStep
  <1>7. CASE conn["cli"] # "null" /\ Dtls!Alerted("cli")
    BY <1>1, <1>7, CliClosesStep DEF Dtls!Alerted
  <1> QED BY <1>2, <1>3, <1>4, <1>5, <1>6, <1>7 DEF Dtls!ClientReads

\* Every step of the DTLS test keeps its invariant.
LEMMA DtlsNextStep == ASSUME DtlsInv, Dtls!Next PROVE DtlsInv'
  BY DtlsSetupStep, DtlsPollStep, DtlsTimersStep, LoseStep, IntrudesStep, VerifyStep,
     ServerReadsStep, ClientReadsStep DEF Dtls!Next

\* A run of the ICE test leaves the variables of the DTLS test alone.
LEMMA DtlsStutter == ASSUME DtlsInv, UNCHANGED dtlsVars PROVE DtlsInv'
  <1> USE DEF dtlsVars
  <1>1. DtlsTyped' /\ Before' /\ HelloFirst'
    BY DEF DtlsInv, DtlsTyped, Before, HelloFirst
  <1>2. Causes' /\ Ready' /\ ErrorIsLast'
    BY DEF DtlsInv, Causes, Has, Ready, ErrorIsLast, Twice
  <1>3. ReleasedOnce' /\ VerifiedIsSpotless'
    BY DEF DtlsInv, ReleasedOnce, Dtls!ReleasedOnce, VerifiedIsSpotless, Dtls!VerifiedIsSpotless
  <1> QED BY <1>1, <1>2, <1>3 DEF DtlsInv

LEMMA DtlsInvariant == TestsSpec => []DtlsInv
  <1>1. TestsInit => DtlsInv
    BY InitDtlsInv DEF TestsInit
  <1>2. DtlsInv /\ [TestsNext]_testVars => DtlsInv'
    <2> SUFFICES ASSUME DtlsInv, [TestsNext]_testVars PROVE DtlsInv'
      OBVIOUS
    <2>1. CASE Dtls!Next
      BY <2>1, DtlsNextStep
    <2>2. CASE UNCHANGED dtlsVars
      BY <2>2, DtlsStutter
    <2> QED BY <2>1, <2>2 DEF TestsNext, IceRuns, DtlsRuns, testVars
  <1> QED BY <1>1, <1>2, PTL DEF TestsSpec

\* The DTLS test gets as far as comparing names only if every handler ran
\* once, no handler ever reported an error and the watchdog did not fire,
\* however many datagrams come from outside, in whatever order, and whatever
\* is lost: abort_test, which overwrites the error, hides none.
THEOREM VerifiedSpotless == TestsSpec => []VerifiedIsSpotless
  <1>1. DtlsInv => VerifiedIsSpotless
    BY DEF DtlsInv
  <1> QED BY <1>1, DtlsInvariant, PTL

\* Each pointer to a connection holds one reference, and none is left at the
\* end: close handlers and the code at label out never release one twice.
THEOREM ConnectionsReleasedOnce == TestsSpec => []ReleasedOnce
  <1>1. DtlsInv => ReleasedOnce
    BY DEF DtlsInv
  <1> QED BY <1>1, DtlsInvariant, PTL

-----------------------------------------------------------------------------
(* ICE: the inductive invariant.                                           *)

\* The state of an agent.
AgentRec == [up : BOOLEAN, gathering_ok : BOOLEAN, conncheck_ok : BOOLEAN,
             lcand : SUBSET Candidates, attr_m : SUBSET Candidates,
             rcand : SUBSET Candidates, checking : BOOLEAN,
             checkl : 0..2, validl : 0..2, nrecv : 0..Stray]

\* Sockets are served in the first half of a turn and timers in the second;
\* no error before the loop, no result before the end.
Turns ==
    /\ batch # {} => loop.at = "fd"
    /\ due # {} => loop.at = "tmr"
    /\ loop.at = "alloc" => ~it.failed
    /\ loop.at # "done" => it.result = "none"

\* What may still happen to an agent, and when: its one answer before it has
\* gathered, its pacing timer and then its one result while it checks.
AnswerDue(m) == ~agent[m.to].gathering_ok
CheckDue(ag) == LET a == agent[ag] IN a.checking /\ ~a.conncheck_ok /\ a.validl = 0
ResultDue(m) == CheckDue(m.to) /\ m.valid <= agent[m.to].checkl

Tokens ==
    /\ net \cap batch = {} /\ timers \cap due = {}
    /\ \A m, o \in net \cup batch : m.to = o.to => m = o
    /\ \A m \in net \cup batch :
          /\ agent[m.to].up /\ m.to \notin timers \cup due
          /\ "answer" \in DOMAIN m => AnswerDue(m)
          /\ "valid" \in DOMAIN m => ResultDue(m)
    /\ \A ag \in Agents : ag \in timers \cup due => CheckDue(ag)

\* What an agent has found when it has gathered.
AllCandidates(ag) == {<<ag, "host">>} \cup (IF nat THEN {<<ag, "srflx">>} ELSE {})

Gathering ==
    /\ \A ag \in Agents : LET a == agent[ag] IN
          /\ a.up /\ ~a.gathering_ok => a.lcand = {<<ag, "host">>}
          /\ a.gathering_ok => a.up /\ a.lcand = AllCandidates(ag) /\ a.attr_m = a.lcand
    /\ ~GatheringsComplete(agent) => \A ag \in Agents : LET a == agent[ag] IN
          /\ ~a.checking /\ ~a.conncheck_ok
          /\ a.rcand = {} /\ a.checkl = 0 /\ a.validl = 0

\* An agent that an error has left behind for good: nothing can happen to it
\* any more, or it ended with the wrong pairs.
NoToken(ag) == ag \notin timers \cup due /\ \A m \in net \cup batch : m.to # ag
Stuck(ag) == /\ ~agent[ag].conncheck_ok /\ NoToken(ag)
             /\ ~agent[ag].gathering_ok \/ GatheringsComplete(agent)
Wrong(ag) == LET a == agent[ag] IN a.conncheck_ok /\ (a.checkl # 0 \/ a.validl # 1)

\* Every error that was reported has left such an agent, and so the test
\* cannot be verified, whatever has overwritten the error since.
ErrorLeavesTrace ==
    it.failed /\ loop.at # "done" => \E ag \in Agents : Stuck(ag) \/ Wrong(ag)

IceInv ==
    /\ TypeOK
    /\ Turns
    /\ Tokens
    /\ Gathering
    /\ ErrorLeavesTrace
    /\ ChecksAfterExchange
    /\ SuccessIsSpotless

-----------------------------------------------------------------------------
(* ICE: facts about the operators.                                         *)

LEMMA TwoAgents ==
  /\ Agents = {"A", "B"} /\ Other("A") = "B" /\ Other("B") = "A"
  /\ \A ag \in Agents : Other(ag) \in Agents /\ Other(ag) # ag /\ Other(Other(ag)) = ag
  /\ \A ag, o \in Agents : o # ag => o = Other(ag)
  <1>1. Agents = {"A", "B"} /\ Other("A") = "B" /\ Other("B") = "A"
    BY DEF Agents, Other
  <1> QED BY <1>1

\* A message is an answer or a result.
LEMMA MessageKinds ==
  ASSUME NEW m \in Messages
  PROVE  /\ m.to \in Agents
         /\ \/ "answer" \in DOMAIN m /\ "valid" \notin DOMAIN m
            \/ "valid" \in DOMAIN m /\ "answer" \notin DOMAIN m /\ m.valid \in 0..2
  <1>1. CASE m \in [to : Agents, answer : {"mapped", "nomapped", "refused"}]
    BY <1>1
  <1>2. CASE m \in [to : Agents, valid : 0..2]
    BY <1>2
  <1> QED BY <1>1, <1>2 DEF Messages

\* How many candidates an agent has.
LEMMA CandidateCount ==
  ASSUME NEW ag \in Agents, nat \in BOOLEAN
  PROVE  /\ AllCandidates(ag) \subseteq Candidates /\ <<ag, "host">> \in AllCandidates(ag)
         /\ nat => Cardinality(AllCandidates(ag)) = 2
         /\ ~nat => Cardinality(AllCandidates(ag)) = 1 /\ AllCandidates(ag) = {<<ag, "host">>}
  <1>1. AllCandidates(ag) \subseteq Candidates /\ <<ag, "host">> \in AllCandidates(ag)
    BY DEF AllCandidates, Candidates
  <1>2. IsFiniteSet({<<ag, "host">>}) /\ Cardinality({<<ag, "host">>}) = 1
    BY FS_Singleton
  <1>3. ~nat => AllCandidates(ag) = {<<ag, "host">>}
    BY DEF AllCandidates
  <1>4. nat => Cardinality(AllCandidates(ag)) = 2
    <2>1. <<ag, "srflx">> \notin {<<ag, "host">>}
      OBVIOUS
    <2>2. Cardinality({<<ag, "host">>} \cup {<<ag, "srflx">>}) = 1 + 1
      BY <1>2, <2>1, FS_AddElement
    <2> QED BY <2>2 DEF AllCandidates
  <1> QED BY <1>1, <1>2, <1>3, <1>4

\* The types of an agent's fields.
LEMMA AgentFields ==
  ASSUME TypeOK, NEW ag \in Agents
  PROVE  /\ agent[ag].up \in BOOLEAN /\ agent[ag].gathering_ok \in BOOLEAN
         /\ agent[ag].conncheck_ok \in BOOLEAN /\ agent[ag].checking \in BOOLEAN
         /\ agent[ag].lcand \subseteq Candidates /\ agent[ag].attr_m \subseteq Candidates
         /\ agent[ag].rcand \subseteq Candidates
         /\ agent[ag].checkl \in 0..2 /\ agent[ag].validl \in 0..2
         /\ agent[ag].nrecv \in 0..Stray
  BY DEF TypeOK

\* An agent is as it was, but for the datagrams it has counted.
Same(ag) ==
    /\ agent'[ag].up = agent[ag].up /\ agent'[ag].gathering_ok = agent[ag].gathering_ok
    /\ agent'[ag].conncheck_ok = agent[ag].conncheck_ok
    /\ agent'[ag].checking = agent[ag].checking /\ agent'[ag].lcand = agent[ag].lcand
    /\ agent'[ag].attr_m = agent[ag].attr_m /\ agent'[ag].rcand = agent[ag].rcand
    /\ agent'[ag].checkl = agent[ag].checkl /\ agent'[ag].validl = agent[ag].validl

\* Nothing is on its way that was not before.
Fewer ==
    /\ net' \cap batch' = {} /\ timers' \cap due' = {}
    /\ net' \cup batch' \subseteq net \cup batch
    /\ \A ag \in Agents : ag \in timers' \cup due' => ag \in timers \cup due

\* A step that changes no agent and sends nothing.
LEMMA QuietStep ==
  ASSUME IceInv, nat' = nat, \A ag \in Agents : Same(ag), Fewer
  PROVE  /\ Tokens' /\ Gathering' /\ ChecksAfterExchange'
         /\ \A ag \in Agents : (Stuck(ag) => Stuck(ag)') /\ (Wrong(ag) => Wrong(ag)')
         /\ \A ag \in Agents : CheckDue(ag)' <=> CheckDue(ag)
  <1>1. \A m \in net \cup batch : m \in Messages /\ m.to \in Agents
    BY MessageKinds DEF IceInv, TypeOK
  <1>2. GatheringsComplete(agent)' <=> GatheringsComplete(agent)
    BY DEF GatheringsComplete, Same
  <1>3. \A ag \in Agents : CheckDue(ag)' <=> CheckDue(ag)
    BY DEF CheckDue, Same
  <1>4. Tokens'
    <2>1. \A m, o \in net' \cup batch' : m.to = o.to => m = o
      BY DEF IceInv, Tokens, Fewer
    <2>2. ASSUME NEW m \in net' \cup batch'
          PROVE  /\ agent'[m.to].up /\ m.to \notin timers' \cup due'
                 /\ "answer" \in DOMAIN m => ~agent'[m.to].gathering_ok
                 /\ "valid" \in DOMAIN m => CheckDue(m.to)' /\ m.valid <= agent'[m.to].checkl
      <3>1. m \in net \cup batch /\ m.to \in Agents
        BY <1>1 DEF Fewer
      <3>2. Same(m.to) /\ m.to \notin timers' \cup due'
        BY <3>1 DEF IceInv, Tokens, Fewer
      <3> QED BY <1>3, <3>1, <3>2 DEF IceInv, Tokens, AnswerDue, ResultDue, Same
    <2>3. \A ag \in Agents : ag \in timers' \cup due' => CheckDue(ag)'
      BY <1>3 DEF IceInv, Tokens, Fewer
    <2> QED BY <2>1, <2>2, <2>3 DEF Tokens, AnswerDue, ResultDue, Fewer
  <1>5. Gathering'
    BY <1>2 DEF IceInv, Gathering, Same, AllCandidates
  <1>6. ChecksAfterExchange'
    BY TwoAgents DEF IceInv, ChecksAfterExchange, Same
  <1>7. \A ag \in Agents : Stuck(ag) => Stuck(ag)'
    BY <1>2 DEF Stuck, Same, NoToken, Fewer
  <1>8. \A ag \in Agents : Wrong(ag) => Wrong(ag)'
    BY DEF Wrong, Same
  <1> QED BY <1>3, <1>4, <1>5, <1>6, <1>7, <1>8

-----------------------------------------------------------------------------
(* ICE: the steps of the loop.                                             *)

LEMMA InitIceInv == Init => IceInv
  <1> SUFFICES ASSUME Init PROVE IceInv
    OBVIOUS
  <1> USE DEF Init
  <1>1. \A ag \in Agents : agent[ag] = NoAgent
    OBVIOUS
  <1>2. TypeOK
    <2>1. NoAgent \in AgentRec
      BY StrayAssumption DEF NoAgent, AgentRec
    <2>2. it \in [err : Errors, failed : BOOLEAN, result : Errors \cup {"none"}]
      BY DEF Errors
    <2> QED BY <2>1, <2>2 DEF TypeOK, AgentRec
  <1>3. Turns /\ ErrorLeavesTrace /\ SuccessIsSpotless
    BY DEF Turns, ErrorLeavesTrace, SuccessIsSpotless
  <1>4. Tokens
    BY DEF Tokens
  <1>5. Gathering /\ ChecksAfterExchange
    BY <1>1 DEF Gathering, ChecksAfterExchange, NoAgent
  <1> QED BY <1>2, <1>3, <1>4, <1>5 DEF IceInv

\* A step that changes no agent, sends nothing and reports no error.
LEMMA CalmStep ==
  ASSUME IceInv, TypeOK', Turns', nat' = nat, \A ag \in Agents : Same(ag), Fewer,
         it'.failed = it.failed, it'.result = it.result, loop.at # "done"
  PROVE  IceInv'
  <1>1. /\ Tokens' /\ Gathering' /\ ChecksAfterExchange'
        /\ \A ag \in Agents : (Stuck(ag) => Stuck(ag)') /\ (Wrong(ag) => Wrong(ag)')
    BY QuietStep
  <1>2. ErrorLeavesTrace'
    BY <1>1 DEF IceInv, ErrorLeavesTrace
  <1>3. SuccessIsSpotless'
    BY DEF IceInv, Turns, SuccessIsSpotless
  <1> QED BY <1>1, <1>2, <1>3 DEF IceInv

LEMMA SameAgents == ASSUME agent' = agent PROVE \A ag \in Agents : Same(ag)
  BY DEF Same

LEMMA FdPollStep == ASSUME IceInv, FdPoll PROVE IceInv'
  <1> USE DEF FdPoll
  <1>1. PICK ready \in SUBSET net : batch' = ready /\ net' = net \ ready
    OBVIOUS
  <1>2. loop' \in [at : {"alloc", "poll", "fd", "tmr", "done"}, polling : BOOLEAN] /\ loop'.at = "fd"
    BY DEF IceInv, TypeOK
  <1>3. TypeOK'
    BY <1>1, <1>2 DEF IceInv, TypeOK
  <1>4. Turns'
    BY <1>2 DEF IceInv, Turns
  <1>5. Fewer
    BY <1>1 DEF IceInv, Tokens, Fewer
  <1> QED BY <1>3, <1>4, <1>5, SameAgents, CalmStep

LEMMA TmrPollStep == ASSUME IceInv, NEW expired \in SUBSET timers, TmrPoll(expired) PROVE IceInv'
  <1> USE DEF TmrPoll
  <1>1. loop' \in [at : {"alloc", "poll", "fd", "tmr", "done"}, polling : BOOLEAN] /\ loop'.at = "tmr"
    BY DEF IceInv, TypeOK
  <1>2. TypeOK'
    BY <1>1 DEF IceInv, TypeOK
  <1>3. Turns'
    BY <1>1 DEF IceInv, Turns
  <1>4. Fewer
    BY DEF IceInv, Tokens, Turns, Fewer
  <1> QED BY <1>2, <1>3, <1>4, SameAgents, CalmStep

LEMMA NextTurnStep == ASSUME IceInv, NextTurn PROVE IceInv'
  <1> USE DEF NextTurn
  <1>1. loop' \in [at : {"alloc", "poll", "fd", "tmr", "done"}, polling : BOOLEAN] /\ loop'.at = "poll"
    BY DEF IceInv, TypeOK
  <1>2. TypeOK'
    BY <1>1 DEF IceInv, TypeOK
  <1>3. Turns'
    BY <1>1 DEF IceInv, Turns
  <1>4. Fewer
    BY DEF IceInv, Tokens, Fewer
  <1> QED BY <1>2, <1>3, <1>4, SameAgents, CalmStep

\* complete_test, when the test has not ended.
LEMMA CompleteTest ==
  ASSUME TypeOK, NEW e \in Errors, complete_test(e)
  PROVE  /\ it' \in [err : Errors, failed : BOOLEAN, result : Errors \cup {"none"}]
         /\ loop' \in [at : {"alloc", "poll", "fd", "tmr", "done"}, polling : BOOLEAN]
         /\ loop'.at = loop.at /\ it'.result = it.result
         /\ e # "OK" => it'.failed = TRUE
         /\ e = "OK" => it'.failed = it.failed
  <1>1. it \in [err : Errors, failed : BOOLEAN, result : Errors \cup {"none"}]
    BY DEF TypeOK
  <1>2. it' = [it EXCEPT !.err = e, !.failed = it.failed \/ e # "OK"]
    BY DEF complete_test
  <1>3. it.failed \in BOOLEAN
    BY <1>1
  <1>4. (it.failed \/ e # "OK") \in BOOLEAN
    OBVIOUS
  <1>5. it'.failed = (it.failed \/ e # "OK") /\ it'.result = it.result
    BY <1>1, <1>2
  <1>6. (e # "OK" => it'.failed = TRUE) /\ (e = "OK" => it'.failed = it.failed)
    BY <1>3, <1>5, Zenon
  <1>7. it' \in [err : Errors, failed : BOOLEAN, result : Errors \cup {"none"}]
    BY <1>1, <1>2, <1>4
  <1>8. /\ loop' \in [at : {"alloc", "poll", "fd", "tmr", "done"}, polling : BOOLEAN]
        /\ loop'.at = loop.at
    BY DEF TypeOK, complete_test
  <1> QED BY <1>5, <1>6, <1>7, <1>8

LEMMA TestTimerStep == ASSUME IceInv, TestTimer PROVE IceInv'
  <1> USE DEF TestTimer
  <1>1. "OK" \in Errors /\ TypeOK
    BY DEF Errors, IceInv
  <1>2. /\ it' \in [err : Errors, failed : BOOLEAN, result : Errors \cup {"none"}]
        /\ loop' \in [at : {"alloc", "poll", "fd", "tmr", "done"}, polling : BOOLEAN]
        /\ loop'.at = loop.at /\ it'.result = it.result /\ it'.failed = it.failed
    BY <1>1, CompleteTest
  <1>3. TypeOK'
    BY <1>2 DEF IceInv, TypeOK
  <1>4. Turns'
    BY <1>2 DEF IceInv, Turns
  <1>5. Fewer
    BY DEF IceInv, Tokens, Fewer
  <1> QED BY <1>2, <1>3, <1>4, <1>5, SameAgents, CalmStep

LEMMA WatchdogStep == ASSUME IceInv, Watchdog PROVE IceInv'
  <1> USE DEF Watchdog
  <1>1. /\ loop' \in [at : {"alloc", "poll", "fd", "tmr", "done"}, polling : BOOLEAN]
        /\ loop'.at = loop.at
    BY DEF IceInv, TypeOK
  <1>2. TypeOK'
    BY <1>1 DEF IceInv, TypeOK
  <1>3. Turns'
    BY <1>1 DEF IceInv, Turns
  <1>4. Fewer
    BY DEF IceInv, Tokens, Fewer
  <1> QED BY <1>2, <1>3, <1>4, SameAgents, CalmStep

LEMMA StunserverRecvStep == ASSUME IceInv, NEW ag \in Agents, StunserverRecv(ag) PROVE IceInv'
  <1> USE DEF StunserverRecv
  <1>1. agent' = [agent EXCEPT ![ag] = [agent[ag] EXCEPT !.nrecv = agent[ag].nrecv + 1]]
    OBVIOUS
  <1>2. agent[ag].nrecv + 1 \in 0..Stray
    BY StrayAssumption, AgentFields DEF IceInv
  <1>3. TypeOK'
    BY <1>1, <1>2 DEF IceInv, TypeOK
  <1>4. \A o \in Agents : Same(o)
    BY <1>1 DEF IceInv, TypeOK, Same
  <1>5. Turns' /\ Fewer
    BY DEF IceInv, Turns, Tokens, Fewer
  <1> QED BY <1>3, <1>4, <1>5, CalmStep

\* The end of the test, with the result that has been computed.
LEMMA ReleaseStep ==
  ASSUME IceInv, NEW r \in Errors, Release(r), r = "OK" => ~it.failed /\ ~fired /\ ~nat
  PROVE  IceInv'
  <1> USE DEF Release
  <1>1. \A ag \in Agents : agent'[ag] = NoAgent
    OBVIOUS
  <1>2. /\ it' \in [err : Errors, failed : BOOLEAN, result : Errors \cup {"none"}]
        /\ it'.result = r /\ it'.failed = it.failed
    <2> DEFINE e == IF \E ag \in Agents : Pending(ag) THEN "ECONNABORTED" ELSE it.err
    <2>1. it \in [err : Errors, failed : BOOLEAN, result : Errors \cup {"none"}]
      BY DEF IceInv, TypeOK
    <2>2. e \in Errors
      BY <2>1 DEF Errors
    <2>3. it' = [it EXCEPT !.result = r, !.err = e]
      OBVIOUS
    <2> HIDE DEF e
    <2> QED BY <2>1, <2>2, <2>3
  <1>3. loop'.at = "done"
    OBVIOUS
  <1>4. TypeOK'
    BY <1>2, StrayAssumption DEF IceInv, TypeOK, NoAgent
  <1>5. Turns' /\ ErrorLeavesTrace' /\ SuccessIsSpotless'
    BY <1>2, <1>3 DEF Turns, ErrorLeavesTrace, SuccessIsSpotless
  <1>6. Tokens'
    BY DEF Tokens
  <1>7. Gathering' /\ ChecksAfterExchange'
    BY <1>1 DEF Gathering, ChecksAfterExchange, NoAgent
  <1> QED BY <1>4, <1>5, <1>6, <1>7 DEF IceInv

LEMMA AgentAllocFailsStep == ASSUME IceInv, NEW ag \in Agents, AgentAllocFails(ag) PROVE IceInv'
  BY ReleaseStep DEF AgentAllocFails, Errors

\* With success everything has gone well: an agent that an error left behind
\* is not complete, nor is one that has seen two candidates of the other.
LEMMA LoopEndsStep == ASSUME IceInv, LoopEnds PROVE IceInv'
  <1>1. Result \in Errors
    BY DEF Result, Errors, IceInv, TypeOK
  <1>2. ASSUME Result = "OK" PROVE ~it.failed /\ ~fired /\ ~nat
    <2>1. ~fired /\ \A ag \in Agents : VerifyCompleted(agent[ag])
      BY <1>2 DEF Result, IceInv, TypeOK, Errors
    <2>2. ~it.failed
      <3>1. \A ag \in Agents : ~Stuck(ag) /\ ~Wrong(ag)
        BY <2>1 DEF VerifyCompleted, Stuck, Wrong
      <3> QED BY <3>1 DEF IceInv, ErrorLeavesTrace, LoopEnds
    <2>3. ~nat
      <3>1. /\ "A" \in Agents /\ "B" \in Agents /\ Other("A") = "B"
        BY TwoAgents
      <3>2. agent["A"].rcand = agent["B"].lcand
            /\ agent["A"].checkl + agent["A"].validl = Cardinality(agent["A"].rcand)
        BY <2>1, <3>1 DEF IceInv, ChecksAfterExchange, VerifyCompleted
      <3>3. agent["B"].lcand = AllCandidates("B")
        BY <2>1, <3>1 DEF IceInv, Gathering, VerifyCompleted
      <3>4. Cardinality(AllCandidates("B")) = 1
        BY <2>1, <3>1, <3>2, <3>3 DEF VerifyCompleted
      <3>5. nat \in BOOLEAN
        BY DEF IceInv, TypeOK
      <3>6. nat => Cardinality(AllCandidates("B")) = 2
        BY <3>1, <3>5, CandidateCount
      <3> QED BY <3>4, <3>6
    <2> QED BY <2>1, <2>2, <2>3
  <1> QED BY <1>1, <1>2, ReleaseStep DEF LoopEnds

-----------------------------------------------------------------------------
(* ICE: gathering.                                                         *)

\* As long as one agent has not gathered nothing is checked or paced.
LEMMA BeforeExchange ==
  ASSUME IceInv, NEW ag \in Agents, ~agent[ag].gathering_ok
  PROVE  /\ ~GatheringsComplete(agent)
         /\ \A o \in Agents : /\ ~agent[o].checking /\ ~agent[o].conncheck_ok
                              /\ agent[o].rcand = {} /\ agent[o].checkl = 0 /\ agent[o].validl = 0
                              /\ o \notin timers \cup due /\ ~CheckDue(o) /\ ~Wrong(o)
  <1>1. ~GatheringsComplete(agent)
    BY DEF GatheringsComplete
  <1>2. \A o \in Agents : /\ ~agent[o].checking /\ ~agent[o].conncheck_ok
                          /\ agent[o].rcand = {} /\ agent[o].checkl = 0 /\ agent[o].validl = 0
    BY <1>1 DEF IceInv, Gathering
  <1>3. \A o \in Agents : ~CheckDue(o) /\ ~Wrong(o)
    BY <1>2 DEF CheckDue, Wrong
  <1>4. \A o \in Agents : o \notin timers \cup due
    BY <1>3 DEF IceInv, Tokens
  <1> QED BY <1>1, <1>2, <1>3, <1>4

LEMMA AgentAllocStep == ASSUME IceInv, NEW ag \in Agents, AgentAlloc(ag) PROVE IceInv'
  <1> DEFINE b == [agent[ag] EXCEPT !.up = TRUE, !.lcand = {<<ag, "host">>}]
  <1>1. /\ loop.at = "alloc" /\ ~agent[ag].up /\ agent' = [agent EXCEPT ![ag] = b]
        /\ UNCHANGED <<nat, it, batch, due, fired>>
    BY DEF AgentAlloc
  <1>2. batch = {} /\ due = {} /\ ~it.failed
    BY <1>1 DEF IceInv, Turns
  <1>3. PICK a \in {"mapped", "nomapped", "refused"} : net' = net \cup {[to |-> ag, answer |-> a]}
    BY DEF AgentAlloc
  <1> DEFINE msg == [to |-> ag, answer |-> a]
  <1>4. msg \in Messages /\ msg.to = ag /\ "answer" \in DOMAIN msg /\ "valid" \notin DOMAIN msg
    BY DEF Messages
  <1>5. ~agent[ag].gathering_ok
    BY <1>1 DEF IceInv, Gathering
  <1>6. /\ timers' \subseteq Timers /\ \A o \in Agents : o \notin timers'
        /\ loop' \in [at : {"alloc", "poll", "fd", "tmr", "done"}, polling : BOOLEAN]
        /\ loop'.at \in {"alloc", "poll"}
    <2>1. CASE ag = "B"
      <3>1. loop' = [at |-> "poll", polling |-> TRUE] /\ timers' = {"watchdog"}
        BY <2>1 DEF AgentAlloc
      <3>2. "watchdog" \in Timers /\ "watchdog" \notin Agents
        BY DEF Timers, Agents
      <3> QED BY <3>1, <3>2
    <2>2. CASE ag # "B"
      BY <1>1, <1>5, <2>2, BeforeExchange DEF AgentAlloc, IceInv, TypeOK
    <2> QED BY <2>1, <2>2
  <1>7. /\ b.up = TRUE /\ b.lcand = {<<ag, "host">>} /\ b.gathering_ok = agent[ag].gathering_ok
        /\ b.conncheck_ok = agent[ag].conncheck_ok /\ b.checking = agent[ag].checking
        /\ b.rcand = agent[ag].rcand /\ b.checkl = agent[ag].checkl /\ b.validl = agent[ag].validl
        /\ agent' \in [Agents -> AgentRec]
    <2>1. {<<ag, "host">>} \subseteq Candidates
      BY DEF Candidates
    <2>2. /\ b \in AgentRec
          /\ b.up = TRUE /\ b.lcand = {<<ag, "host">>} /\ b.gathering_ok = agent[ag].gathering_ok
          /\ b.conncheck_ok = agent[ag].conncheck_ok /\ b.checking = agent[ag].checking
          /\ b.rcand = agent[ag].rcand /\ b.checkl = agent[ag].checkl /\ b.validl = agent[ag].validl
      BY <2>1 DEF IceInv, TypeOK, AgentRec
    <2> HIDE DEF b
    <2>3. agent' \in [Agents -> AgentRec]
      BY <1>1, <2>2 DEF IceInv, TypeOK, AgentRec
    <2> QED BY <2>2, <2>3
  <1>8. agent'[ag] = b /\ \A o \in Agents : o # ag => agent'[o] = agent[o]
    BY <1>1 DEF IceInv, TypeOK
  <1> HIDE DEF b, msg
  <1>9. net' = net \cup {msg}
    BY <1>3 DEF msg
  <1>10. TypeOK' /\ Turns'
    BY <1>1, <1>2, <1>4, <1>6, <1>7, <1>9 DEF IceInv, TypeOK, Turns, AgentRec
  <1>11. \A m \in net : m.to # ag /\ m.to \in Agents /\ m \in Messages
    BY <1>1, MessageKinds DEF IceInv, Tokens, TypeOK
  <1>12. Tokens'
    <2>1. \A m, o \in net' \cup batch' : m.to = o.to => m = o
      BY <1>1, <1>2, <1>4, <1>9, <1>11 DEF IceInv, Tokens
    <2>2. \A m \in net : "valid" \notin DOMAIN m
      BY <1>5, <1>11, BeforeExchange DEF IceInv, Tokens, ResultDue
    <2>3. agent'[ag].up /\ ~agent'[ag].gathering_ok
      BY <1>5, <1>7, <1>8
    <2>4. \A m \in net' \cup batch' : m.to \notin timers' \cup due'
      BY <1>1, <1>2, <1>4, <1>6, <1>9, <1>11
    <2>5. \A m \in net' \cup batch' : m \in net \/ m = msg
      BY <1>1, <1>2, <1>9
    <2>6. \A m \in net' \cup batch' : "valid" \notin DOMAIN m
      BY <1>4, <2>2, <2>5
    <2>7. \A m \in net' \cup batch' : agent'[m.to].up /\ ~agent'[m.to].gathering_ok
      <3>1. \A m \in net : "answer" \in DOMAIN m
        BY <1>11, <2>2, MessageKinds
      <3>2. \A m \in net : agent[m.to].up /\ ~agent[m.to].gathering_ok
        BY <3>1 DEF IceInv, Tokens, AnswerDue
      <3> QED BY <1>4, <1>8, <1>11, <2>3, <2>5, <3>2
    <2> QED BY <1>1, <1>2, <1>6, <2>1, <2>4, <2>6, <2>7 DEF Tokens, AnswerDue
  <1>13. Gathering'
    BY <1>1, <1>5, <1>7, <1>8, BeforeExchange DEF IceInv, Gathering, GatheringsComplete, AllCandidates
  <1>14. ErrorLeavesTrace' /\ SuccessIsSpotless'
    BY <1>1, <1>2 DEF IceInv, ErrorLeavesTrace, SuccessIsSpotless
  <1>15. ChecksAfterExchange'
    <2>1. \A o \in Agents : ~agent'[o].checking /\ ~agent'[o].conncheck_ok
      BY <1>5, <1>7, <1>8, BeforeExchange
    <2> QED BY <2>1 DEF ChecksAfterExchange
  <1> QED BY <1>10, <1>12, <1>13, <1>14, <1>15 DEF IceInv

\* What holds when the answer m is served.
LEMMA AnswerFacts ==
  ASSUME IceInv, NEW m \in Messages, GatherResponse(m)
  PROVE  /\ loop.at = "fd" /\ m \in batch /\ m.to \in Agents /\ due = {} /\ m \notin net
         /\ batch' = batch \ {m} /\ UNCHANGED <<nat, due, net, fired>>
         /\ agent[m.to].up /\ ~agent[m.to].gathering_ok
         /\ SendSdpOk(m.to) /\ Gathered(m.to) = AllCandidates(m.to)
         /\ \A o \in net' \cup batch' : o \in net \cup batch /\ o.to # m.to /\ o.to \in Agents
  <1>1. /\ loop.at = "fd" /\ m \in batch /\ "answer" \in DOMAIN m
        /\ batch' = batch \ {m} /\ UNCHANGED <<nat, due, net, fired>>
    BY DEF GatherResponse
  <1>2. m.to \in Agents /\ due = {} /\ m \notin net
    BY <1>1, MessageKinds DEF IceInv, Turns, Tokens
  <1>3. agent[m.to].up /\ ~agent[m.to].gathering_ok
    BY <1>1 DEF IceInv, Tokens, AnswerDue
  <1>4. SendSdpOk(m.to)
    BY <1>2, <1>3, BeforeExchange DEF SendSdpOk
  <1>5. Gathered(m.to) = AllCandidates(m.to)
    <2>1. agent[m.to].lcand = {<<m.to, "host">>}
      BY <1>2, <1>3 DEF IceInv, Gathering
    <2> QED BY <2>1 DEF Gathered, AllCandidates
  <1>6. \A o \in net' \cup batch' : o \in net \cup batch /\ o # m
    BY <1>1, <1>2
  <1>7. \A o \in net' \cup batch' : o.to # m.to /\ o.to \in Agents
    BY <1>1, <1>6, MessageKinds DEF IceInv, TypeOK, Tokens
  <1> QED BY <1>1, <1>2, <1>3, <1>4, <1>5, <1>6, <1>7

\* The answer is of no use: the agent never gathers.
LEMMA RefusedStep ==
  ASSUME IceInv, NEW m \in Messages, GatherResponse(m), complete_test("EPROTO"),
         UNCHANGED <<agent, timers>>
  PROVE  IceInv'
  <1>1. TypeOK /\ "EPROTO" \in Errors
    BY DEF IceInv, Errors
  <1>2. /\ it' \in [err : Errors, failed : BOOLEAN, result : Errors \cup {"none"}]
        /\ loop' \in [at : {"alloc", "poll", "fd", "tmr", "done"}, polling : BOOLEAN]
        /\ loop'.at = loop.at /\ it'.result = it.result
    BY <1>1, CompleteTest
  <1>3. TypeOK'
    BY <1>2, AnswerFacts DEF IceInv, TypeOK
  <1>4. Turns'
    BY <1>2, AnswerFacts DEF IceInv, Turns
  <1>5. Fewer
    BY AnswerFacts DEF IceInv, Tokens, Fewer
  <1>6. Tokens' /\ Gathering' /\ ChecksAfterExchange'
    BY <1>5, AnswerFacts, SameAgents, QuietStep
  <1>7. ErrorLeavesTrace'
    <2>1. m.to \in Agents /\ ~agent'[m.to].gathering_ok /\ ~agent'[m.to].conncheck_ok
      BY AnswerFacts, BeforeExchange
    <2>2. NoToken(m.to)'
      BY AnswerFacts, BeforeExchange DEF NoToken
    <2>3. Stuck(m.to)'
      BY <2>1, <2>2 DEF Stuck
    <2> QED BY <2>1, <2>3 DEF ErrorLeavesTrace
  <1>8. SuccessIsSpotless'
    BY <1>2, AnswerFacts DEF IceInv, Turns, SuccessIsSpotless
  <1> QED BY <1>3, <1>4, <1>6, <1>7, <1>8 DEF IceInv

\* The agents after agent_gather_handler of ag.
Described(ag) ==
    [[agent EXCEPT ![ag].lcand = Gathered(ag), ![ag].gathering_ok = TRUE]
       EXCEPT ![ag].attr_m = Gathered(ag)]

LEMMA DescribedFields ==
  ASSUME IceInv, NEW m \in Messages, GatherResponse(m)
  PROVE  LET d == Described(m.to) IN
         /\ d \in [Agents -> AgentRec]
         /\ \A o \in Agents : o # m.to => d[o] = agent[o]
         /\ d[m.to].gathering_ok /\ d[m.to].up
         /\ d[m.to].lcand = AllCandidates(m.to) /\ d[m.to].attr_m = AllCandidates(m.to)
         /\ \A o \in Agents : /\ ~d[o].checking /\ ~d[o].conncheck_ok /\ d[o].rcand = {}
                              /\ d[o].checkl = 0 /\ d[o].validl = 0 /\ d[o].up = agent[o].up
  <1> DEFINE ag == m.to
             b == [agent[ag] EXCEPT !.lcand = AllCandidates(ag), !.gathering_ok = TRUE,
                                    !.attr_m = AllCandidates(ag)]
             d == Described(ag)
  <1>1. ag \in Agents /\ agent[ag].up /\ Gathered(ag) = AllCandidates(ag) /\ TypeOK
    BY AnswerFacts DEF IceInv
  <1>2. AllCandidates(ag) \subseteq Candidates
    BY <1>1, CandidateCount DEF TypeOK
  <1>3. d = [agent EXCEPT ![ag] = b]
    BY <1>1 DEF Described, TypeOK
  <1>4. /\ b \in AgentRec
        /\ b.gathering_ok /\ b.up /\ b.lcand = AllCandidates(ag) /\ b.attr_m = AllCandidates(ag)
        /\ b.checking = agent[ag].checking /\ b.conncheck_ok = agent[ag].conncheck_ok
        /\ b.rcand = agent[ag].rcand /\ b.checkl = agent[ag].checkl /\ b.validl = agent[ag].validl
        /\ b.up = agent[ag].up
    BY <1>1, <1>2 DEF TypeOK, AgentRec
  <1> HIDE DEF b, d
  <1>5. /\ d \in [Agents -> AgentRec]
        /\ d[ag] = b /\ \A o \in Agents : o # ag => d[o] = agent[o]
    BY <1>1, <1>3, <1>4 DEF TypeOK, AgentRec
  <1>6. \A o \in Agents : /\ ~d[o].checking /\ ~d[o].conncheck_ok /\ d[o].rcand = {}
                          /\ d[o].checkl = 0 /\ d[o].validl = 0 /\ d[o].up = agent[o].up
    BY <1>1, <1>4, <1>5, AnswerFacts, BeforeExchange
  <1> QED BY <1>4, <1>5, <1>6 DEF d

\* The first agent that gathers only stores its description.
LEMMA FirstGatheredStep ==
  ASSUME IceInv, NEW m \in Messages, GatherResponse(m), agent' = Described(m.to),
         ~GatheringsComplete(agent'), UNCHANGED <<it, loop, timers>>
  PROVE  IceInv'
  <1>1. /\ \A o \in Agents : o # m.to => agent'[o] = agent[o]
        /\ agent'[m.to].gathering_ok /\ agent'[m.to].up
        /\ agent'[m.to].lcand = AllCandidates(m.to) /\ agent'[m.to].attr_m = AllCandidates(m.to)
        /\ \A o \in Agents : /\ ~agent'[o].checking /\ ~agent'[o].conncheck_ok
                             /\ agent'[o].rcand = {} /\ agent'[o].checkl = 0 /\ agent'[o].validl = 0
    BY DescribedFields
  <1>2. TypeOK'
    BY AnswerFacts, DescribedFields DEF IceInv, TypeOK, AgentRec
  <1>3. Turns'
    BY AnswerFacts DEF IceInv, Turns
  <1>4. Tokens'
    <2>1. \A o \in Agents : o \notin timers' \cup due'
      BY AnswerFacts, BeforeExchange
    <2>2. ASSUME NEW o \in net' \cup batch'
          PROVE  agent'[o.to].up /\ ("answer" \in DOMAIN o => ~agent'[o.to].gathering_ok)
                 /\ "valid" \notin DOMAIN o
      <3>1. o \in net \cup batch /\ o.to \in Agents /\ agent'[o.to] = agent[o.to]
        BY <1>1, AnswerFacts
      <3>2. ~CheckDue(o.to)
        BY <3>1, AnswerFacts, BeforeExchange
      <3> QED BY <3>1, <3>2 DEF IceInv, Tokens, AnswerDue, ResultDue
    <2>3. net' \cap batch' = {} /\ timers' \cap due' = {}
      BY AnswerFacts DEF IceInv, Tokens
    <2>4. \A x, y \in net' \cup batch' : x.to = y.to => x = y
      BY AnswerFacts DEF IceInv, Tokens
    <2>5. \A o \in net' \cup batch' : o.to \notin timers' \cup due'
      BY <2>1, AnswerFacts
    <2> QED BY <2>1, <2>2, <2>3, <2>4, <2>5 DEF Tokens, AnswerDue
  <1>5. Gathering'
    <2>1. \A o \in Agents : AllCandidates(o)' = AllCandidates(o)
      BY AnswerFacts DEF AllCandidates
    <2>2. ASSUME NEW o \in Agents
          PROVE  /\ agent'[o].up /\ ~agent'[o].gathering_ok => agent'[o].lcand = {<<o, "host">>}
                 /\ agent'[o].gathering_ok => /\ agent'[o].up /\ agent'[o].lcand = AllCandidates(o)
                                              /\ agent'[o].attr_m = agent'[o].lcand
      BY <1>1 DEF IceInv, Gathering
    <2> QED BY <1>1, <2>1, <2>2 DEF Gathering
  <1>6. ErrorLeavesTrace'
    <2> SUFFICES ASSUME it.failed, loop.at # "done" PROVE \E o \in Agents : Stuck(o)' \/ Wrong(o)'
      BY DEF ErrorLeavesTrace
    <2>1. PICK o \in Agents : Stuck(o)
      BY AnswerFacts, BeforeExchange DEF IceInv, ErrorLeavesTrace
    <2>2. o # m.to
      BY <2>1, AnswerFacts DEF Stuck, NoToken
    <2>3. agent'[o] = agent[o] /\ ~agent[o].gathering_ok
      BY <1>1, <2>1, <2>2, AnswerFacts, BeforeExchange DEF Stuck
    <2>4. NoToken(o)'
      BY <2>1, AnswerFacts DEF Stuck, NoToken
    <2>5. Stuck(o)'
      BY <2>1, <2>3, <2>4 DEF Stuck
    <2> QED BY <2>5
  <1>7. ChecksAfterExchange' /\ SuccessIsSpotless'
    BY <1>1, AnswerFacts DEF ChecksAfterExchange, IceInv, SuccessIsSpotless
  <1> QED BY <1>2, <1>3, <1>4, <1>5, <1>6, <1>7 DEF IceInv

\* The second agent that gathers: both know all the candidates of the other,
\* and those that could start check.
LEMMA ExchangedFields ==
  ASSUME IceInv, NEW m \in Messages, GatherResponse(m), GatheringsComplete(Described(m.to)),
         NEW running \in SUBSET Agents,
         agent' = Started(Exchanged(Described(m.to)), running)
  PROVE  /\ agent' \in [Agents -> AgentRec]
         /\ \A o \in Agents : /\ agent'[o].up /\ agent'[o].gathering_ok /\ ~agent'[o].conncheck_ok
                              /\ agent'[o].lcand = AllCandidates(o)
                              /\ agent'[o].attr_m = AllCandidates(o)
                              /\ agent'[o].rcand = AllCandidates(Other(o))
                              /\ agent'[o].checking <=> o \in running
                              /\ agent'[o].validl = 0
                              /\ o \in running => agent'[o].checkl = Cardinality(agent'[o].rcand)
  <1> DEFINE d == Described(m.to)
  <1>1. /\ d \in [Agents -> AgentRec]
        /\ \A o \in Agents : o # m.to => d[o] = agent[o]
        /\ d[m.to].lcand = AllCandidates(m.to) /\ d[m.to].attr_m = AllCandidates(m.to) /\ d[m.to].up
        /\ \A o \in Agents : /\ ~d[o].checking /\ ~d[o].conncheck_ok /\ d[o].rcand = {}
                             /\ d[o].checkl = 0 /\ d[o].validl = 0
    BY DescribedFields
  <1>2. \A o \in Agents : d[o].gathering_ok
    BY DEF GatheringsComplete
  <1>3. \A o \in Agents : d[o].lcand = AllCandidates(o) /\ d[o].attr_m = AllCandidates(o) /\ d[o].up
    <2> TAKE o \in Agents
    <2>1. CASE o = m.to
      BY <1>1, <2>1
    <2>2. CASE o # m.to
      <3>1. d[o] = agent[o] /\ agent[o].gathering_ok
        BY <1>1, <1>2, <2>2
      <3> HIDE DEF d
      <3> QED BY <3>1 DEF IceInv, Gathering
    <2> QED BY <2>1, <2>2
  <1> HIDE DEF d
  <1> DEFINE x == Exchanged(d)
             c(o) == [d[o] EXCEPT !.rcand = AllCandidates(Other(o))]
  <1>4. nat \in BOOLEAN
    BY DEF IceInv, TypeOK
  <1>5. \A o \in Agents : /\ Other(o) \in Agents /\ AllCandidates(Other(o)) \subseteq Candidates
                          /\ Cardinality(AllCandidates(Other(o))) \in 0..2
    <2>1. \A o \in Agents : Other(o) \in Agents
      BY TwoAgents
    <2>2. \A a \in Agents : /\ AllCandidates(a) \subseteq Candidates
                            /\ Cardinality(AllCandidates(a)) \in {1, 2}
      BY <1>4, CandidateCount
    <2> QED BY <2>1, <2>2
  <1>6. \A o \in Agents : x[o] = c(o)
    <2> TAKE o \in Agents
    <2>1. x[o] = [d[o] EXCEPT !.rcand = d[o].rcand \cup d[Other(o)].attr_m]
      BY DEF Exchanged
    <2>2. d[o].rcand \cup d[Other(o)].attr_m = AllCandidates(Other(o))
      BY <1>1, <1>3, <1>5
    <2> QED BY <2>1, <2>2
  <1>7. \A o \in Agents : /\ c(o) \in AgentRec
                          /\ c(o).up /\ c(o).gathering_ok /\ ~c(o).conncheck_ok
                          /\ c(o).lcand = AllCandidates(o) /\ c(o).attr_m = AllCandidates(o)
                          /\ c(o).rcand = AllCandidates(Other(o)) /\ ~c(o).checking
                          /\ c(o).validl = 0
    BY <1>1, <1>2, <1>3, <1>5 DEF AgentRec
  <1> HIDE DEF c, x
  <1>8. /\ DOMAIN agent' = Agents
        /\ \A o \in Agents : agent'[o] =
              IF o \in running
              THEN [c(o) EXCEPT !.checking = TRUE, !.checkl = Cardinality(c(o).rcand)]
              ELSE c(o)
    <2>1. agent' = Started(x, running)
      BY DEF x, d
    <2> QED BY <1>6, <2>1 DEF Started
  <1>9. ASSUME NEW o \in Agents
        PROVE  /\ agent'[o] \in AgentRec
               /\ agent'[o].up /\ agent'[o].gathering_ok /\ ~agent'[o].conncheck_ok
               /\ agent'[o].lcand = AllCandidates(o)
               /\ agent'[o].attr_m = AllCandidates(o)
               /\ agent'[o].rcand = AllCandidates(Other(o))
               /\ agent'[o].checking <=> o \in running
               /\ agent'[o].validl = 0
               /\ o \in running => agent'[o].checkl = Cardinality(agent'[o].rcand)
    <2>1. CASE o \in running
      <3>1. agent'[o] = [c(o) EXCEPT !.checking = TRUE, !.checkl = Cardinality(c(o).rcand)]
        BY <1>8, <2>1
      <3>2. Cardinality(c(o).rcand) \in 0..2
        BY <1>5, <1>7
      <3> QED BY <1>7, <2>1, <3>1, <3>2 DEF AgentRec
    <2>2. CASE o \notin running
      <3>1. agent'[o] = c(o)
        BY <1>8, <2>2
      <3> QED BY <1>7, <2>2, <3>1
    <2> QED BY <2>1, <2>2
  <1>10. agent' \in [Agents -> AgentRec]
    <2>1. agent' = [o \in Agents |-> agent'[o]]
      BY DEF Started
    <2> QED BY <1>9, <2>1, Zenon
  <1> QED BY <1>9, <1>10

LEMMA SecondGatheredStep ==
  ASSUME IceInv, NEW m \in Messages, GatherResponse(m), GatheringsComplete(Described(m.to)),
         NEW running \in {{"A", "B"}, {"A"}, {}},
         agent' = Started(Exchanged(Described(m.to)), running),
         timers' = timers \cup running,
         IF running = Agents THEN UNCHANGED <<it, loop>> ELSE complete_test("ENOMEM")
  PROVE  IceInv'
  <1>1. running \in SUBSET Agents /\ "B" \in Agents /\ (running # Agents => "B" \notin running)
    BY TwoAgents
  <1>2. /\ agent' \in [Agents -> AgentRec]
        /\ \A o \in Agents : /\ agent'[o].up /\ agent'[o].gathering_ok /\ ~agent'[o].conncheck_ok
                             /\ agent'[o].lcand = AllCandidates(o)
                             /\ agent'[o].attr_m = AllCandidates(o)
                             /\ agent'[o].rcand = AllCandidates(Other(o))
                             /\ agent'[o].checking <=> o \in running
                             /\ agent'[o].validl = 0
                             /\ o \in running => agent'[o].checkl = Cardinality(agent'[o].rcand)
    BY <1>1, ExchangedFields
  <1>3. \A o \in Agents : o \in timers' \cup due' <=> o \in running
    BY <1>1, AnswerFacts, BeforeExchange
  <1>4. net' \cup batch' = {}
    <2> SUFFICES ASSUME NEW o \in net' \cup batch' PROVE FALSE
      OBVIOUS
    <2>1. o \in net \cup batch /\ o.to # m.to /\ o.to \in Agents /\ o \in Messages
      BY AnswerFacts DEF IceInv, TypeOK
    <2>2. agent[o.to].gathering_ok
      <3>1. Described(m.to)[o.to] = agent[o.to]
        BY <2>1, DescribedFields
      <3> QED BY <2>1, <3>1 DEF GatheringsComplete
    <2>3. ~CheckDue(o.to)
      BY <2>1, AnswerFacts, BeforeExchange
    <2> QED BY <2>1, <2>2, <2>3, MessageKinds DEF IceInv, Tokens, AnswerDue, ResultDue
  <1>5. ~it.failed
    <2> SUFFICES ASSUME it.failed PROVE FALSE
      OBVIOUS
    <2>1. PICK o \in Agents : Stuck(o)
      BY AnswerFacts, BeforeExchange DEF IceInv, ErrorLeavesTrace
    <2>2. o # m.to
      BY <2>1, AnswerFacts DEF Stuck, NoToken
    <2>3. Described(m.to)[o] = agent[o]
      BY <2>2, DescribedFields
    <2>4. agent[o].gathering_ok
      BY <2>3 DEF GatheringsComplete
    <2> QED BY <2>1, <2>4, AnswerFacts, BeforeExchange DEF Stuck
  <1>6. /\ it' \in [err : Errors, failed : BOOLEAN, result : Errors \cup {"none"}]
        /\ loop' \in [at : {"alloc", "poll", "fd", "tmr", "done"}, polling : BOOLEAN]
        /\ loop'.at = loop.at /\ it'.result = it.result
        /\ running = Agents => it' = it
    <2>1. CASE running = Agents
      BY <2>1 DEF IceInv, TypeOK
    <2>2. CASE running # Agents
      <3>1. TypeOK /\ "ENOMEM" \in Errors /\ complete_test("ENOMEM")
        BY <2>2 DEF IceInv, Errors
      <3> QED BY <2>2, <3>1, CompleteTest
    <2> QED BY <2>1, <2>2
  <1>7. TypeOK'
    BY <1>1, <1>2, <1>6, AnswerFacts DEF IceInv, TypeOK, AgentRec, Timers
  <1>8. Turns'
    BY <1>6, AnswerFacts DEF IceInv, Turns
  <1>9. Tokens'
    <2>1. timers' \cap due' = {}
      BY AnswerFacts
    <2>2. \A o \in Agents : o \in running => CheckDue(o)'
      BY <1>2 DEF CheckDue
    <2> QED BY <1>3, <1>4, <2>1, <2>2 DEF Tokens
  <1>10. Gathering'
    <2>1. \A o \in Agents : AllCandidates(o)' = AllCandidates(o)
      BY AnswerFacts DEF AllCandidates
    <2>2. GatheringsComplete(agent')
      BY <1>2 DEF GatheringsComplete
    <2> QED BY <1>2, <2>1, <2>2 DEF Gathering
  <1>11. ErrorLeavesTrace'
    <2>1. CASE running = Agents
      BY <1>5, <1>6, <2>1 DEF ErrorLeavesTrace
    <2>2. CASE running # Agents
      <3>1. NoToken("B")'
        BY <1>1, <1>3, <1>4, <2>2 DEF NoToken
      <3>2. Stuck("B")'
        BY <1>1, <1>2, <3>1 DEF Stuck, GatheringsComplete
      <3> QED BY <1>1, <3>2 DEF ErrorLeavesTrace
    <2> QED BY <2>1, <2>2
  <1>12. ChecksAfterExchange'
    <2> SUFFICES ASSUME NEW o \in Agents, agent'[o].checking \/ agent'[o].conncheck_ok
                 PROVE  /\ agent'[o].rcand = agent'[Other(o)].lcand
                        /\ agent'[o].checkl + agent'[o].validl = Cardinality(agent'[o].rcand)
      BY DEF ChecksAfterExchange
    <2>1. Other(o) \in Agents /\ agent'[o].checkl \in 0..2
      BY <1>2, TwoAgents DEF AgentRec
    <2> QED BY <1>2, <2>1
  <1>13. SuccessIsSpotless'
    BY <1>6, AnswerFacts DEF IceInv, Turns, SuccessIsSpotless
  <1> QED BY <1>7, <1>8, <1>9, <1>10, <1>11, <1>12, <1>13 DEF IceInv

LEMMA GatherResponseStep ==
  ASSUME IceInv, NEW m \in Messages, GatherResponse(m) PROVE IceInv'
  <1>1. SendSdpOk(m.to)
    BY AnswerFacts
  <1>2. CASE complete_test("EPROTO") /\ UNCHANGED <<agent, timers>>
    BY <1>2, RefusedStep
  <1>3. CASE icetest_check_gatherings(Described(m.to))
    BY <1>3, FirstGatheredStep, SecondGatheredStep DEF icetest_check_gatherings
  <1> QED BY <1>1, <1>2, <1>3 DEF GatherResponse, Described

-----------------------------------------------------------------------------
(* ICE: connectivity checks.                                               *)

\* An agent whose checks are not over: both have gathered, and it knows all
\* the candidates of the other.
LEMMA CheckDueFacts ==
  ASSUME IceInv, NEW ag \in Agents, CheckDue(ag)
  PROVE  /\ GatheringsComplete(agent) /\ agent[ag].rcand = AllCandidates(Other(ag))
         /\ agent[ag].lcand = AllCandidates(ag) /\ Other(ag) \in Agents
         /\ agent[ag].rcand = agent[Other(ag)].lcand
         /\ agent[ag].checkl = Cardinality(agent[ag].rcand) /\ agent[ag].validl = 0
         /\ ~agent[ag].conncheck_ok /\ nat \in BOOLEAN
  <1>1. agent[ag].checking /\ ~agent[ag].conncheck_ok /\ agent[ag].validl = 0
    BY DEF CheckDue
  <1>2. GatheringsComplete(agent)
    BY <1>1 DEF IceInv, Gathering
  <1>3. Other(ag) \in Agents /\ nat \in BOOLEAN
    BY TwoAgents DEF IceInv, TypeOK
  <1>4. agent[ag].lcand = AllCandidates(ag) /\ agent[Other(ag)].lcand = AllCandidates(Other(ag))
    BY <1>2, <1>3 DEF IceInv, Gathering, GatheringsComplete
  <1>5. /\ agent[ag].rcand = agent[Other(ag)].lcand
        /\ agent[ag].checkl + agent[ag].validl = Cardinality(agent[ag].rcand)
    BY <1>1 DEF IceInv, ChecksAfterExchange
  <1>6. agent[ag].checkl + agent[ag].validl = agent[ag].checkl
    BY <1>1, AgentFields DEF IceInv
  <1> QED BY <1>1, <1>2, <1>3, <1>4, <1>5, <1>6

\* The checks of ag are over, in whatever way: ag becomes b.
LEMMA EndsChecks ==
  ASSUME IceInv, NEW ag \in Agents, CheckDue(ag), ~NoToken(ag), NoToken(ag)', Fewer,
         NEW b \in AgentRec, agent' = [agent EXCEPT ![ag] = b], nat' = nat,
         b.up = agent[ag].up, b.gathering_ok = agent[ag].gathering_ok,
         b.lcand = agent[ag].lcand, b.attr_m = agent[ag].attr_m, b.rcand = agent[ag].rcand,
         ~b.checking, b.checkl + b.validl = agent[ag].checkl + agent[ag].validl
  PROVE  /\ agent' \in [Agents -> AgentRec]
         /\ Tokens' /\ Gathering' /\ ChecksAfterExchange'
         /\ \A o \in Agents : (Stuck(o) => Stuck(o)') /\ (Wrong(o) => Wrong(o)')
         /\ ~b.conncheck_ok => Stuck(ag)'
         /\ (b.conncheck_ok /\ (b.checkl # 0 \/ b.validl # 1)) => Wrong(ag)'
  <1>1. agent \in [Agents -> AgentRec]
    BY DEF IceInv, TypeOK, AgentRec
  <1>2. /\ agent' \in [Agents -> AgentRec] /\ agent'[ag] = b
        /\ \A o \in Agents : o # ag => agent'[o] = agent[o]
    BY <1>1
  <1>3. GatheringsComplete(agent) /\ GatheringsComplete(agent')
    BY <1>2, CheckDueFacts DEF GatheringsComplete
  <1>4. Tokens'
    <2>1. ASSUME NEW m \in net' \cup batch'
          PROVE  m \in net \cup batch /\ m.to \in Agents /\ m.to # ag /\ agent'[m.to] = agent[m.to]
      BY <1>2, MessageKinds DEF IceInv, TypeOK, Fewer, NoToken
    <2>2. \A m \in net' \cup batch' :
             /\ agent'[m.to].up /\ m.to \notin timers' \cup due'
             /\ "answer" \in DOMAIN m => AnswerDue(m)'
             /\ "valid" \in DOMAIN m => ResultDue(m)'
      BY <2>1 DEF IceInv, Tokens, AnswerDue, ResultDue, CheckDue, Fewer
    <2>3. \A o \in Agents : o \in timers' \cup due' => CheckDue(o)'
      BY <1>2 DEF IceInv, Tokens, CheckDue, Fewer, NoToken
    <2>4. \A m, o \in net' \cup batch' : m.to = o.to => m = o
      BY <2>1 DEF IceInv, Tokens
    <2> QED BY <2>2, <2>3, <2>4 DEF Tokens, Fewer
  <1>5. Gathering'
    BY <1>2, <1>3 DEF IceInv, Gathering, AllCandidates
  <1>6. ChecksAfterExchange'
    <2> SUFFICES ASSUME NEW o \in Agents, agent'[o].checking \/ agent'[o].conncheck_ok
                 PROVE  /\ agent'[o].rcand = agent'[Other(o)].lcand
                        /\ agent'[o].checkl + agent'[o].validl = Cardinality(agent'[o].rcand)
      BY DEF ChecksAfterExchange
    <2>1. Other(o) \in Agents
      BY TwoAgents
    <2>2. agent'[Other(o)].lcand = agent[Other(o)].lcand
      BY <1>2, <2>1
    <2>3. agent[o].checking \/ agent[o].conncheck_ok
      BY <1>2 DEF CheckDue
    <2>4. /\ agent[o].rcand = agent[Other(o)].lcand
          /\ agent[o].checkl + agent[o].validl = Cardinality(agent[o].rcand)
      BY <2>3 DEF IceInv, ChecksAfterExchange
    <2> QED BY <1>2, <2>2, <2>4
  <1>7. ASSUME NEW o \in Agents PROVE (Stuck(o) => Stuck(o)') /\ (Wrong(o) => Wrong(o)')
    <2>1. CASE o = ag
      BY <2>1 DEF Stuck, Wrong, CheckDue
    <2>2. CASE o # ag
      <3>1. NoToken(o) => NoToken(o)'
        BY DEF NoToken, Fewer
      <3> QED BY <1>2, <1>3, <2>2, <3>1 DEF Stuck, Wrong
    <2> QED BY <2>1, <2>2
  <1>8. ~b.conncheck_ok => Stuck(ag)'
    BY <1>2, <1>3 DEF Stuck
  <1>9. (b.conncheck_ok /\ (b.checkl # 0 \/ b.validl # 1)) => Wrong(ag)'
    BY <1>2 DEF Wrong
  <1> QED BY <1>2, <1>4, <1>5, <1>6, <1>7, <1>8, <1>9

\* The first check is on its way.
LEMMA PaceSendsStep ==
  ASSUME IceInv, NEW ag \in Agents, loop.at = "tmr", ag \in due, due' = due \ {ag},
         NEW v \in 0..agent[ag].checkl, net' = net \cup {[to |-> ag, valid |-> v]},
         UNCHANGED <<agent, it, loop, timers, nat, batch, fired>>
  PROVE  IceInv'
  <1> DEFINE msg == [to |-> ag, valid |-> v]
  <1>1. CheckDue(ag) /\ ag \notin timers /\ batch = {} /\ agent[ag].checkl \in 0..2
    BY AgentFields DEF IceInv, Tokens, Turns
  <1>2. /\ msg \in Messages /\ msg.to = ag /\ "valid" \in DOMAIN msg /\ "answer" \notin DOMAIN msg
        /\ msg.valid = v
    BY <1>1 DEF Messages
  <1>3. \A m \in net : m.to # ag
    BY DEF IceInv, Tokens
  <1> HIDE DEF msg
  <1>4. net' = net \cup {msg}
    BY DEF msg
  <1>5. TypeOK' /\ Turns' /\ Gathering' /\ ChecksAfterExchange' /\ SuccessIsSpotless'
    <2>1. TypeOK'
      BY <1>2, <1>4 DEF IceInv, TypeOK
    <2>2. Turns' /\ SuccessIsSpotless'
      BY DEF IceInv, Turns, SuccessIsSpotless
    <2>3. Gathering' /\ ChecksAfterExchange'
      BY DEF IceInv, Gathering, AllCandidates, ChecksAfterExchange
    <2> QED BY <2>1, <2>2, <2>3
  <1>6. Tokens'
    <2>1. net' \cap batch' = {} /\ timers' \cap due' = {}
      BY <1>1 DEF IceInv, Tokens
    <2>2. \A m, o \in net' \cup batch' : m.to = o.to => m = o
      BY <1>1, <1>2, <1>3, <1>4 DEF IceInv, Tokens
    <2>3. \A m \in net : /\ agent'[m.to].up /\ m.to \notin timers' \cup due'
                         /\ "answer" \in DOMAIN m => AnswerDue(m)'
                         /\ "valid" \in DOMAIN m => ResultDue(m)'
      BY DEF IceInv, Tokens, AnswerDue, ResultDue, CheckDue
    <2>4. /\ agent'[ag].up /\ ag \notin timers' \cup due' /\ ResultDue(msg)'
      <3>1. agent[ag].up
        BY <1>1, CheckDueFacts DEF IceInv, Gathering, GatheringsComplete
      <3>2. ResultDue(msg)'
        BY <1>1, <1>2 DEF ResultDue, CheckDue
      <3> QED BY <1>1, <3>1, <3>2
    <2>5. \A o \in Agents : o \in timers' \cup due' => CheckDue(o)'
      BY DEF IceInv, Tokens, CheckDue
    <2>6. \A m \in net' \cup batch' : m \in net \/ m = msg
      BY <1>1, <1>4
    <2> QED BY <1>2, <2>1, <2>2, <2>3, <2>4, <2>5, <2>6 DEF Tokens
  <1>7. ErrorLeavesTrace'
    <2> SUFFICES ASSUME it.failed PROVE \E o \in Agents : Stuck(o)' \/ Wrong(o)'
      BY DEF ErrorLeavesTrace
    <2>1. PICK o \in Agents : Stuck(o) \/ Wrong(o)
      BY DEF IceInv, ErrorLeavesTrace
    <2>2. CASE Wrong(o)
      BY <2>2 DEF Wrong
    <2>3. CASE Stuck(o)
      <3>1. o # ag
        BY <2>3 DEF Stuck, NoToken
      <3>2. NoToken(o)'
        BY <1>2, <1>4, <2>3, <3>1 DEF Stuck, NoToken
      <3> QED BY <2>3, <3>2 DEF Stuck
    <2> QED BY <2>1, <2>2, <2>3
  <1> QED BY <1>5, <1>6, <1>7 DEF IceInv

\* The checks of ag are over with an error, or with wrong pairs, or well.
LEMMA ChecksOverStep ==
  ASSUME IceInv, NEW ag \in Agents, CheckDue(ag), ~NoToken(ag), NoToken(ag)', Fewer,
         NEW b \in AgentRec, agent' = [agent EXCEPT ![ag] = b],
         b.up = agent[ag].up, b.gathering_ok = agent[ag].gathering_ok,
         b.lcand = agent[ag].lcand, b.attr_m = agent[ag].attr_m, b.rcand = agent[ag].rcand,
         ~b.checking, b.checkl + b.validl = agent[ag].checkl + agent[ag].validl,
         UNCHANGED <<nat, fired>>, loop.at \in {"fd", "tmr"},
         net' \subseteq Messages, batch' \subseteq Messages,
         timers' \subseteq Timers, due' \subseteq Timers,
         batch' # {} => batch # {}, due' # {} => due # {},
         \/ UNCHANGED <<it, loop>>
         \/ /\ \E e \in Errors : complete_test(e)
            /\ b.conncheck_ok => b.checkl # 0 \/ b.validl # 1
  PROVE  IceInv'
  <1>1. /\ agent' \in [Agents -> AgentRec]
        /\ Tokens' /\ Gathering' /\ ChecksAfterExchange'
        /\ \A o \in Agents : (Stuck(o) => Stuck(o)') /\ (Wrong(o) => Wrong(o)')
        /\ ~b.conncheck_ok => Stuck(ag)'
        /\ (b.conncheck_ok /\ (b.checkl # 0 \/ b.validl # 1)) => Wrong(ag)'
    BY EndsChecks
  <1>2. /\ it' \in [err : Errors, failed : BOOLEAN, result : Errors \cup {"none"}]
        /\ loop' \in [at : {"alloc", "poll", "fd", "tmr", "done"}, polling : BOOLEAN]
        /\ loop'.at = loop.at /\ it'.result = it.result
    <2>1. CASE UNCHANGED <<it, loop>>
      BY <2>1 DEF IceInv, TypeOK
    <2>2. CASE \E e \in Errors : complete_test(e)
      BY <2>2, CompleteTest DEF IceInv
    <2> QED BY <2>1, <2>2
  <1>3. TypeOK'
    BY <1>1, <1>2 DEF IceInv, TypeOK, AgentRec
  <1>4. Turns'
    BY <1>2 DEF IceInv, Turns
  <1>5. SuccessIsSpotless'
    BY <1>2 DEF IceInv, Turns, SuccessIsSpotless
  <1>6. ErrorLeavesTrace'
    <2>1. CASE UNCHANGED <<it, loop>>
      BY <1>1, <2>1 DEF IceInv, ErrorLeavesTrace
    <2>2. CASE b.conncheck_ok => b.checkl # 0 \/ b.validl # 1
      BY <1>1, <2>2 DEF ErrorLeavesTrace
    <2> QED BY <2>1, <2>2
  <1> QED BY <1>1, <1>3, <1>4, <1>5, <1>6 DEF IceInv

LEMMA PaceTimeoutStep == ASSUME IceInv, NEW ag \in Agents, PaceTimeout(ag) PROVE IceInv'
  <1>1. /\ loop.at = "tmr" /\ ag \in due /\ due' = due \ {ag} /\ UNCHANGED <<nat, batch, fired>>
    BY DEF PaceTimeout
  <1>2. CASE /\ \E v \in 0..agent[ag].checkl : net' = net \cup {[to |-> ag, valid |-> v]}
             /\ UNCHANGED <<agent, it, loop, timers>>
    BY <1>1, <1>2, PaceSendsStep
  <1>3. CASE /\ \E e \in {"ENOMEM", "ENOENT"} :
                   agent_connchk_handler(ag, [agent[ag] EXCEPT !.checking = FALSE], e)
             /\ UNCHANGED net
    <2> DEFINE b == [agent[ag] EXCEPT !.checking = FALSE]
    <2>1. PICK e \in {"ENOMEM", "ENOENT"} :
             agent' = [agent EXCEPT ![ag] = b] /\ complete_test(e) /\ UNCHANGED timers
      BY <1>3 DEF agent_connchk_handler
    <2>2. CheckDue(ag) /\ ag \notin timers /\ \A m \in net \cup batch : m.to # ag
      BY <1>1 DEF IceInv, Tokens
    <2>3. /\ b \in AgentRec /\ b.up = agent[ag].up /\ b.gathering_ok = agent[ag].gathering_ok
          /\ b.lcand = agent[ag].lcand /\ b.attr_m = agent[ag].attr_m /\ b.rcand = agent[ag].rcand
          /\ ~b.checking /\ b.checkl = agent[ag].checkl /\ b.validl = agent[ag].validl
          /\ b.conncheck_ok = agent[ag].conncheck_ok
      <3>1. agent[ag] \in AgentRec
        BY DEF IceInv, TypeOK, AgentRec
      <3> QED BY <3>1 DEF AgentRec
    <2> HIDE DEF b
    <2>4. Fewer /\ ~NoToken(ag) /\ NoToken(ag)'
      BY <1>1, <1>3, <2>1, <2>2 DEF IceInv, Tokens, Fewer, NoToken
    <2>5. e \in Errors /\ ~b.conncheck_ok
      BY <2>2, <2>3 DEF Errors, CheckDue
    <2>6. /\ net' \subseteq Messages /\ batch' \subseteq Messages
          /\ timers' \subseteq Timers /\ due' \subseteq Timers
      BY <1>1, <1>3, <2>1 DEF IceInv, TypeOK
    <2>7. (batch' # {} => batch # {}) /\ (due' # {} => due # {})
      BY <1>1
    <2> QED BY <1>1, <2>1, <2>2, <2>3, <2>4, <2>5, <2>6, <2>7, ChecksOverStep
  <1> QED BY <1>2, <1>3 DEF PaceTimeout

\* agent_connchk_handler finds nothing wrong with one valid pair and an empty
\* check list: then there is no NAT.
LEMMA NothingWrong ==
  ASSUME IceInv, NEW ag \in Agents, CheckDue(ag), NEW a,
         a.lcand = agent[ag].lcand, a.rcand = agent[ag].rcand,
         a.checkl = 0, a.validl = 1, agent[ag].checkl = 1
  PROVE  ConnchkError(a, ag) = "OK"
  <1>1. /\ agent[ag].rcand = AllCandidates(Other(ag)) /\ agent[ag].lcand = AllCandidates(ag)
        /\ Other(ag) \in Agents /\ Cardinality(agent[ag].rcand) = 1 /\ nat \in BOOLEAN
    BY CheckDueFacts
  <1>2. ~nat
    <2>1. nat => Cardinality(AllCandidates(Other(ag))) = 2
      BY <1>1, CandidateCount
    <2>2. Cardinality(AllCandidates(Other(ag))) = 1
      BY <1>1
    <2> QED BY <2>1, <2>2
  <1>3. /\ a.lcand = {<<ag, "host">>} /\ Cardinality(a.lcand) = 1
        /\ a.rcand = {<<Other(ag), "host">>} /\ Cardinality(a.rcand) = 1
    BY <1>1, <1>2, CandidateCount
  <1>4. Selected(a, ag) = <<ag, "host">>
    <2>1. <<ag, "srflx">> \notin a.lcand
      BY <1>3
    <2> QED BY <2>1 DEF Selected
  <1> QED BY <1>3, <1>4 DEF ConnchkError

LEMMA CheckResponseStep ==
  ASSUME IceInv, NEW m \in Messages, CheckResponse(m) PROVE IceInv'
  <1> DEFINE ag == m.to
             b == [agent[ag] EXCEPT !.checking = FALSE, !.validl = m.valid,
                                    !.checkl = agent[ag].checkl - m.valid]
             c == [b EXCEPT !.conncheck_ok = TRUE]
             e == IF m.valid = 0 THEN "ENOENT" ELSE "OK"
  <1>1. /\ loop.at = "fd" /\ m \in batch /\ "valid" \in DOMAIN m /\ batch' = batch \ {m}
        /\ agent_connchk_handler(ag, b, e) /\ UNCHANGED <<nat, due, net, fired>>
    BY DEF CheckResponse
  <1>2. ag \in Agents /\ m.valid \in 0..2 /\ due = {} /\ m \notin net
    BY <1>1, MessageKinds DEF IceInv, Turns, Tokens
  <1>3. /\ CheckDue(ag) /\ m.valid <= agent[ag].checkl /\ ag \notin timers /\ ~NoToken(ag)
    BY <1>1 DEF IceInv, Tokens, ResultDue, NoToken
  <1>4. agent[ag].checkl \in 0..2 /\ agent[ag].validl = 0 /\ ~agent[ag].conncheck_ok
    BY <1>2, <1>3, AgentFields DEF IceInv, CheckDue
  <1>5. agent[ag].checkl - m.valid \in 0..2 /\ (agent[ag].checkl - m.valid) + m.valid = agent[ag].checkl
    BY <1>2, <1>3, <1>4
  <1>6. /\ b \in AgentRec /\ b.up = agent[ag].up /\ b.gathering_ok = agent[ag].gathering_ok
        /\ b.lcand = agent[ag].lcand /\ b.attr_m = agent[ag].attr_m /\ b.rcand = agent[ag].rcand
        /\ ~b.checking /\ b.checkl = agent[ag].checkl - m.valid /\ b.validl = m.valid
        /\ b.conncheck_ok = agent[ag].conncheck_ok
    <2>1. agent[ag] \in AgentRec
      BY <1>2 DEF IceInv, TypeOK, AgentRec
    <2> QED BY <1>2, <1>5, <2>1 DEF AgentRec
  <1> HIDE DEF b
  <1>7. /\ c \in AgentRec /\ c.up = b.up /\ c.gathering_ok = b.gathering_ok
        /\ c.lcand = b.lcand /\ c.attr_m = b.attr_m /\ c.rcand = b.rcand
        /\ c.checking = b.checking /\ c.checkl = b.checkl /\ c.validl = b.validl
    BY <1>6 DEF AgentRec
  <1> HIDE DEF c
  <1>8. /\ b.checkl + b.validl = agent[ag].checkl + agent[ag].validl
        /\ c.checkl + c.validl = agent[ag].checkl + agent[ag].validl
    BY <1>4, <1>5, <1>6, <1>7
  <1>9. \A o \in net' \cup batch' : o \in net \cup batch /\ o.to # ag
    BY <1>1, <1>2 DEF IceInv, Tokens
  <1>10. /\ net' \subseteq Messages /\ batch' \subseteq Messages /\ due' \subseteq Timers
         /\ (batch' # {} => batch # {}) /\ (due' # {} => due # {})
    BY <1>1 DEF IceInv, TypeOK
  <1>11. ASSUME timers' \in {timers, timers \cup {"test"}}
         PROVE  Fewer /\ NoToken(ag)' /\ timers' \subseteq Timers
    <2>1. "test" \notin Agents /\ "test" \in Timers
      BY DEF Agents, Timers
    <2>2. timers' \subseteq Timers
      BY <1>11, <2>1 DEF IceInv, TypeOK
    <2>3. Fewer
      BY <1>1, <1>2, <1>9, <1>11, <2>1 DEF IceInv, Tokens, Fewer
    <2>4. NoToken(ag)'
      BY <1>1, <1>2, <1>3, <1>9, <1>11, <2>1 DEF NoToken
    <2> QED BY <2>2, <2>3, <2>4
  <1>12. CASE /\ e # "OK" /\ agent' = [agent EXCEPT ![ag] = b]
              /\ complete_test(e) /\ UNCHANGED timers
    <2>1. e \in Errors
      BY DEF Errors
    <2> HIDE DEF e
    <2> QED BY <1>1, <1>2, <1>3, <1>4, <1>6, <1>8, <1>10, <1>11, <1>12, <2>1, ChecksOverStep
  <1>13. CASE /\ agent' = [agent EXCEPT ![ag] = b]
              /\ complete_test("EPROTO") /\ UNCHANGED timers
    <2>1. "EPROTO" \in Errors
      BY DEF Errors
    <2> QED BY <1>1, <1>2, <1>3, <1>4, <1>6, <1>8, <1>10, <1>11, <1>13, <2>1, ChecksOverStep
  <1>14. CASE /\ agent' = [agent EXCEPT ![ag] = c] /\ ConnchkError(b, ag) # "OK"
              /\ complete_test(ConnchkError(b, ag)) /\ UNCHANGED timers
    <2>1. ConnchkError(b, ag) \in Errors
      BY DEF ConnchkError, Errors
    <2>2. c.checkl # 0 \/ c.validl # 1
      <3> SUFFICES ASSUME c.checkl = 0, c.validl = 1 PROVE FALSE
        OBVIOUS
      <3>1. b.checkl = 0 /\ b.validl = 1 /\ agent[ag].checkl = 1
        BY <1>4, <1>6, <1>7, <1>8
      <3>2. ConnchkError(b, ag) = "OK"
        BY <1>2, <1>3, <1>6, <3>1, NothingWrong
      <3> QED BY <1>14, <3>2
    <2> QED BY <1>1, <1>2, <1>3, <1>6, <1>7, <1>8, <1>10, <1>11, <1>14, <2>1, <2>2, ChecksOverStep
  <1>15. CASE /\ agent' = [agent EXCEPT ![ag] = c] /\ UNCHANGED <<it, loop>>
              /\ timers' \in {timers, timers \cup {"test"}}
    BY <1>1, <1>2, <1>3, <1>6, <1>7, <1>8, <1>10, <1>11, <1>15, ChecksOverStep
  <1>16. \/ /\ e # "OK" /\ agent' = [agent EXCEPT ![ag] = b]
            /\ complete_test(e) /\ UNCHANGED timers
         \/ /\ agent' = [agent EXCEPT ![ag] = b]
            /\ complete_test("EPROTO") /\ UNCHANGED timers
         \/ /\ agent' = [agent EXCEPT ![ag] = c] /\ ConnchkError(b, ag) # "OK"
            /\ complete_test(ConnchkError(b, ag)) /\ UNCHANGED timers
         \/ /\ agent' = [agent EXCEPT ![ag] = c] /\ UNCHANGED <<it, loop>>
            /\ timers' \in {timers, timers \cup {"test"}}
    <2> HIDE DEF e
    <2> QED BY <1>1 DEF agent_connchk_handler, c
  <1> QED BY <1>12, <1>13, <1>14, <1>15, <1>16

\* Every step of the ICE test keeps its invariant.
LEMMA IceNextStep == ASSUME IceInv, Next PROVE IceInv'
  BY AgentAllocStep, AgentAllocFailsStep, FdPollStep, TmrPollStep, NextTurnStep,
     GatherResponseStep, CheckResponseStep, PaceTimeoutStep, StunserverRecvStep,
     TestTimerStep, WatchdogStep, LoopEndsStep DEF Next

\* A run of the DTLS test leaves the variables of the ICE test alone.
LEMMA IceStutter == ASSUME IceInv, UNCHANGED vars PROVE IceInv'
  <1> USE DEF vars
  <1>1. TypeOK' /\ Turns' /\ SuccessIsSpotless'
    BY DEF IceInv, TypeOK, Turns, SuccessIsSpotless
  <1>2. Tokens'
    BY DEF IceInv, Tokens, AnswerDue, ResultDue, CheckDue
  <1>3. Gathering' /\ ChecksAfterExchange'
    BY DEF IceInv, Gathering, AllCandidates, ChecksAfterExchange
  <1>4. ErrorLeavesTrace'
    BY DEF IceInv, ErrorLeavesTrace, Stuck, Wrong, NoToken
  <1> QED BY <1>1, <1>2, <1>3, <1>4 DEF IceInv

LEMMA IceInvariant == TestsSpec => []IceInv
  <1>1. TestsInit => IceInv
    BY InitIceInv DEF TestsInit
  <1>2. IceInv /\ [TestsNext]_testVars => IceInv'
    <2> SUFFICES ASSUME IceInv, [TestsNext]_testVars PROVE IceInv'
      OBVIOUS
    <2>1. CASE Next
      BY <2>1, IceNextStep
    <2>2. CASE UNCHANGED vars
      BY <2>2, IceStutter
    <2> QED BY <2>1, <2>2 DEF TestsNext, IceRuns, DtlsRuns, testVars
  <1> QED BY <1>1, <1>2, PTL DEF TestsSpec

\* An agent of the ICE test that checks, or has checked, knows exactly what
\* the other has gathered and has every pair in its lists, whatever the order
\* of the answers, however many strange datagrams arrive.
THEOREM ChecksFollowExchange == TestsSpec => []ChecksAfterExchange
  <1>1. IceInv => ChecksAfterExchange
    BY DEF IceInv
  <1> QED BY <1>1, IceInvariant, PTL

\* The ICE loop test reports success only when no handler ever reported an
\* error, the watchdog has not fired and there is no NAT, although
\* complete_test overwrites the error and handlers run on after re_cancel.
THEOREM SuccessSpotless == TestsSpec => []SuccessIsSpotless
  <1>1. IceInv => SuccessIsSpotless
    BY DEF IceInv
  <1> QED BY <1>1, IceInvariant, PTL

\* Every error that a handler of the ICE test reports leaves an agent that
\* can never be verified (ErrorLeavesTrace): this, and not the stored error,
\* which the next handler overwrites, is why success can be trusted.
THEOREM ErrorsLeaveTrace == TestsSpec => []ErrorLeavesTrace
  <1>1. IceInv => ErrorLeavesTrace
    BY DEF IceInv
  <1> QED BY <1>1, IceInvariant, PTL
=============================================================================
