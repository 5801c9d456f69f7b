--------------------------- MODULE MCSignalClient ---------------------------
(***************************************************************************)
(* The test program with one pair of clients.  Pairs share the counter     *)
(* that ends the program and, at the server, the channel of cut names,     *)
(* where a client is dropped at the next chunk; SignalClientProofs has the *)
(* safety properties for any number of pairs.  A tick is                   *)
(* CLIENT_TIMER_DELAY (5 s); the server's idle time is two (10 s).         *)
(***************************************************************************)
EXTENDS SignalClient
=============================================================================
