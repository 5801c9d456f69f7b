---------------------------- MODULE AudioThread -----------------------------
(***************************************************************************)
(* The audio stream on the PS5 (AudioPS5.c): every started stream has a    *)
(* thread of its own that opens an output and an input port and moves one  *)
(* block at a time between them and the ring buffers.  Stop closes the     *)
(* ports and joins nobody; Cleanup then releases the stream.  The thread   *)
(* of a call (Call.c) sets up, starts, stops and releases one stream per   *)
(* call.  The data path is in AudioStream.                                 *)
(*                                                                         *)
(* The console's library is external: a port call on a handle that is not  *)
(* open fails, 0 is no handle, and the user service cannot be initialised  *)
(* while it is.                                                            *)
(*                                                                         *)
(* A thread whose stream has been released reads its handles and its ring  *)
(* buffers from released memory, which is undefined behaviour: stray is    *)
(* then TRUE and nothing more is modelled.                                 *)
(***************************************************************************)
EXTENDS Integers

CONSTANTS
    MaxCalls,   \* bound on the calls, each with a stream
    Handles     \* port handles of either direction, none of them 0

VARIABLES
    tpc,        \* where the thread of the call is
    calls,      \* number of calls begun; the last one is the current one
    mem,        \* of each stream
    apc,        \* where the audio thread of each stream is
    handle,     \* priv->inHandle and priv->outHandle
    open,       \* the open ports of each direction
    service,    \* the user service is initialised
    stray       \* a stream was used after its release

portVars == <<handle, open>>
vars == <<tpc, calls, mem, apc, portVars, service, stray>>

Streams == 1..MaxCalls
Dirs == {"in", "out"}
Failed == -1
current == calls

TypeOK ==
    /\ tpc \in {"idle", "setup", "start", "run", "closeIn", "closeOut", "cleanup"}
    /\ calls \in 0..MaxCalls
    /\ mem \in [Streams -> {"none", "live", "refused", "released"}]
    /\ apc \in [Streams -> {"none", "openOut", "openIn", "play", "output", "input", "capture", "ended"}]
    /\ handle \in [Streams -> [Dirs -> Handles \cup {0, Failed}]]
    /\ open \in [Dirs -> SUBSET Handles]
    /\ {service, stray} \subseteq BOOLEAN

Init ==
    /\ tpc = "idle"
    /\ calls = 0
    /\ mem = [s \in Streams |-> "none"]
    /\ apc = [s \in Streams |-> "none"]
    /\ handle = [s \in Streams |-> [d \in Dirs |-> 0]]
    /\ open = [d \in Dirs |-> {}]
    /\ service = FALSE
    /\ stray = FALSE

\* The stream s is read or written, which nothing keeps from being released.
Touches(s) == stray' = (mem[s] \in {"refused", "released"})

-----------------------------------------------------------------------------
(* The audio thread: rawr_AudioStream_AudioThread *)

\* sceAudioOutOpen, sceAudioInOpen: a handle that is not in use, perhaps one
\* that was closed before, or an error and the end.
Opens(s, dir, next) ==
    /\ \/ \E h \in Handles \ open[dir] :
             /\ open' = [open EXCEPT ![dir] = @ \cup {h}]
             /\ handle' = [handle EXCEPT ![s][dir] = h]
             /\ apc' = [apc EXCEPT ![s] = next]
       \/ /\ handle' = [handle EXCEPT ![s][dir] = Failed]
          /\ apc' = [apc EXCEPT ![s] = "ended"]
          /\ UNCHANGED open
    /\ Touches(s)
    /\ UNCHANGED <<tpc, calls, mem, service>>

OpenOut(s) == apc[s] = "openOut" /\ Opens(s, "out", "openIn")
OpenIn(s) == apc[s] = "openIn" /\ Opens(s, "in", "play")

\* A block is read from the ring buffer to the device, or silence.
Play(s) ==
    /\ apc[s] = "play"
    /\ apc' = [apc EXCEPT ![s] = "output"]
    /\ Touches(s)
    /\ UNCHANGED <<tpc, calls, mem, portVars, service>>

\* sceAudioOutOutput, sceAudioInInput: an error ends the thread, which closes
\* nothing.
UsesPort(s, dir, next) ==
    /\ apc' = [apc EXCEPT ![s] = IF handle[s][dir] \in open[dir] THEN next ELSE "ended"]
    /\ Touches(s)
    /\ UNCHANGED <<tpc, calls, mem, portVars, service>>

Output(s) == apc[s] = "output" /\ UsesPort(s, "out", "input")
Input(s) == apc[s] = "input" /\ UsesPort(s, "in", "capture")

\* The levels are stored and the block is written to the ring buffer.
Capture(s) ==
    /\ apc[s] = "capture"
    /\ apc' = [apc EXCEPT ![s] = "play"]
    /\ Touches(s)
    /\ UNCHANGED <<tpc, calls, mem, portVars, service>>

AudioThread(s) ==
    /\ ~stray
    /\ OpenOut(s) \/ OpenIn(s) \/ Play(s) \/ Output(s) \/ Input(s) \/ Capture(s)

-----------------------------------------------------------------------------
(* The thread of the call *)

StartCall ==
    /\ tpc = "idle" /\ calls < MaxCalls
    /\ tpc' = "setup"
    /\ calls' = calls + 1
    /\ UNCHANGED <<mem, apc, portVars, service, stray>>

\* rawr_AudioStream_Setup. A failure releases what was allocated, leaves the
\* caller's pointer at it and is only logged by the call; the user service
\* stays initialised.
Setup ==
    /\ tpc = "setup" /\ tpc' = "start"
    /\ \/ ~service /\ service' = TRUE /\ mem' = [mem EXCEPT ![current] = "live"]
       \/ service' \in {service, TRUE} /\ mem' = [mem EXCEPT ![current] = "refused"]
    /\ UNCHANGED <<calls, apc, portVars, stray>>

\* rawr_AudioStream_Start: the thread is launched. The codecs are set up
\* before; they or the launch may fail, which ends the call.
Start ==
    /\ tpc = "start"
    /\ \/ tpc' = "run" /\ apc' = [apc EXCEPT ![current] = "openOut"] /\ Touches(current)
       \/ tpc' = "idle" /\ UNCHANGED <<apc, stray>>
    /\ UNCHANGED <<calls, mem, portVars, service>>

\* The call ends: rawr_AudioStream_Stop, or an error and nothing at all.
CallEnds ==
    /\ tpc = "run" /\ tpc' \in {"closeIn", "idle"}
    /\ UNCHANGED <<calls, mem, apc, portVars, service, stray>>

\* sceAudioInClose, sceAudioOutClose: a port that cannot be closed ends Stop
\* with an error, and the call with it.
Closes(dir, next) ==
    LET h == handle[current][dir]
    IN /\ IF h \in open[dir]
          THEN tpc' = next /\ open' = [open EXCEPT ![dir] = @ \ {h}]
          ELSE tpc' = "idle" /\ UNCHANGED open
       /\ UNCHANGED <<calls, mem, apc, handle, service, stray>>

\* Mutated: an input port that cannot be closed is passed over.
ClosesInAnyway ==
    /\ tpc = "closeIn" /\ tpc' = "closeOut"
    /\ open' = [open EXCEPT !["in"] = @ \ {handle[current]["in"]}]
    /\ UNCHANGED <<calls, mem, apc, handle, service, stray>>

CloseIn == tpc = "closeIn" /\ Closes("in", "closeOut")

\* Mutated: only the port whose calls take long, the input, is closed.
CloseOutSkipped ==
    /\ tpc = "closeOut" /\ tpc' = "cleanup"
    /\ UNCHANGED <<calls, mem, apc, handle, open, service, stray>>

CloseOut == tpc = "closeOut" /\ Closes("out", "cleanup")

\* rawr_AudioStream_Cleanup: everything is released, the thread is not joined.
Cleanup ==
    /\ tpc = "cleanup" /\ tpc' = "idle"
    /\ mem' = [mem EXCEPT ![current] = "released"]
    /\ service' = FALSE
    /\ UNCHANGED <<calls, apc, portVars, stray>>

CallThread ==
    /\ ~stray
    /\ StartCall \/ Setup \/ Start \/ CallEnds \/ CloseIn \/ CloseOut \/ Cleanup

Next == CallThread \/ \E s \in Streams : AudioThread(s)

Spec == Init /\ [][Next]_vars

-----------------------------------------------------------------------------
(* Properties *)

\* A stream is released only after its thread has opened both ports, although
\* rawr_AudioStream_Stop may come before the thread has run at all: a thread
\* that opened a port later would store its handle in released memory, and
\* nobody would ever close it. It is the failing sceAudioInClose of a handle
\* that is still 0 that keeps the call from releasing the stream.
OpensBeforeRelease ==
    \A s \in Streams : mem[s] = "released" => apc[s] \notin {"none", "openOut", "openIn"}

\* No port stays open on behalf of a stream that was released: whoever opened
\* it still has the handle to close it with, although opening and closing are
\* done by two threads, each may fail, Cleanup itself closes nothing, and the
\* console may give a closed handle to the next stream.
OpenPortHasOwner ==
    \A d \in Dirs : \A h \in open[d] :
        \E s \in Streams : handle[s][d] = h /\ mem[s] = "live"
=============================================================================
