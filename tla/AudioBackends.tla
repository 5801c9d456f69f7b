---------------------------- MODULE AudioBackends ---------------------------
(***************************************************************************)
(* The audio library as it is built: CMake compiles one back end behind a  *)
(* common header, PortAudio (AudioDevices) or the PS5 (AudioThread).  The  *)
(* variables of the back end that is not built keep their initial values.  *)
(***************************************************************************)
EXTENDS AudioDevices

CONSTANT Handles   \* port handles of the PS5

ASSUME HandlesAssumption == Handles \subseteq Nat \ {0}

VARIABLES
    backend,   \* the back end that is built
    callPc, begun, mem, apc, handle, open, service, stray   \* AudioThread's

ps5Vars == <<callPc, begun, mem, apc, handle, open, service, stray>>
libVars == <<backend, vars, ps5Vars>>

PS5 == INSTANCE AudioThread WITH tpc <- callPc, calls <- begun

LibInit == backend \in {"PortAudio", "PS5"} /\ Init /\ PS5!Init

PortAudioStep == backend = "PortAudio" /\ Next /\ UNCHANGED <<backend, ps5Vars>>
PS5CallStep == backend = "PS5" /\ PS5!CallThread /\ UNCHANGED <<backend, vars>>
PS5AudioStep(s) == backend = "PS5" /\ PS5!AudioThread(s) /\ UNCHANGED <<backend, vars>>

LibNext ==
    \/ PortAudioStep
    \/ PS5CallStep
    \/ \E s \in PS5!Streams : PS5AudioStep(s)

LibSpec == LibInit /\ [][LibNext]_libVars

-----------------------------------------------------------------------------
\* On the PS5 a stream is released only after its thread has opened both ports
\* (rawr_AudioStream_Stop closes ports and joins nobody): see AudioThread.
OpensBeforeRelease == PS5!OpensBeforeRelease

\* On the PS5 an open port belongs to a stream that has not been released
\* (rawr_AudioStream_Cleanup closes nothing): see AudioThread.
OpenPortHasOwner == PS5!OpenPortHasOwner
=============================================================================
