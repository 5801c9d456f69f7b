---------------------------- MODULE AudioDevices ----------------------------
(***************************************************************************)
(* The audio library on PortAudio (AudioPA.c) as an application uses it:   *)
(* the list of devices between rawr_Audio_Setup and rawr_Audio_Cleanup,    *)
(* and the life of the stream that each call sets up, starts, stops and    *)
(* releases on its own thread (Call.c) while the application sleeps, or    *)
(* looks at the level meters.  The data path is in AudioStream.            *)
(*                                                                         *)
(* The application is that of playground_call.c, with any number of calls  *)
(* and of set-ups up to a bound.  Allocation succeeds.  A failed assertion *)
(* ends the program.                                                       *)
(***************************************************************************)
EXTENDS Integers

CONSTANTS
    MaxDevices,     \* bound on the devices PortAudio may list
    ChannelCount,   \* channels of a stream (Call.c asks for one)
    MaxCalls,       \* bound on the calls of a run
    MaxSetups       \* bound on the times the library is set up

ASSUME DevicesAssumption ==
    /\ {MaxCalls, MaxSetups} \subseteq Nat
    /\ {MaxDevices, ChannelCount} \subseteq Nat \ {0}

VARIABLES
    audio_priv,   \* the static record of AudioPA.c
    upc, tpc,     \* where the application and the thread of the call are
    calls,        \* number of calls begun; the current one is the last
    streams,      \* the stream of each call
    callStream,   \* call->stream: 0 is NULL, else the call that set it
    setups,       \* number of set-ups
    vanished,     \* history: a set-up found no device after a Cleanup
    abort,        \* the assertion that failed
    corrupt       \* what was released twice or used after its release

vars == <<audio_priv, upc, tpc, calls, streams, callStream, setups, vanished, abort, corrupt>>

Calls == 1..MaxCalls
NULL == -1                          \* no device
NoDevice == [in |-> 0, out |-> 0]
Channels == 0..ChannelCount + 1

NoStream == [mem |-> "none", inDevice |-> NULL, outDevice |-> NULL, pa |-> "closed"]

TypeOK ==
    /\ audio_priv.initialized \in BOOLEAN
    /\ audio_priv.deviceCount \in -1..MaxDevices
    /\ audio_priv.deviceList \in {"null", "live", "released"}
    /\ audio_priv.defaultInputId \in -1..MaxDevices - 1
    /\ audio_priv.defaultOutputId \in -1..MaxDevices - 1
    /\ \A d \in 0..MaxDevices - 1 : audio_priv.channels[d] \in [in : Channels, out : Channels]
    /\ upc \in {"setup", "idle", "incall", "joining", "cleanup", "end"}
    /\ tpc \in {"none", "setup", "addInput", "addOutput", "codec", "start", "run", "release"}
    /\ calls \in 0..MaxCalls
    /\ streams \in [Calls -> [mem : {"none", "live", "released"},
                              inDevice : -1..MaxDevices - 1, outDevice : -1..MaxDevices - 1,
                              pa : {"closed", "running", "stopped"}]]
    /\ callStream \in 0..calls
    /\ setups \in 0..MaxSetups
    /\ vanished \in BOOLEAN
    /\ abort \in {"no", "dev", "level"}
    /\ corrupt \subseteq {"deviceList", "device", "stream"}

Init ==
    /\ audio_priv = [initialized |-> FALSE, deviceCount |-> 0, deviceList |-> "null",
                     defaultInputId |-> 0, defaultOutputId |-> 0,
                     channels |-> [d \in 0..MaxDevices - 1 |-> NoDevice]]
    /\ upc = "setup" /\ tpc = "none"
    /\ calls = 0 /\ callStream = 0
    /\ streams = [c \in Calls |-> NoStream]
    /\ setups = 0
    /\ vanished = FALSE
    /\ abort = "no"
    /\ corrupt = {}

-----------------------------------------------------------------------------
(* The library *)

\* What PortAudio may list: a default device has channels of its direction,
\* and there may be none.
Listings ==
    {[n |-> n, channels |-> ch, input |-> i, output |-> o] :
        n \in 0..MaxDevices, ch \in [0..MaxDevices - 1 -> [in : Channels, out : Channels]],
        i, o \in -1..MaxDevices - 1}

IsListing(l) ==
    /\ \A d \in 0..MaxDevices - 1 :
          /\ d >= l.n => l.channels[d] = NoDevice
          /\ d < l.n => l.channels[d] # NoDevice
    /\ l.input = -1 \/ (l.input < l.n /\ l.channels[l.input].in > 0)
    /\ l.output = -1 \/ (l.output < l.n /\ l.channels[l.output].out > 0)

\* rawr_Audio_Setup once PortAudio is initialised. Whatever fails from here on,
\* the result is the success of Pa_Initialize and the library stays initialised.
AudioSetup ==
    \/ \E n \in {-1, 0} :
          /\ audio_priv' = [audio_priv EXCEPT !.initialized = TRUE, !.deviceCount = n]
          /\ vanished' = (vanished \/ audio_priv.deviceList = "released")
    \/ \E l \in {l \in Listings : IsListing(l)} :
          /\ l.n > 0
          /\ audio_priv' = [initialized |-> TRUE, deviceCount |-> l.n, deviceList |-> "live",
                            defaultInputId |-> l.input, defaultOutputId |-> l.output,
                            channels |-> l.channels]
          /\ UNCHANGED vanished

\* Mutated: the library stays initialised, so that it can be cleaned up twice.
AudioCleanupStays(p) == [p EXCEPT !.deviceList = IF @ = "null" THEN @ ELSE "released"]

\* rawr_Audio_Cleanup: the list is released and its pointer kept.
AudioCleanup(p) == [p EXCEPT !.deviceList = IF @ = "null" THEN @ ELSE "released",
                             !.initialized = FALSE]

\* Pa_Terminate stops and closes the streams that are left open.
PaTerminate == [c \in Calls |-> [streams[c] EXCEPT !.pa = "closed"]]

\* rawr_AudioDevice_DefaultInput and DefaultOutput.
Default(id) == IF id < 0 \/ id >= audio_priv.deviceCount THEN NULL ELSE id

\* A device is looked at through the list, which may be gone.
Touched == IF audio_priv.deviceList = "live" THEN {} ELSE {"device"}

\* A direction that is there has enough channels.
Fits(channels) == channels = 0 \/ channels >= ChannelCount

\* rawr_AudioStream_AddDevice: a device that has both directions takes both;
\* nothing is taken of one whose output is taken already, and the output is
\* taken before the input is looked at.
AddDevice(s, d) ==
    LET ch == audio_priv.channels[d]
        passesOut == Fits(ch.out) /\ Fits(ch.in) /\ (ch.out # 0 => s.outDevice = NULL)
        takesOut == passesOut /\ ch.out # 0
        takesIn == passesOut /\ ch.in # 0 /\ s.inDevice = NULL
    IN [s EXCEPT !.outDevice = IF takesOut THEN d ELSE @,
                 !.inDevice = IF takesIn THEN d ELSE @]

-----------------------------------------------------------------------------
(* The application: main of playground_call.c *)

\* rawr_Audio_Setup, which does nothing the second time. Pa_Initialize may
\* fail, and only that is reported.
Setup ==
    /\ upc \in {"setup", "idle"}
    /\ setups < MaxSetups
    /\ setups' = setups + 1
    /\ \/ ~audio_priv.initialized /\ upc' = "idle" /\ AudioSetup
       \/ ~audio_priv.initialized /\ upc' = "cleanup" /\ UNCHANGED <<audio_priv, vanished>>
       \/ audio_priv.initialized /\ upc' = "idle" /\ UNCHANGED <<audio_priv, vanished>>
    /\ UNCHANGED <<tpc, calls, streams, callStream, abort, corrupt>>

\* rawr_Call_Start: the thread of the call is launched.
StartCall ==
    /\ upc = "idle"
    /\ calls < MaxCalls
    /\ upc' = "incall" /\ tpc' = "setup"
    /\ calls' = calls + 1
    /\ UNCHANGED <<audio_priv, streams, callStream, setups, vanished, abort, corrupt>>

\* rawr_Call_InputLevel and OutputLevel, on the application's thread.
ReadLevel ==
    /\ upc = "incall"
    /\ abort' = IF callStream = 0 THEN "level" ELSE abort
    /\ corrupt' = IF callStream # 0 /\ streams[callStream].mem = "released"
                  THEN corrupt \cup {"stream"} ELSE corrupt
    /\ UNCHANGED <<audio_priv, upc, tpc, calls, streams, callStream, setups, vanished>>

\* rawr_Call_Stop: the thread is told to end, which it may do by itself, and joined.
StopCall ==
    /\ \/ upc = "incall" /\ upc' = "joining"
       \/ upc = "joining" /\ tpc = "none" /\ upc' = "idle"
    /\ UNCHANGED <<audio_priv, tpc, calls, streams, callStream, setups, vanished, abort, corrupt>>

\* rawr_Audio_Cleanup, at the end of main or at label cleanup. Then the
\* application ends or sets the library up again.
Cleanup ==
    /\ upc \in {"idle", "cleanup"}
    /\ IF audio_priv.initialized
       THEN /\ audio_priv' = AudioCleanup(audio_priv)
            /\ corrupt' = IF audio_priv.deviceList = "released"
                          THEN corrupt \cup {"deviceList"} ELSE corrupt
            /\ streams' = PaTerminate
       ELSE UNCHANGED <<audio_priv, corrupt, streams>>
    /\ upc' \in {"setup", "end"}
    /\ UNCHANGED <<tpc, calls, callStream, setups, vanished, abort>>

-----------------------------------------------------------------------------
(* The thread of a call: rawr_Call_SipThread, as far as it touches audio *)

stream == streams[calls]

\* rawr_AudioStream_Setup
StreamSetup ==
    /\ tpc = "setup" /\ tpc' = "addInput"
    /\ callStream' = calls
    /\ streams' = [streams EXCEPT ![calls].mem = "live"]
    /\ UNCHANGED <<audio_priv, upc, calls, setups, vanished, abort, corrupt>>

\* rawr_AudioStream_AddDevice of a default device: NULL fails the assertion;
\* a device that is refused is logged and no more.
Adds(d, next) ==
    /\ IF d = NULL
       THEN abort' = "dev" /\ UNCHANGED <<tpc, streams, corrupt>>
       ELSE /\ tpc' = next
            /\ streams' = [streams EXCEPT ![calls] = AddDevice(@, d)]
            /\ corrupt' = corrupt \cup Touched
            /\ UNCHANGED abort
    /\ UNCHANGED <<audio_priv, upc, calls, callStream, setups, vanished>>

AddInput == tpc = "addInput" /\ Adds(Default(audio_priv.defaultInputId), "addOutput")
AddOutput == tpc = "addOutput" /\ Adds(Default(audio_priv.defaultOutputId), "codec")

\* rawr_Codec_Setup, twice: a failure ends the thread and leaves the stream.
CodecSetup ==
    /\ tpc = "codec" /\ tpc' \in {"start", "none"}
    /\ UNCHANGED <<audio_priv, upc, calls, streams, callStream, setups, vanished, abort, corrupt>>

\* rawr_AudioStream_Start: one that cannot be started is closed again.
StreamStart ==
    /\ tpc = "start"
    /\ corrupt' = IF {stream.inDevice, stream.outDevice} = {NULL}
                  THEN corrupt ELSE corrupt \cup Touched
    /\ \/ tpc' = "run" /\ streams' = [streams EXCEPT ![calls].pa = "running"]
       \/ tpc' = "none" /\ UNCHANGED streams
    /\ UNCHANGED <<audio_priv, upc, calls, callStream, setups, vanished, abort>>

\* The call cannot be set up or re_main fails: the stream is left running.
CallFails ==
    /\ tpc = "run" /\ tpc' = "none"
    /\ UNCHANGED <<audio_priv, upc, calls, streams, callStream, setups, vanished, abort, corrupt>>

\* Mutated: the stream is released whether or not it could be stopped.
StreamStopIgnored ==
    /\ tpc = "run" /\ tpc' = "release"
    /\ \/ streams' = [streams EXCEPT ![calls].pa = "stopped"]
       \/ UNCHANGED streams
    /\ UNCHANGED <<audio_priv, upc, calls, callStream, setups, vanished, abort, corrupt>>

\* rawr_AudioStream_Stop, which waits for the callback; the PortAudio stream
\* stays open. If it fails nothing is released.
StreamStop ==
    /\ tpc = "run"
    /\ \/ tpc' = "release" /\ streams' = [streams EXCEPT ![calls].pa = "stopped"]
       \/ tpc' = "none" /\ UNCHANGED streams
    /\ UNCHANGED <<audio_priv, upc, calls, callStream, setups, vanished, abort, corrupt>>

\* rawr_AudioStream_Cleanup: call->stream keeps its value.
StreamCleanup ==
    /\ tpc = "release" /\ tpc' = "none"
    /\ streams' = [streams EXCEPT ![calls].mem = "released"]
    /\ UNCHANGED <<audio_priv, upc, calls, callStream, setups, vanished, abort, corrupt>>

Application == Setup \/ StartCall \/ ReadLevel \/ StopCall \/ Cleanup
CallThread ==
    \/ StreamSetup \/ AddInput \/ AddOutput \/ CodecSetup
    \/ StreamStart \/ CallFails \/ StreamStop \/ StreamCleanup

Ended ==
    /\ abort # "no" \/ upc = "end" \/ (upc = "setup" /\ setups = MaxSetups)
    /\ UNCHANGED vars

Next == (abort = "no" /\ (Application \/ CallThread)) \/ Ended

Spec == Init /\ [][Next]_vars

-----------------------------------------------------------------------------
(* Properties *)

\* While PortAudio may run the callback of a stream, the stream and its ring
\* buffers are allocated, and it has both directions: the level meter of
\* rawr_AudioStream_AudioCallback reads both blocks without looking whether
\* they are there. Both follow from what the call does before it starts the
\* stream and from its releasing nothing that could not be stopped.
CallbackHasAll ==
    \A c \in Calls : streams[c].pa = "running" =>
        /\ streams[c].mem = "live"
        /\ streams[c].inDevice # NULL /\ streams[c].outDevice # NULL

\* No stream looks at a device whose list was released or never made, although
\* the default ids outlive the list and rawr_Audio_Setup reports success when
\* it found no device; and rawr_Audio_Cleanup releases the list twice in one
\* case only: when a later rawr_Audio_Setup finds no device and so leaves the
\* pointer to the list that was released.
ListReleasedOnce ==
    /\ "device" \notin corrupt
    /\ "deviceList" \in corrupt => vanished
=============================================================================
