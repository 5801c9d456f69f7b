------------------------- MODULE AudioBackendsProofs -------------------------
(***************************************************************************)
(* Proofs about the two audio back ends, for any number of devices, calls  *)
(* and set-ups and any port handles.                                       *)
(***************************************************************************)
EXTENDS AudioBackends, TLAPS

-----------------------------------------------------------------------------
(* PortAudio: the inductive invariant.                                     *)

Ids == -1..MaxDevices - 1
Listed == 0..MaxDevices - 1
Directions == [in : Channels, out : Channels]
Stream == [mem : {"none", "live", "released"}, inDevice : Ids, outDevice : Ids,
           pa : {"closed", "running", "stopped"}]

\* The static record of AudioPA.c, whole.
PrivTyped ==
    audio_priv \in [initialized : BOOLEAN, deviceCount : -1..MaxDevices,
                    deviceList : {"null", "live", "released"},
                    defaultInputId : Ids, defaultOutputId : Ids,
                    channels : [Listed -> Directions]]

\* A call runs only between rawr_Audio_Setup and rawr_Audio_Cleanup.
CallsWithinSetup ==
    /\ upc \in {"idle", "incall", "joining"} => audio_priv.initialized
    /\ tpc # "none" => upc \in {"incall", "joining"}
    /\ tpc # "none" => calls \in Calls

\* The library is initialised without a list only if it found no device, and
\* with one that was released only if the devices have vanished since.
ListKnown ==
    /\ audio_priv.initialized /\ audio_priv.deviceCount > 0 => audio_priv.deviceList = "live"
    /\ audio_priv.initialized /\ audio_priv.deviceList = "released" => vanished
    /\ tpc \in {"addOutput", "codec", "start"} => audio_priv.deviceList = "live"

\* The default devices have channels of their direction.
DefaultsHaveChannels ==
    /\ audio_priv.defaultInputId \in 0..audio_priv.deviceCount - 1 =>
          audio_priv.channels[audio_priv.defaultInputId].in > 0
    /\ audio_priv.defaultOutputId \in 0..audio_priv.deviceCount - 1 =>
          audio_priv.channels[audio_priv.defaultOutputId].out > 0

\* What the thread of the call has made of its stream so far.
StreamSoFar ==
    /\ \A c \in Calls : c > calls => streams[c] = NoStream
    /\ tpc = "setup" => streams[calls] = NoStream
    /\ tpc \in {"addInput", "addOutput", "codec", "start", "run", "release"} =>
          streams[calls].mem = "live"
    /\ tpc \in {"addInput", "addOutput", "codec", "start"} => streams[calls].pa = "closed"
    /\ tpc = "release" => streams[calls].pa = "stopped"

\* The devices it has taken, when one channel is enough.
DevicesTaken ==
    ChannelCount = 1 =>
      /\ tpc = "addInput" => streams[calls].inDevice = NULL /\ streams[calls].outDevice = NULL
      /\ tpc \in {"addOutput", "codec", "start"} => streams[calls].inDevice # NULL
      /\ tpc \in {"codec", "start"} => streams[calls].outDevice # NULL

\* What PortAudio may run the callback of.
RunningReady ==
    \A c \in Calls : streams[c].pa = "running" =>
        /\ streams[c].mem = "live"
        /\ ChannelCount = 1 => streams[c].inDevice # NULL /\ streams[c].outDevice # NULL

DevInv ==
    /\ TypeOK
    /\ PrivTyped
    /\ CallsWithinSetup
    /\ ListKnown
    /\ DefaultsHaveChannels
    /\ StreamSoFar
    /\ DevicesTaken
    /\ RunningReady
    /\ ListReleasedOnce

LEMMA Constants ==
  /\ MaxDevices \in Nat /\ MaxDevices > 0 /\ MaxCalls \in Nat /\ MaxSetups \in Nat
  /\ ChannelCount \in Nat /\ ChannelCount > 0
  BY DevicesAssumption

\* The part of the type invariant that speaks of the record.
LEMMA PrivOK ==
  ASSUME PrivTyped
  PROVE  /\ audio_priv.initialized \in BOOLEAN
         /\ audio_priv.deviceCount \in -1..MaxDevices
         /\ audio_priv.deviceList \in {"null", "live", "released"}
         /\ audio_priv.defaultInputId \in -1..MaxDevices - 1
         /\ audio_priv.defaultOutputId \in -1..MaxDevices - 1
         /\ \A d \in 0..MaxDevices - 1 :
               audio_priv.channels[d] \in [in : Channels, out : Channels]
  BY DEF PrivTyped, Ids, Listed, Directions

\* The same in the next state.
LEMMA PrivOKNext ==
  ASSUME PrivTyped'
  PROVE  /\ audio_priv'.initialized \in BOOLEAN
         /\ audio_priv'.deviceCount \in -1..MaxDevices
         /\ audio_priv'.deviceList \in {"null", "live", "released"}
         /\ audio_priv'.defaultInputId \in -1..MaxDevices - 1
         /\ audio_priv'.defaultOutputId \in -1..MaxDevices - 1
         /\ \A d \in 0..MaxDevices - 1 :
               audio_priv'.channels[d] \in [in : Channels, out : Channels]
  BY DEF PrivTyped, Ids, Listed, Directions

LEMMA InitDevInv == Init => DevInv
  <1> SUFFICES ASSUME Init PROVE DevInv
    OBVIOUS
  <1> USE Constants DEF Init
  <1>1. 0 \in Ids /\ -1 \in Ids /\ 0 \in Channels
    BY DEF Ids, Channels
  <1>2. PrivTyped
    BY <1>1 DEF PrivTyped, Directions, NoDevice, Listed
  <1>3. TypeOK
    <2>1. NoStream \in Stream
      BY <1>1 DEF NoStream, NULL, Stream
    <2>2. streams \in [Calls -> Stream]
      BY <2>1
    <2>3. /\ calls \in 0..MaxCalls /\ callStream \in 0..calls /\ setups \in 0..MaxSetups
          /\ corrupt \subseteq {"deviceList", "device", "stream"}
      OBVIOUS
    <2>4. vanished \in BOOLEAN /\ abort \in {"no", "dev", "level"}
      OBVIOUS
    <2> HIDE Constants
    <2> QED BY <1>2, <2>2, <2>3, <2>4, PrivOK, Zenon DEF TypeOK, Ids, Stream
  <1>4. CallsWithinSetup /\ ListKnown /\ DefaultsHaveChannels /\ ListReleasedOnce
    BY DEF CallsWithinSetup, ListKnown, DefaultsHaveChannels, ListReleasedOnce
  <1>5. StreamSoFar /\ DevicesTaken /\ RunningReady
    BY DEF StreamSoFar, DevicesTaken, RunningReady, NoStream
  <1> QED BY <1>2, <1>3, <1>4, <1>5 DEF DevInv

-----------------------------------------------------------------------------
(* PortAudio: the application's steps.                                     *)

\* What the streams' part of the invariant depends on is left alone.
LEMMA StreamsKept ==
  ASSUME DevInv, UNCHANGED <<tpc, calls, streams>>
  PROVE  StreamSoFar' /\ DevicesTaken' /\ RunningReady'
  BY DEF DevInv, StreamSoFar, DevicesTaken, RunningReady

\* A listing that PortAudio may give.
LEMMA ListingType ==
  ASSUME NEW l \in {k \in Listings : IsListing(k)}
  PROVE  /\ l.n \in 0..MaxDevices /\ l.channels \in [Listed -> Directions]
         /\ l.input \in Ids /\ l.output \in Ids
         /\ l.input \in 0..l.n - 1 => l.channels[l.input].in > 0
         /\ l.output \in 0..l.n - 1 => l.channels[l.output].out > 0
  <1>1. /\ l.n \in 0..MaxDevices /\ l.channels \in [Listed -> Directions]
        /\ l.input \in Ids /\ l.output \in Ids
    BY DEF Listings, Listed, Directions, Ids
  <1> QED BY <1>1, Constants DEF IsListing, Ids

LEMMA AudioSetupStep ==
  ASSUME DevInv, upc \in {"setup", "idle"}, ~audio_priv.initialized, AudioSetup, upc' = "idle",
         setups' \in 0..MaxSetups,
         UNCHANGED <<tpc, calls, streams, callStream, abort, corrupt>>
  PROVE  DevInv'
  <1> USE Constants
  <1>0. tpc = "none"
    BY DEF DevInv, CallsWithinSetup, TypeOK
  <1>1. CASE \E n \in {-1, 0} :
                /\ audio_priv' = [audio_priv EXCEPT !.initialized = TRUE, !.deviceCount = n]
                /\ vanished' = (vanished \/ audio_priv.deviceList = "released")
    <2>1. PICK n \in {-1, 0} :
             audio_priv' = [audio_priv EXCEPT !.initialized = TRUE, !.deviceCount = n]
      BY <1>1
    <2>2. PrivTyped'
      <3>1. n \in -1..MaxDevices
        OBVIOUS
      <3>2. PrivTyped
        BY DEF DevInv
      <3> QED BY <2>1, <3>1, <3>2 DEF PrivTyped
    <2>3. /\ audio_priv'.initialized = TRUE /\ audio_priv'.deviceCount = n
          /\ audio_priv'.deviceList = audio_priv.deviceList
      BY <2>1 DEF DevInv, PrivTyped
    <2>4. /\ vanished' \in BOOLEAN
          /\ vanished => vanished'
          /\ audio_priv.deviceList = "released" => vanished'
      BY <1>1, Zenon
    <2>5. TypeOK'
      BY <2>2, <2>4, PrivOKNext DEF DevInv, TypeOK
    <2>6. CallsWithinSetup' /\ ListKnown' /\ DefaultsHaveChannels'
      BY <1>0, <2>3, <2>4 DEF DevInv, CallsWithinSetup, ListKnown, DefaultsHaveChannels
    <2>7. ListReleasedOnce'
      BY <2>4, Zenon DEF DevInv, ListReleasedOnce
    <2> QED BY <2>2, <2>5, <2>6, <2>7, StreamsKept DEF DevInv
  <1>2. ASSUME NEW l \in {k \in Listings : IsListing(k)}, l.n > 0,
               audio_priv' = [initialized |-> TRUE, deviceCount |-> l.n, deviceList |-> "live",
                              defaultInputId |-> l.input, defaultOutputId |-> l.output,
                              channels |-> l.channels],
               UNCHANGED vanished
        PROVE  DevInv'
    <2>1. PrivTyped'
      BY <1>2, ListingType DEF PrivTyped
    <2>2. TypeOK'
      BY <1>2, <2>1, PrivOKNext DEF DevInv, TypeOK
    <2>3. CallsWithinSetup' /\ ListKnown' /\ ListReleasedOnce'
      BY <1>0, <1>2 DEF DevInv, CallsWithinSetup, ListKnown, ListReleasedOnce
    <2>4. DefaultsHaveChannels'
      BY <1>2, ListingType DEF DefaultsHaveChannels
    <2> QED BY <2>1, <2>2, <2>3, <2>4, StreamsKept DEF DevInv
  <1> QED BY <1>1, <1>2 DEF AudioSetup

LEMMA SetupStep == ASSUME DevInv, Setup PROVE DevInv'
  <1>1. CASE ~audio_priv.initialized /\ upc' = "idle" /\ AudioSetup
    BY <1>1, AudioSetupStep, Constants DEF Setup, DevInv, TypeOK
  <1>2. CASE /\ upc' = "cleanup" \/ (upc' = "idle" /\ audio_priv.initialized)
             /\ UNCHANGED <<audio_priv, vanished>>
    <2>1. TypeOK' /\ PrivTyped'
      BY <1>2, Constants DEF Setup, DevInv, TypeOK, PrivTyped
    <2>2. (ListKnown /\ DefaultsHaveChannels /\ ListReleasedOnce)'
      BY <1>2 DEF Setup, DevInv, ListKnown, DefaultsHaveChannels, ListReleasedOnce
    <2>3. CallsWithinSetup'
      BY <1>2 DEF Setup, DevInv, TypeOK, CallsWithinSetup
    <2> QED BY <2>1, <2>2, <2>3, StreamsKept DEF Setup, DevInv
  <1> QED BY <1>1, <1>2 DEF Setup

LEMMA StartCallStep == ASSUME DevInv, StartCall PROVE DevInv'
  <1> USE Constants DEF StartCall
  <1>1. TypeOK' /\ PrivTyped'
    BY DEF DevInv, TypeOK, PrivTyped
  <1>2. (CallsWithinSetup /\ ListKnown /\ DefaultsHaveChannels /\ ListReleasedOnce)'
    BY DEF DevInv, TypeOK, CallsWithinSetup, ListKnown, DefaultsHaveChannels, ListReleasedOnce,
           Calls
  <1>3. (StreamSoFar /\ DevicesTaken /\ RunningReady)'
    BY DEF DevInv, TypeOK, StreamSoFar, DevicesTaken, RunningReady, Calls
  <1> QED BY <1>1, <1>2, <1>3 DEF DevInv

LEMMA ReadLevelStep == ASSUME DevInv, ReadLevel PROVE DevInv'
  <1>1. TypeOK' /\ PrivTyped'
    BY DEF ReadLevel, DevInv, TypeOK, PrivTyped
  <1>2. (CallsWithinSetup /\ ListKnown /\ DefaultsHaveChannels /\ ListReleasedOnce)'
    BY DEF ReadLevel, DevInv, CallsWithinSetup, ListKnown, DefaultsHaveChannels, ListReleasedOnce
  <1> QED BY <1>1, <1>2, StreamsKept DEF ReadLevel, DevInv

LEMMA StopCallStep == ASSUME DevInv, StopCall PROVE DevInv'
  <1>1. TypeOK' /\ PrivTyped'
    BY DEF StopCall, DevInv, TypeOK, PrivTyped
  <1>2. (CallsWithinSetup /\ ListKnown /\ DefaultsHaveChannels /\ ListReleasedOnce)'
    BY DEF StopCall, DevInv, CallsWithinSetup, ListKnown, DefaultsHaveChannels, ListReleasedOnce
  <1> QED BY <1>1, <1>2, StreamsKept DEF StopCall, DevInv

LEMMA CleanupStep == ASSUME DevInv, Cleanup PROVE DevInv'
  <1>0. tpc = "none" /\ tpc' = "none"
    BY DEF Cleanup, DevInv, CallsWithinSetup, TypeOK
  <1>1. CASE audio_priv.initialized
    <2>1. /\ audio_priv' = [audio_priv EXCEPT
                              !.deviceList = IF @ = "null" THEN @ ELSE "released",
                              !.initialized = FALSE]
          /\ streams' = PaTerminate
          /\ corrupt' = IF audio_priv.deviceList = "released"
                        THEN corrupt \cup {"deviceList"} ELSE corrupt
      BY <1>1 DEF Cleanup, AudioCleanup
    <2>2. PrivTyped' /\ ~audio_priv'.initialized
      BY <2>1 DEF DevInv, PrivTyped
    <2>3. streams' \in [Calls -> Stream]
      BY <2>1 DEF PaTerminate, DevInv, TypeOK, Stream, Ids
    <2>4. TypeOK'
      BY <2>1, <2>2, <2>3, PrivOKNext DEF Cleanup, DevInv, TypeOK, Stream, Ids
    <2>5. CallsWithinSetup' /\ ListKnown' /\ ListReleasedOnce'
      BY <1>0, <1>1, <2>1, <2>2 DEF Cleanup, DevInv, CallsWithinSetup, ListKnown, ListReleasedOnce
    <2>6. DefaultsHaveChannels'
      BY <2>1 DEF DevInv, PrivTyped, DefaultsHaveChannels
    <2>7. StreamSoFar' /\ DevicesTaken' /\ RunningReady'
      BY <1>0, <2>1 DEF Cleanup, PaTerminate, DevInv, TypeOK, StreamSoFar, DevicesTaken,
                        RunningReady, NoStream
    <2> QED BY <2>2, <2>4, <2>5, <2>6, <2>7 DEF DevInv
  <1>2. CASE ~audio_priv.initialized
    <2>1. UNCHANGED <<audio_priv, corrupt, streams>>
      BY <1>2 DEF Cleanup
    <2>2. TypeOK' /\ PrivTyped'
      BY <2>1 DEF Cleanup, DevInv, TypeOK, PrivTyped
    <2>3. (CallsWithinSetup /\ ListKnown /\ DefaultsHaveChannels /\ ListReleasedOnce)'
      BY <1>0, <2>1 DEF Cleanup, DevInv, CallsWithinSetup, ListKnown, DefaultsHaveChannels,
                        ListReleasedOnce
    <2> QED BY <2>1, <2>2, <2>3, StreamsKept DEF Cleanup, DevInv
  <1> QED BY <1>1, <1>2 DEF DevInv, PrivTyped

-----------------------------------------------------------------------------
(* PortAudio: the steps of the call's thread.                              *)

\* What rawr_AudioStream_AddDevice leaves alone.
LEMMA AddDeviceType ==
  ASSUME PrivTyped, NEW s \in Stream, NEW d \in Listed
  PROVE  /\ AddDevice(s, d) \in Stream
         /\ AddDevice(s, d).mem = s.mem /\ AddDevice(s, d).pa = s.pa
  <1>1. d \in Ids
    BY Constants DEF Ids, Listed
  <1>2. \A i, o \in Ids : /\ [s EXCEPT !.outDevice = o, !.inDevice = i] \in Stream
                          /\ [s EXCEPT !.outDevice = o, !.inDevice = i].mem = s.mem
                          /\ [s EXCEPT !.outDevice = o, !.inDevice = i].pa = s.pa
    BY DEF Stream
  <1>3. s.inDevice \in Ids /\ s.outDevice \in Ids
    BY DEF Stream
  <1>4. \E i, o \in Ids : AddDevice(s, d) = [s EXCEPT !.outDevice = o, !.inDevice = i]
    <2> DEFINE ch == audio_priv.channels[d]
               passesOut == Fits(ch.out) /\ Fits(ch.in) /\ (ch.out # 0 => s.outDevice = NULL)
               o == IF passesOut /\ ch.out # 0 THEN d ELSE s.outDevice
               i == IF passesOut /\ ch.in # 0 /\ s.inDevice = NULL THEN d ELSE s.inDevice
    <2>1. o \in Ids /\ i \in Ids
      BY <1>1, <1>3
    <2>2. AddDevice(s, d) = [s EXCEPT !.outDevice = o, !.inDevice = i]
      BY DEF AddDevice, Stream
    <2> HIDE DEF o, i
    <2> QED BY <2>1, <2>2
  <1>5. PICK i \in Ids, o \in Ids :
           AddDevice(s, d) = [s EXCEPT !.outDevice = o, !.inDevice = i]
    BY <1>4
  <1>6. /\ [s EXCEPT !.outDevice = o, !.inDevice = i] \in Stream
        /\ [s EXCEPT !.outDevice = o, !.inDevice = i].mem = s.mem
        /\ [s EXCEPT !.outDevice = o, !.inDevice = i].pa = s.pa
    BY <1>2
  <1> QED BY <1>5, <1>6, Zenon

\* If one channel is enough, the default input is taken by a stream that has
\* nothing yet.
LEMMA InputTaken ==
  ASSUME PrivTyped, NEW s \in Stream, NEW d \in Listed, ChannelCount = 1,
         s.inDevice = NULL, s.outDevice = NULL, audio_priv.channels[d].in > 0
  PROVE  AddDevice(s, d).inDevice # NULL
  <1>1. audio_priv.channels[d].in \in Nat /\ audio_priv.channels[d].out \in Nat
    BY Constants DEF PrivTyped, Directions, Channels
  <1>2. Fits(audio_priv.channels[d].in) /\ Fits(audio_priv.channels[d].out)
    BY <1>1 DEF Fits
  <1>3. d # NULL
    BY Constants DEF NULL, Listed
  <1> QED BY <1>1, <1>2, <1>3 DEF AddDevice, Stream

\* If one channel is enough, a stream has an output when the default one was
\* offered to it: its own or that of its input device. It keeps its input.
LEMMA OutputTaken ==
  ASSUME PrivTyped, NEW s \in Stream, NEW d \in Listed, ChannelCount = 1,
         s.inDevice # NULL, audio_priv.channels[d].out > 0
  PROVE  AddDevice(s, d).outDevice # NULL /\ AddDevice(s, d).inDevice # NULL
  <1>1. audio_priv.channels[d].in \in Nat /\ audio_priv.channels[d].out \in Nat
    BY Constants DEF PrivTyped, Directions, Channels
  <1>2. Fits(audio_priv.channels[d].in) /\ Fits(audio_priv.channels[d].out)
    BY <1>1 DEF Fits
  <1>3. d # NULL
    BY Constants DEF NULL, Listed
  <1> QED BY <1>1, <1>2, <1>3 DEF AddDevice, Stream

\* What the list's part of the invariant depends on is left alone.
LEMMA ListKept ==
  ASSUME DevInv, UNCHANGED <<audio_priv, vanished>>,
         tpc' \in {"addOutput", "codec", "start"} => audio_priv.deviceList = "live",
         corrupt' = corrupt
  PROVE  PrivTyped' /\ ListKnown' /\ DefaultsHaveChannels' /\ ListReleasedOnce'
  BY DEF DevInv, PrivTyped, ListKnown, DefaultsHaveChannels, ListReleasedOnce

\* The thread goes on, with its stream changed to s.
LEMMA ThreadStep ==
  ASSUME DevInv, NEW s \in Stream, tpc # "none",
         streams' = [streams EXCEPT ![calls] = s],
         tpc' \in {"none", "addInput", "addOutput", "codec", "start", "run", "release"},
         callStream' \in 0..calls, abort' \in {"no", "dev"},
         UNCHANGED <<audio_priv, upc, calls, setups, vanished, corrupt>>,
         tpc' \in {"addOutput", "codec", "start"} => audio_priv.deviceList = "live",
         tpc' \in {"addInput", "addOutput", "codec", "start", "run", "release"} => s.mem = "live",
         tpc' \in {"addInput", "addOutput", "codec", "start"} => s.pa = "closed",
         tpc' = "release" => s.pa = "stopped",
         ChannelCount = 1 =>
           /\ tpc' = "addInput" => s.inDevice = NULL /\ s.outDevice = NULL
           /\ tpc' \in {"addOutput", "codec", "start"} => s.inDevice # NULL
           /\ tpc' \in {"codec", "start"} => s.outDevice # NULL,
         s.pa = "running" =>
           /\ s.mem = "live"
           /\ ChannelCount = 1 => s.inDevice # NULL /\ s.outDevice # NULL
  PROVE  DevInv'
  <1>1. calls \in Calls /\ streams \in [Calls -> Stream]
    BY DEF DevInv, CallsWithinSetup, TypeOK, Stream, Ids
  <1>2. /\ streams' \in [Calls -> Stream] /\ streams'[calls] = s
        /\ \A c \in Calls : c # calls => streams'[c] = streams[c]
    BY <1>1
  <1>3. TypeOK'
    BY <1>2 DEF DevInv, TypeOK, Stream, Ids
  <1>4. CallsWithinSetup'
    BY DEF DevInv, CallsWithinSetup
  <1>5. StreamSoFar'
    BY <1>1, <1>2, Constants DEF DevInv, StreamSoFar, Calls
  <1>6. DevicesTaken'
    BY <1>2 DEF DevicesTaken
  <1>7. RunningReady'
    BY <1>2 DEF DevInv, RunningReady
  <1> QED BY <1>3, <1>4, <1>5, <1>6, <1>7, ListKept DEF DevInv

LEMMA StreamSetupStep == ASSUME DevInv, abort = "no", StreamSetup PROVE DevInv'
  <1>1. calls \in Calls /\ streams[calls] = NoStream /\ streams \in [Calls -> Stream]
    BY DEF StreamSetup, DevInv, CallsWithinSetup, StreamSoFar, TypeOK, Stream, Ids
  <1> DEFINE s == [NoStream EXCEPT !.mem = "live"]
  <1>2. streams' = [streams EXCEPT ![calls] = s]
    BY <1>1 DEF StreamSetup
  <1>3. /\ s \in Stream /\ s.mem = "live" /\ s.pa = "closed"
        /\ s.inDevice = NULL /\ s.outDevice = NULL
    <2>1. NULL \in Ids
      BY Constants DEF NULL, Ids
    <2> QED BY <2>1 DEF NoStream, Stream
  <1>4. callStream' \in 0..calls
    BY <1>1, Constants DEF StreamSetup, Calls
  <1> HIDE DEF s
  <1> QED BY <1>2, <1>3, <1>4, ThreadStep DEF StreamSetup

\* A default device the thread is offered is in the list, and the list live.
LEMMA OfferedDevice ==
  ASSUME DevInv, tpc # "none", NEW id \in Ids, Default(id) # NULL
  PROVE  /\ Default(id) = id /\ id \in 0..audio_priv.deviceCount - 1 /\ id \in Listed
         /\ audio_priv.deviceList = "live" /\ Touched = {}
  <1>1. Default(id) = id /\ id >= 0 /\ id < audio_priv.deviceCount
    BY Constants DEF Default, Ids, DevInv, PrivTyped
  <1>2. audio_priv.deviceCount \in -1..MaxDevices
    BY DEF DevInv, PrivTyped
  <1>3. id \in 0..audio_priv.deviceCount - 1 /\ id \in Listed /\ audio_priv.deviceCount > 0
    BY <1>1, <1>2, Constants DEF Ids, Listed
  <1>4. audio_priv.initialized /\ audio_priv.deviceList = "live"
    BY <1>3 DEF DevInv, CallsWithinSetup, ListKnown
  <1> QED BY <1>1, <1>3, <1>4 DEF Touched

\* The assertion on a missing device fails: nothing but abort changes.
LEMMA AbortStep ==
  ASSUME DevInv, abort' = "dev",
         UNCHANGED <<tpc, streams, corrupt, audio_priv, upc, calls, callStream, setups, vanished>>
  PROVE  DevInv'
  <1>1. TypeOK' /\ CallsWithinSetup'
    BY DEF DevInv, TypeOK, CallsWithinSetup
  <1> QED BY <1>1, StreamsKept, ListKept DEF DevInv, ListKnown

LEMMA AddInputStep == ASSUME DevInv, abort = "no", AddInput PROVE DevInv'
  <1> DEFINE d == Default(audio_priv.defaultInputId)
  <1>1. CASE d = NULL
    BY <1>1, AbortStep DEF AddInput, Adds
  <1>2. CASE d # NULL
    <2>1. /\ audio_priv.defaultInputId \in Ids /\ PrivTyped
          /\ calls \in Calls /\ streams \in [Calls -> Stream] /\ streams[calls] \in Stream
      BY DEF AddInput, DevInv, PrivTyped, CallsWithinSetup, TypeOK, Stream, Ids
    <2>2. /\ d \in Listed /\ audio_priv.deviceList = "live" /\ Touched = {}
          /\ audio_priv.channels[d].in > 0
      BY <1>2, <2>1, OfferedDevice DEF AddInput, DevInv, DefaultsHaveChannels
    <2>3. tpc = "addInput" /\ tpc' = "addOutput" /\ streams' = [streams EXCEPT ![calls] = AddDevice(streams[calls], d)]
      BY <1>2, <2>1 DEF AddInput, Adds
    <2>4. /\ corrupt' = corrupt /\ abort' = "no"
          /\ UNCHANGED <<audio_priv, upc, calls, callStream, setups, vanished>>
      BY <1>2, <2>2 DEF AddInput, Adds
    <2>5. callStream' \in 0..calls
      BY <2>4 DEF DevInv, TypeOK
    <2>6. /\ AddDevice(streams[calls], d) \in Stream
          /\ AddDevice(streams[calls], d).mem = "live" /\ AddDevice(streams[calls], d).pa = "closed"
      BY <2>1, <2>2, <2>3, AddDeviceType DEF DevInv, StreamSoFar
    <2>7. ChannelCount = 1 => AddDevice(streams[calls], d).inDevice # NULL
      BY <2>1, <2>2, <2>3, InputTaken DEF DevInv, DevicesTaken
    <2> HIDE DEF d
    <2> QED BY <2>2, <2>3, <2>4, <2>5, <2>6, <2>7, ThreadStep
  <1> QED BY <1>1, <1>2

LEMMA AddOutputStep == ASSUME DevInv, abort = "no", AddOutput PROVE DevInv'
  <1> DEFINE d == Default(audio_priv.defaultOutputId)
  <1>1. CASE d = NULL
    BY <1>1, AbortStep DEF AddOutput, Adds
  <1>2. CASE d # NULL
    <2>1. /\ audio_priv.defaultOutputId \in Ids /\ PrivTyped
          /\ calls \in Calls /\ streams \in [Calls -> Stream] /\ streams[calls] \in Stream
      BY DEF AddOutput, DevInv, PrivTyped, CallsWithinSetup, TypeOK, Stream, Ids
    <2>2. /\ d \in Listed /\ audio_priv.deviceList = "live" /\ Touched = {}
          /\ audio_priv.channels[d].out > 0
      BY <1>2, <2>1, OfferedDevice DEF AddOutput, DevInv, DefaultsHaveChannels
    <2>3. tpc = "addOutput" /\ tpc' = "codec" /\ streams' = [streams EXCEPT ![calls] = AddDevice(streams[calls], d)]
      BY <1>2, <2>1 DEF AddOutput, Adds
    <2>4. /\ corrupt' = corrupt /\ abort' = "no"
          /\ UNCHANGED <<audio_priv, upc, calls, callStream, setups, vanished>>
      BY <1>2, <2>2 DEF AddOutput, Adds
    <2>5. callStream' \in 0..calls
      BY <2>4 DEF DevInv, TypeOK
    <2>6. /\ AddDevice(streams[calls], d) \in Stream
          /\ AddDevice(streams[calls], d).mem = "live" /\ AddDevice(streams[calls], d).pa = "closed"
      BY <2>1, <2>2, <2>3, AddDeviceType DEF DevInv, StreamSoFar
    <2>7. ChannelCount = 1 => /\ AddDevice(streams[calls], d).inDevice # NULL
                              /\ AddDevice(streams[calls], d).outDevice # NULL
      BY <2>1, <2>2, <2>3, OutputTaken DEF DevInv, DevicesTaken
    <2> HIDE DEF d
    <2> QED BY <2>2, <2>3, <2>4, <2>5, <2>6, <2>7, ThreadStep
  <1> QED BY <1>1, <1>2

\* The steps that leave the devices of the stream alone.
LEMMA LaterStep ==
  ASSUME DevInv, abort = "no",
         CodecSetup \/ StreamStart \/ CallFails \/ StreamStop \/ StreamCleanup
  PROVE  DevInv'
  <1>1. /\ tpc \in {"codec", "start", "run", "release"}
        /\ calls \in Calls /\ streams \in [Calls -> Stream] /\ streams[calls] \in Stream
        /\ callStream \in 0..calls
    BY DEF DevInv, TypeOK, CallsWithinSetup, Stream, Ids, CodecSetup, StreamStart, CallFails,
           StreamStop, StreamCleanup
  <1>2. UNCHANGED <<audio_priv, upc, calls, callStream, setups, vanished, abort>>
    BY DEF CodecSetup, StreamStart, CallFails, StreamStop, StreamCleanup
  <1>3. corrupt' = corrupt
    <2>1. tpc = "start" => Touched = {}
      BY DEF DevInv, ListKnown, Touched
    <2> QED BY <2>1 DEF CodecSetup, StreamStart, CallFails, StreamStop, StreamCleanup
  <1>4. \A m \in {"live", "released"}, p \in {"closed", "running", "stopped"} :
           /\ [streams[calls] EXCEPT !.mem = m] \in Stream
           /\ [streams[calls] EXCEPT !.pa = p] \in Stream
    BY <1>1 DEF Stream
  <1>5. CASE streams' = streams /\ (tpc' = "none" \/ (tpc = "codec" /\ tpc' = "start"))
    <2>1. streams' = [streams EXCEPT ![calls] = streams[calls]]
      BY <1>1, <1>5
    <2> QED BY <1>1, <1>2, <1>3, <1>5, <2>1, ThreadStep
          DEF DevInv, ListKnown, StreamSoFar, DevicesTaken, RunningReady
  <1>6. CASE StreamStart /\ tpc' = "run" /\ streams' = [streams EXCEPT ![calls].pa = "running"]
    <2> DEFINE s == [streams[calls] EXCEPT !.pa = "running"]
    <2>1. streams' = [streams EXCEPT ![calls] = s]
      BY <1>1, <1>6
    <2>2. /\ s \in Stream /\ s.mem = "live" /\ s.pa = "running"
          /\ ChannelCount = 1 => s.inDevice # NULL /\ s.outDevice # NULL
      BY <1>1, <1>6 DEF StreamStart, DevInv, StreamSoFar, DevicesTaken, Stream
    <2> HIDE DEF s
    <2> QED BY <1>1, <1>2, <1>3, <1>6, <2>1, <2>2, ThreadStep
  <1>7. CASE StreamStop /\ tpc' = "release" /\ streams' = [streams EXCEPT ![calls].pa = "stopped"]
    <2> DEFINE s == [streams[calls] EXCEPT !.pa = "stopped"]
    <2>1. streams' = [streams EXCEPT ![calls] = s]
      BY <1>1, <1>7
    <2>2. s \in Stream /\ s.mem = "live" /\ s.pa = "stopped"
      BY <1>1, <1>7 DEF StreamStop, DevInv, StreamSoFar, Stream
    <2> HIDE DEF s
    <2> QED BY <1>1, <1>2, <1>3, <1>7, <2>1, <2>2, ThreadStep
  <1>8. CASE StreamCleanup
    <2> DEFINE s == [streams[calls] EXCEPT !.mem = "released"]
    <2>1. streams' = [streams EXCEPT ![calls] = s] /\ tpc' = "none"
      BY <1>1, <1>8 DEF StreamCleanup
    <2>2. s \in Stream /\ s.pa = "stopped"
      BY <1>1, <1>8 DEF StreamCleanup, DevInv, StreamSoFar, Stream
    <2> HIDE DEF s
    <2> QED BY <1>1, <1>2, <1>3, <2>1, <2>2, ThreadStep
  <1> QED BY <1>5, <1>6, <1>7, <1>8 DEF CodecSetup, StreamStart, CallFails, StreamStop

LEMMA StepDevInv == DevInv /\ [Next]_vars => DevInv'
  <1> SUFFICES ASSUME DevInv, [Next]_vars PROVE DevInv'
    OBVIOUS
  <1>1. CASE abort = "no" /\ Application
    BY <1>1, SetupStep, StartCallStep, ReadLevelStep, StopCallStep, CleanupStep DEF Application
  <1>2. CASE abort = "no" /\ CallThread
    BY <1>2, StreamSetupStep, AddInputStep, AddOutputStep, LaterStep DEF CallThread
  <1>3. CASE UNCHANGED vars
    <2>1. TypeOK' /\ CallsWithinSetup'
      BY <1>3 DEF vars, DevInv, TypeOK, CallsWithinSetup
    <2> QED BY <1>3, <2>1, StreamsKept, ListKept DEF vars, DevInv, ListKnown
  <1> QED BY <1>1, <1>2, <1>3 DEF Next, Ended

-----------------------------------------------------------------------------
(* PS5: the inductive invariant.                                           *)

\* The thread of a stream stores the handle of its input when it has opened
\* it; until then it is the 0 of the allocation.
NoHandleYet ==
    \A s \in PS5!Streams : apc[s] \in {"none", "openOut", "openIn"} => handle[s]["in"] = 0

\* The streams of calls to come, and of one that has not started its stream.
NotStarted ==
    \A s \in PS5!Streams :
        s > begun \/ (s = begun /\ callPc \in {"setup", "start"}) =>
            apc[s] = "none" /\ mem[s] # "released"

\* A port was closed, so that both were open.
ClosedWasOpen ==
    /\ callPc # "idle" => begun \in PS5!Streams
    /\ callPc \in {"closeOut", "cleanup"} => apc[begun] \notin {"none", "openOut", "openIn"}

PS5Inv ==
    /\ PS5!TypeOK
    /\ NoHandleYet
    /\ NotStarted
    /\ ClosedWasOpen
    /\ OpensBeforeRelease

LEMMA PortHandles == 0 \notin Handles /\ PS5!Failed \notin Handles
  BY HandlesAssumption DEF PS5!Failed

\* Whether a step used a released stream is a Boolean.
LEMMA PS5TouchesType == ASSUME NEW s, PS5!Touches(s) PROVE stray' \in BOOLEAN
  <1>1. CASE mem[s] \in {"refused", "released"}
    <2>1. stray' = TRUE
      BY <1>1, Zenon DEF PS5!Touches
    <2> QED BY <2>1
  <1>2. CASE mem[s] \notin {"refused", "released"}
    <2>1. (mem[s] \in {"refused", "released"}) = FALSE
      BY <1>2
    <2>2. stray' = FALSE
      BY <2>1, Zenon DEF PS5!Touches
    <2> QED BY <2>2
  <1> QED BY <1>1, <1>2

LEMMA InitPS5Inv == PS5!Init => PS5Inv
  <1> SUFFICES ASSUME PS5!Init PROVE PS5Inv
    OBVIOUS
  <1> USE DEF PS5!Init
  <1>1. PS5!TypeOK
    <2>1. begun \in 0..MaxCalls
      BY Constants
    <2>2. /\ handle \in [PS5!Streams -> [PS5!Dirs -> Handles \cup {0, PS5!Failed}]]
          /\ open \in [PS5!Dirs -> SUBSET Handles]
      OBVIOUS
    <2> QED BY <2>1, <2>2 DEF PS5!TypeOK
  <1>2. NoHandleYet /\ NotStarted /\ ClosedWasOpen /\ OpensBeforeRelease
    BY DEF NoHandleYet, NotStarted, ClosedWasOpen, OpensBeforeRelease, PS5!OpensBeforeRelease,
           PS5!Dirs
  <1> QED BY <1>1, <1>2 DEF PS5Inv

-----------------------------------------------------------------------------
(* PS5: the steps of the call's thread.                                    *)

\* The streams and their threads are left alone, and so are the handles.
LEMMA PS5Kept ==
  ASSUME PS5Inv, UNCHANGED <<mem, apc, handle>>
  PROVE  NoHandleYet' /\ OpensBeforeRelease'
  BY DEF PS5Inv, NoHandleYet, OpensBeforeRelease, PS5!OpensBeforeRelease, PS5!Streams

LEMMA PS5StartCallStep == ASSUME PS5Inv, PS5!StartCall PROVE PS5Inv'
  <1> USE Constants DEF PS5!StartCall, PS5!portVars
  <1>1. PS5!TypeOK'
    BY DEF PS5Inv, PS5!TypeOK, PS5!Streams, PS5!Dirs, PS5!Failed
  <1>2. NotStarted' /\ ClosedWasOpen'
    BY DEF PS5Inv, PS5!TypeOK, NotStarted, ClosedWasOpen, PS5!Streams
  <1> QED BY <1>1, <1>2, PS5Kept DEF PS5Inv

LEMMA PS5SetupStep == ASSUME PS5Inv, PS5!Setup PROVE PS5Inv'
  <1> USE Constants DEF PS5!Setup, PS5!portVars, PS5!current
  <1>1. begun \in PS5!Streams /\ mem \in [PS5!Streams -> {"none", "live", "refused", "released"}]
    BY DEF PS5Inv, ClosedWasOpen, PS5!TypeOK
  <1>2. PICK m \in {"live", "refused"} : mem' = [mem EXCEPT ![begun] = m]
    OBVIOUS
  <1>3. service' \in BOOLEAN
    BY DEF PS5Inv, PS5!TypeOK
  <1>4. PS5!TypeOK'
    BY <1>1, <1>2, <1>3 DEF PS5Inv, PS5!TypeOK, PS5!Streams, PS5!Dirs, PS5!Failed
  <1>5. NotStarted' /\ ClosedWasOpen' /\ OpensBeforeRelease' /\ NoHandleYet'
    BY <1>1, <1>2 DEF PS5Inv, NotStarted, ClosedWasOpen, NoHandleYet, OpensBeforeRelease,
                      PS5!OpensBeforeRelease, PS5!Streams
  <1> QED BY <1>4, <1>5 DEF PS5Inv

LEMMA PS5StartStep == ASSUME PS5Inv, PS5!Start PROVE PS5Inv'
  <1> USE Constants DEF PS5!Start, PS5!portVars, PS5!current
  <1>1. /\ begun \in PS5!Streams /\ apc[begun] = "none" /\ mem[begun] # "released"
        /\ apc \in [PS5!Streams -> {"none", "openOut", "openIn", "play", "output", "input",
                                    "capture", "ended"}]
    BY DEF PS5Inv, NotStarted, ClosedWasOpen, PS5!TypeOK
  <1>0. stray' \in BOOLEAN
    BY PS5TouchesType DEF PS5Inv, PS5!TypeOK
  <1>2. PS5!TypeOK'
    BY <1>0, <1>1 DEF PS5Inv, PS5!TypeOK, PS5!Streams, PS5!Dirs, PS5!Failed
  <1>3. NoHandleYet' /\ OpensBeforeRelease'
    BY <1>1 DEF PS5Inv, NoHandleYet, OpensBeforeRelease, PS5!OpensBeforeRelease, PS5!Streams
  <1>4. NotStarted' /\ ClosedWasOpen'
    BY <1>1 DEF PS5Inv, NotStarted, ClosedWasOpen, PS5!Streams
  <1> QED BY <1>2, <1>3, <1>4 DEF PS5Inv

LEMMA PS5CallEndsStep == ASSUME PS5Inv, PS5!CallEnds PROVE PS5Inv'
  <1> USE DEF PS5!CallEnds, PS5!portVars
  <1>1. PS5!TypeOK'
    BY DEF PS5Inv, PS5!TypeOK, PS5!Streams, PS5!Dirs, PS5!Failed
  <1>2. NotStarted' /\ ClosedWasOpen'
    BY DEF PS5Inv, NotStarted, ClosedWasOpen, PS5!Streams
  <1> QED BY <1>1, <1>2, PS5Kept DEF PS5Inv

\* Only the port of an input that was opened can be closed.
LEMMA PS5CloseStep == ASSUME PS5Inv, PS5!CloseIn \/ PS5!CloseOut PROVE PS5Inv'
  <1> USE DEF PS5!CloseIn, PS5!CloseOut, PS5!Closes, PS5!current
  <1>1. /\ begun \in PS5!Streams /\ UNCHANGED <<begun, mem, apc, handle, service, stray>>
        /\ open \in [PS5!Dirs -> SUBSET Handles]
    BY DEF PS5Inv, ClosedWasOpen, PS5!TypeOK
  <1>2. callPc' \in {"idle", "closeOut", "cleanup"}
    OBVIOUS
  <1>3. \E S \in SUBSET Handles, d \in PS5!Dirs : /\ S \subseteq open[d]
                                                  /\ open' = [open EXCEPT ![d] = S]
    <2>1. open["in"] \in SUBSET Handles /\ open["out"] \in SUBSET Handles
      BY <1>1 DEF PS5!Dirs
    <2>2. \A d \in PS5!Dirs : \A h : open[d] \ {h} \in SUBSET Handles /\ open[d] \ {h} \subseteq open[d]
      BY <1>1
    <2>3. open = [open EXCEPT !["in"] = open["in"]]
      BY <1>1 DEF PS5!Dirs
    <2> QED BY <2>1, <2>2, <2>3 DEF PS5!Dirs
  <1>4. PS5!TypeOK'
    <2>1. PICK S \in SUBSET Handles, d \in PS5!Dirs : /\ S \subseteq open[d]
                                                      /\ open' = [open EXCEPT ![d] = S]
      BY <1>3
    <2>2. open' \in [PS5!Dirs -> SUBSET Handles]
      BY <1>1, <2>1 DEF PS5Inv, PS5!TypeOK
    <2> QED BY <1>1, <1>2, <2>2 DEF PS5Inv, PS5!TypeOK, PS5!Streams, PS5!Dirs, PS5!Failed
  <1>5. callPc = "closeIn" /\ callPc' = "closeOut" =>
           apc[begun] \notin {"none", "openOut", "openIn"}
    <2>1. callPc = "closeIn" /\ callPc' = "closeOut" => handle[begun]["in"] \in Handles
      BY <1>1 DEF PS5!Dirs
    <2> QED BY <1>1, <2>1, PortHandles DEF PS5Inv, NoHandleYet
  <1>6. ClosedWasOpen'
    BY <1>1, <1>2, <1>5 DEF PS5Inv, ClosedWasOpen, PS5!Streams
  <1>7. NotStarted'
    BY <1>1, <1>2 DEF PS5Inv, NotStarted, PS5!Streams
  <1> QED BY <1>1, <1>4, <1>6, <1>7, PS5Kept DEF PS5Inv

LEMMA PS5CleanupStep == ASSUME PS5Inv, PS5!Cleanup PROVE PS5Inv'
  <1> USE DEF PS5!Cleanup, PS5!portVars, PS5!current
  <1>1. /\ begun \in PS5!Streams /\ apc[begun] \notin {"none", "openOut", "openIn"}
        /\ mem \in [PS5!Streams -> {"none", "live", "refused", "released"}]
    BY DEF PS5Inv, ClosedWasOpen, PS5!TypeOK
  <1>2. PS5!TypeOK'
    BY <1>1 DEF PS5Inv, PS5!TypeOK, PS5!Streams, PS5!Dirs, PS5!Failed
  <1>3. NoHandleYet' /\ NotStarted' /\ ClosedWasOpen' /\ OpensBeforeRelease'
    BY <1>1, Constants DEF PS5Inv, NoHandleYet, NotStarted, ClosedWasOpen, OpensBeforeRelease,
                PS5!OpensBeforeRelease, PS5!Streams
  <1> QED BY <1>2, <1>3 DEF PS5Inv

-----------------------------------------------------------------------------
(* PS5: the steps of an audio thread.                                      *)

\* A thread that runs goes to another place than those before its ports are
\* open; its call and the memory are left alone.
LEMMA PS5ThreadMoves ==
  ASSUME PS5Inv, NEW s \in PS5!Streams, apc[s] # "none",
         NEW p \in {"play", "output", "input", "capture", "ended"},
         apc' = [apc EXCEPT ![s] = p],
         \A t \in PS5!Streams : t # s => handle'[t] = handle[t],
         PS5!TypeOK', UNCHANGED <<callPc, begun, mem, service>>
  PROVE  PS5Inv'
  <1>1. apc \in [PS5!Streams -> {"none", "openOut", "openIn", "play", "output", "input",
                                    "capture", "ended"}]
    BY DEF PS5Inv, PS5!TypeOK
  <1>2. NoHandleYet' /\ NotStarted' /\ OpensBeforeRelease'
    BY <1>1 DEF PS5Inv, NoHandleYet, NotStarted, OpensBeforeRelease, PS5!OpensBeforeRelease,
                PS5!Streams
  <1>3. ClosedWasOpen'
    BY <1>1 DEF PS5Inv, ClosedWasOpen, PS5!Streams
  <1> QED BY <1>2, <1>3 DEF PS5Inv

\* sceAudioOutOpen or sceAudioInOpen: either outcome stores a handle in its
\* own place.
LEMMA PS5OpensType ==
  ASSUME PS5Inv, NEW s \in PS5!Streams, NEW dir \in PS5!Dirs, NEW next \in {"openIn", "play"},
         PS5!Opens(s, dir, next)
  PROVE  /\ PS5!TypeOK' /\ UNCHANGED <<callPc, begun, mem, service>>
         /\ \A t \in PS5!Streams, d \in PS5!Dirs :
               t # s \/ d # dir => handle'[t][d] = handle[t][d]
         /\ \A t \in PS5!Streams : t # s => handle'[t] = handle[t]
         /\ apc' = [apc EXCEPT ![s] = next] \/ apc' = [apc EXCEPT ![s] = "ended"]
  <1>1. /\ apc \in [PS5!Streams -> {"none", "openOut", "openIn", "play", "output", "input",
                                    "capture", "ended"}]
        /\ handle \in [PS5!Streams -> [PS5!Dirs -> Handles \cup {0, PS5!Failed}]]
        /\ open \in [PS5!Dirs -> SUBSET Handles]
    BY DEF PS5Inv, PS5!TypeOK
  <1>2. PICK h \in Handles \cup {PS5!Failed} : handle' = [handle EXCEPT ![s][dir] = h]
    BY DEF PS5!Opens
  <1>3. /\ handle' \in [PS5!Streams -> [PS5!Dirs -> Handles \cup {0, PS5!Failed}]]
        /\ \A t \in PS5!Streams, d \in PS5!Dirs :
               t # s \/ d # dir => handle'[t][d] = handle[t][d]
        /\ \A t \in PS5!Streams : t # s => handle'[t] = handle[t]
    BY <1>1, <1>2
  <1>4. /\ apc' = [apc EXCEPT ![s] = next] \/ apc' = [apc EXCEPT ![s] = "ended"]
        /\ UNCHANGED <<callPc, begun, mem, service>>
    BY DEF PS5!Opens
  <1>5. apc' \in [PS5!Streams -> {"none", "openOut", "openIn", "play", "output", "input",
                                    "capture", "ended"}]
    BY <1>1, <1>4
  <1>6. open' \in [PS5!Dirs -> SUBSET Handles]
    <2>1. CASE UNCHANGED open
      BY <1>1, <2>1
    <2>2. ASSUME NEW g \in Handles \ open[dir], open' = [open EXCEPT ![dir] = @ \cup {g}]
          PROVE  open' \in [PS5!Dirs -> SUBSET Handles]
      <3>1. open[dir] \cup {g} \in SUBSET Handles
        BY <1>1
      <3> QED BY <1>1, <2>2, <3>1
    <2> QED BY <2>1, <2>2 DEF PS5!Opens
  <1>7. stray' \in BOOLEAN
    BY PS5TouchesType DEF PS5!Opens
  <1>8. PS5!TypeOK'
    BY <1>3, <1>4, <1>5, <1>6, <1>7 DEF PS5Inv, PS5!TypeOK, PS5!Streams, PS5!Dirs, PS5!Failed
  <1> QED BY <1>3, <1>4, <1>8

LEMMA PS5OpenOutStep == ASSUME PS5Inv, NEW s \in PS5!Streams, PS5!OpenOut(s) PROVE PS5Inv'
  <1>1. /\ PS5!TypeOK' /\ UNCHANGED <<callPc, begun, mem, service>>
        /\ \A t \in PS5!Streams, d \in PS5!Dirs :
              t # s \/ d # "out" => handle'[t][d] = handle[t][d]
        /\ \A t \in PS5!Streams : t # s => handle'[t] = handle[t]
        /\ apc' = [apc EXCEPT ![s] = "openIn"] \/ apc' = [apc EXCEPT ![s] = "ended"]
    BY PS5OpensType DEF PS5!OpenOut, PS5!Dirs
  <1>2. CASE apc' = [apc EXCEPT ![s] = "ended"]
    BY <1>1, <1>2, PS5ThreadMoves DEF PS5!OpenOut
  <1>3. CASE apc' = [apc EXCEPT ![s] = "openIn"]
    <2>1. /\ apc \in [PS5!Streams -> {"none", "openOut", "openIn", "play", "output", "input",
                                    "capture", "ended"}]
          /\ apc[s] = "openOut" /\ handle'[s]["in"] = 0
      BY <1>1 DEF PS5!OpenOut, PS5!Dirs, PS5Inv, NoHandleYet, PS5!TypeOK
    <2>2. NoHandleYet'
      BY <1>1, <1>3, <2>1 DEF PS5Inv, NoHandleYet, PS5!Streams
    <2>3. NotStarted' /\ ClosedWasOpen' /\ OpensBeforeRelease'
      BY <1>1, <1>3, <2>1 DEF PS5Inv, NotStarted, ClosedWasOpen, OpensBeforeRelease,
                              PS5!OpensBeforeRelease, PS5!Streams
    <2> QED BY <1>1, <2>2, <2>3 DEF PS5Inv
  <1> QED BY <1>1, <1>2, <1>3

LEMMA PS5OpenInStep == ASSUME PS5Inv, NEW s \in PS5!Streams, PS5!OpenIn(s) PROVE PS5Inv'
  <1>1. /\ PS5!TypeOK' /\ UNCHANGED <<callPc, begun, mem, service>>
        /\ \A t \in PS5!Streams : t # s => handle'[t] = handle[t]
        /\ apc' = [apc EXCEPT ![s] = "play"] \/ apc' = [apc EXCEPT ![s] = "ended"]
    BY PS5OpensType DEF PS5!OpenIn, PS5!Dirs
  <1> QED BY <1>1, PS5ThreadMoves DEF PS5!OpenIn

\* The rounds of the thread store no handle.
LEMMA PS5RoundStep ==
  ASSUME PS5Inv, NEW s \in PS5!Streams,
         PS5!Play(s) \/ PS5!Output(s) \/ PS5!Input(s) \/ PS5!Capture(s)
  PROVE  PS5Inv'
  <1> USE DEF PS5!Play, PS5!Output, PS5!Input, PS5!Capture, PS5!UsesPort, PS5!portVars
  <1>1. PICK p \in {"play", "output", "input", "capture", "ended"} : apc' = [apc EXCEPT ![s] = p]
    OBVIOUS
  <1>2. apc[s] # "none" /\ UNCHANGED <<callPc, begun, mem, handle, open, service>>
    OBVIOUS
  <1>3. stray' \in BOOLEAN
    BY PS5TouchesType
  <1>4. PS5!TypeOK'
    BY <1>1, <1>2, <1>3 DEF PS5Inv, PS5!TypeOK, PS5!Streams, PS5!Dirs, PS5!Failed
  <1> QED BY <1>1, <1>2, <1>4, PS5ThreadMoves

LEMMA StepPS5Inv ==
  ASSUME PS5Inv, PS5!CallThread \/ \E s \in PS5!Streams : PS5!AudioThread(s)
  PROVE  PS5Inv'
  <1>1. CASE PS5!CallThread
    BY <1>1, PS5StartCallStep, PS5SetupStep, PS5StartStep, PS5CallEndsStep, PS5CloseStep,
       PS5CleanupStep DEF PS5!CallThread
  <1>2. ASSUME NEW s \in PS5!Streams, PS5!AudioThread(s) PROVE PS5Inv'
    BY <1>2, PS5OpenOutStep, PS5OpenInStep, PS5RoundStep DEF PS5!AudioThread
  <1> QED BY <1>1, <1>2

LEMMA PS5Stutter == ASSUME PS5Inv, UNCHANGED ps5Vars PROVE PS5Inv'
  BY DEF ps5Vars, PS5Inv, PS5!TypeOK, PS5!Streams, PS5!Dirs, PS5!Failed, NoHandleYet, NotStarted,
         ClosedWasOpen, OpensBeforeRelease, PS5!OpensBeforeRelease

-----------------------------------------------------------------------------
(* PS5: who can close a port.                                              *)

\* The call has closed the port of direction d of stream s.
Closed(s, d) ==
    s = begun /\ (callPc = "cleanup" \/ (callPc = "closeOut" /\ d = "in"))

\* The handle of the output is stored when the port is open.
NoOutputYet ==
    \A s \in PS5!Streams : apc[s] \in {"none", "openOut"} => handle[s]["out"] = 0

\* A thread that has ports to open has a stream; the stream was set up before.
OpensForLive ==
    /\ callPc = "start" => mem[begun] \in {"live", "refused"}
    /\ \A s \in PS5!Streams : apc[s] \in {"openOut", "openIn"} => mem[s] = "live" \/ stray

\* An open port has been stored in a stream that is there and whose call has
\* not closed it.
Owned ==
    \A d \in PS5!Dirs : \A h \in open[d] :
        \E s \in PS5!Streams : handle[s][d] = h /\ mem[s] = "live" /\ ~Closed(s, d)

OwnInv == NoOutputYet /\ OpensForLive /\ Owned

LEMMA InitOwnInv == PS5!Init => OwnInv
  BY DEF PS5!Init, OwnInv, NoOutputYet, OpensForLive, Owned, PS5!Dirs

\* No port is opened or closed and no stream touched; the call closes nothing.
LEMMA OwnKept ==
  ASSUME PS5Inv, OwnInv, UNCHANGED <<mem, apc, handle, open, stray>>,
         callPc' \notin {"start", "closeOut", "cleanup"}
  PROVE  OwnInv'
  BY DEF OwnInv, NoOutputYet, OpensForLive, Owned, Closed, PS5!Streams

LEMMA OwnSetup == ASSUME PS5Inv, OwnInv, PS5!Setup PROVE OwnInv'
  <1> USE DEF PS5!Setup, PS5!portVars, PS5!current
  <1>1. /\ begun \in PS5!Streams /\ mem \in [PS5!Streams -> {"none", "live", "refused", "released"}]
        /\ apc[begun] = "none" /\ open \in [PS5!Dirs -> SUBSET Handles]
    BY DEF PS5Inv, ClosedWasOpen, NotStarted, PS5!TypeOK
  <1>2. PICK m \in {"live", "refused"} : mem' = [mem EXCEPT ![begun] = m]
    OBVIOUS
  <1>3. \A d \in PS5!Dirs : handle[begun][d] = 0
    BY <1>1 DEF PS5Inv, OwnInv, NoHandleYet, NoOutputYet, PS5!Dirs
  <1>4. Owned'
    <2> SUFFICES ASSUME NEW d \in PS5!Dirs, NEW h \in open[d]
                 PROVE  \E s \in PS5!Streams :
                           handle[s][d] = h /\ mem'[s] = "live" /\ ~Closed(s, d)'
      BY DEF Owned, PS5!Streams
    <2>1. PICK s \in PS5!Streams : handle[s][d] = h /\ mem[s] = "live"
      BY DEF OwnInv, Owned
    <2>2. s # begun
      BY <1>1, <1>3, <2>1, PortHandles
    <2> QED BY <1>1, <1>2, <2>1, <2>2 DEF Closed
  <1>5. NoOutputYet' /\ OpensForLive'
    BY <1>1, <1>2 DEF OwnInv, NoOutputYet, OpensForLive, PS5!Streams
  <1> QED BY <1>4, <1>5 DEF OwnInv

LEMMA OwnStart == ASSUME PS5Inv, OwnInv, ~stray, PS5!Start PROVE OwnInv'
  <1> USE DEF PS5!Start, PS5!portVars, PS5!current
  <1>1. /\ begun \in PS5!Streams /\ apc[begun] = "none"
        /\ apc \in [PS5!Streams -> {"none", "openOut", "openIn", "play", "output", "input",
                                    "capture", "ended"}]
    BY DEF PS5Inv, NotStarted, ClosedWasOpen, PS5!TypeOK
  <1>2. NoOutputYet'
    BY <1>1 DEF OwnInv, NoOutputYet, PS5!Streams
  <1>3. OpensForLive'
    <2>1. CASE callPc' = "run" /\ apc' = [apc EXCEPT ![begun] = "openOut"] /\ PS5!Touches(begun)
      <3>1. mem[begun] = "live" \/ stray'
        BY Zenon, <2>1 DEF OwnInv, OpensForLive, PS5!Touches
      <3>2. \A s \in PS5!Streams : apc[s] \in {"openOut", "openIn"} => mem[s] = "live"
        BY DEF OwnInv, OpensForLive
      <3> QED BY <1>1, <2>1, <3>1, <3>2 DEF OpensForLive, PS5!Streams
    <2>2. CASE callPc' = "idle" /\ UNCHANGED <<apc, stray>>
      BY <2>2 DEF OwnInv, OpensForLive, PS5!Streams
    <2> QED BY <2>1, <2>2
  <1>4. Owned'
    BY DEF OwnInv, Owned, Closed, PS5!Streams
  <1> QED BY <1>2, <1>3, <1>4 DEF OwnInv

\* The port that is closed is the one whose closing the call records.
LEMMA OwnClose == ASSUME PS5Inv, OwnInv, PS5!CloseIn \/ PS5!CloseOut PROVE OwnInv'
  <1> USE DEF PS5!CloseIn, PS5!CloseOut, PS5!Closes, PS5!current
  <1>1. /\ begun \in PS5!Streams /\ UNCHANGED <<begun, mem, apc, handle, stray>>
        /\ open \in [PS5!Dirs -> SUBSET Handles] /\ callPc' # "start"
    BY DEF PS5Inv, ClosedWasOpen, PS5!TypeOK
  <1>2. Owned'
    <2>1. CASE callPc' = "idle" /\ UNCHANGED open
      BY <1>1, <2>1 DEF OwnInv, Owned, Closed, PS5!Streams
    <2>2. ASSUME NEW dir \in PS5!Dirs,
                 \/ callPc = "closeIn" /\ dir = "in" /\ callPc' = "closeOut"
                 \/ callPc = "closeOut" /\ dir = "out" /\ callPc' = "cleanup",
                 open' = [open EXCEPT ![dir] = @ \ {handle[begun][dir]}]
          PROVE  Owned'
      <3> SUFFICES ASSUME NEW d \in PS5!Dirs, NEW h \in open'[d]
                   PROVE  \E s \in PS5!Streams :
                             handle[s][d] = h /\ mem[s] = "live" /\ ~Closed(s, d)'
        BY <1>1 DEF Owned, PS5!Streams
      <3>1. h \in open[d] /\ (d = dir => h # handle[begun][d])
        BY <1>1, <2>2
      <3>2. PICK s \in PS5!Streams : handle[s][d] = h /\ mem[s] = "live" /\ ~Closed(s, d)
        BY <3>1 DEF OwnInv, Owned
      <3>3. ~Closed(s, d)'
        BY <1>1, <2>2, <3>1, <3>2 DEF Closed, PS5!Dirs
      <3> QED BY <3>2, <3>3
    <2>3. CASE PS5!CloseIn
      BY <2>1, <2>2, <2>3 DEF PS5!Dirs
    <2>4. CASE PS5!CloseOut
      BY <2>1, <2>2, <2>4 DEF PS5!Dirs
    <2> QED BY <2>3, <2>4
  <1>3. NoOutputYet' /\ OpensForLive'
    BY <1>1 DEF OwnInv, NoOutputYet, OpensForLive, PS5!Streams
  <1> QED BY <1>2, <1>3 DEF OwnInv

LEMMA OwnCleanup == ASSUME PS5Inv, OwnInv, PS5!Cleanup PROVE OwnInv'
  <1> USE DEF PS5!Cleanup, PS5!portVars, PS5!current
  <1>1. /\ begun \in PS5!Streams /\ apc[begun] \notin {"none", "openOut", "openIn"}
        /\ mem \in [PS5!Streams -> {"none", "live", "refused", "released"}]
    BY DEF PS5Inv, ClosedWasOpen, PS5!TypeOK
  <1>2. Owned'
    <2> SUFFICES ASSUME NEW d \in PS5!Dirs, NEW h \in open[d]
                 PROVE  \E s \in PS5!Streams :
                           handle[s][d] = h /\ mem'[s] = "live" /\ ~Closed(s, d)'
      BY DEF Owned, PS5!Streams
    <2>1. PICK s \in PS5!Streams : handle[s][d] = h /\ mem[s] = "live" /\ ~Closed(s, d)
      BY DEF OwnInv, Owned
    <2>2. s # begun
      BY <2>1 DEF Closed
    <2> QED BY <1>1, <2>1, <2>2 DEF Closed
  <1>3. NoOutputYet' /\ OpensForLive'
    BY <1>1 DEF OwnInv, NoOutputYet, OpensForLive, PS5!Streams
  <1> QED BY <1>2, <1>3 DEF OwnInv

\* A thread opens a port for its own stream, which is live and not closing.
LEMMA OwnOpens ==
  ASSUME PS5Inv, OwnInv, ~stray, NEW s \in PS5!Streams, PS5!OpenOut(s) \/ PS5!OpenIn(s)
  PROVE  OwnInv'
  <1>1. PICK dir \in PS5!Dirs, next \in {"openIn", "play"} :
           /\ PS5!Opens(s, dir, next)
           /\ \/ dir = "out" /\ next = "openIn" /\ apc[s] = "openOut"
              \/ dir = "in" /\ next = "play" /\ apc[s] = "openIn"
    <2>1. CASE PS5!OpenOut(s)
      BY <2>1 DEF PS5!OpenOut, PS5!Dirs
    <2>2. CASE PS5!OpenIn(s)
      BY <2>2 DEF PS5!OpenIn, PS5!Dirs
    <2> QED BY <2>1, <2>2
  <1>2. /\ apc \in [PS5!Streams -> {"none", "openOut", "openIn", "play", "output", "input",
                                    "capture", "ended"}]
        /\ handle \in [PS5!Streams -> [PS5!Dirs -> Handles \cup {0, PS5!Failed}]]
        /\ open \in [PS5!Dirs -> SUBSET Handles]
    BY DEF PS5Inv, PS5!TypeOK
  <1>3. /\ UNCHANGED <<callPc, begun, mem>>
        /\ \A t \in PS5!Streams, d \in PS5!Dirs :
               t # s \/ d # dir => handle'[t][d] = handle[t][d]
        /\ apc' = [apc EXCEPT ![s] = next] \/ apc' = [apc EXCEPT ![s] = "ended"]
    BY <1>1, PS5OpensType
  <1>4. mem[s] = "live" /\ handle[s][dir] = 0 /\ ~Closed(s, dir)
    <2>1. mem[s] = "live"
      BY <1>1 DEF OwnInv, OpensForLive
    <2>2. handle[s][dir] = 0
      BY <1>1 DEF PS5Inv, OwnInv, NoHandleYet, NoOutputYet
    <2>3. ~Closed(s, dir)
      BY <1>1 DEF PS5Inv, ClosedWasOpen, Closed
    <2> QED BY <2>1, <2>2, <2>3
  <1>5. NoOutputYet'
    BY <1>1, <1>2, <1>3 DEF OwnInv, NoOutputYet, PS5!Dirs, PS5!Streams
  <1>6. OpensForLive'
    BY <1>2, <1>3, <1>4 DEF OwnInv, OpensForLive, PS5!Streams
  <1>7. Owned'
    <2> SUFFICES ASSUME NEW d \in PS5!Dirs, NEW h \in open'[d]
                 PROVE  \E t \in PS5!Streams :
                           handle'[t][d] = h /\ mem[t] = "live" /\ ~Closed(t, d)'
      BY <1>3 DEF Owned, PS5!Streams
    <2>1. CASE h \in open[d]
      <3>1. PICK t \in PS5!Streams : handle[t][d] = h /\ mem[t] = "live" /\ ~Closed(t, d)
        BY <2>1 DEF OwnInv, Owned
      <3>2. t # s \/ d # dir
        BY <1>2, <1>4, <2>1, <3>1, PortHandles
      <3> QED BY <1>3, <3>1, <3>2 DEF Closed
    <2>2. CASE h \notin open[d]
      <3>1. d = dir /\ handle' = [handle EXCEPT ![s][dir] = h]
        BY <1>1, <1>2, <2>2 DEF PS5!Opens
      <3>2. handle'[s][d] = h
        BY <1>2, <3>1
      <3> QED BY <1>3, <1>4, <3>1, <3>2 DEF Closed
    <2> QED BY <2>1, <2>2
  <1> QED BY <1>5, <1>6, <1>7 DEF OwnInv

LEMMA OwnRound ==
  ASSUME PS5Inv, OwnInv, ~stray, NEW s \in PS5!Streams,
         PS5!Play(s) \/ PS5!Output(s) \/ PS5!Input(s) \/ PS5!Capture(s)
  PROVE  OwnInv'
  <1> USE DEF PS5!Play, PS5!Output, PS5!Input, PS5!Capture, PS5!UsesPort, PS5!portVars
  <1>1. PICK p \in {"play", "output", "input", "capture", "ended"} : apc' = [apc EXCEPT ![s] = p]
    OBVIOUS
  <1>2. /\ UNCHANGED <<callPc, begun, mem, handle, open>>
        /\ apc \in [PS5!Streams -> {"none", "openOut", "openIn", "play", "output", "input",
                                    "capture", "ended"}]
    BY DEF PS5Inv, PS5!TypeOK
  <1>3. NoOutputYet' /\ Owned'
    <2>1. NoOutputYet'
      BY <1>1, <1>2 DEF OwnInv, NoOutputYet, PS5!Streams
    <2>2. Owned'
      BY <1>2 DEF OwnInv, Owned, Closed, PS5!Streams
    <2> QED BY <2>1, <2>2
  <1>4. OpensForLive'
    BY <1>1, <1>2 DEF OwnInv, OpensForLive, PS5!Streams
  <1> QED BY <1>3, <1>4 DEF OwnInv

LEMMA StepOwnInv ==
  ASSUME PS5Inv, OwnInv, PS5!CallThread \/ \E s \in PS5!Streams : PS5!AudioThread(s)
  PROVE  OwnInv'
  <1>1. CASE PS5!CallThread
    <2>1. CASE PS5!StartCall \/ PS5!CallEnds
      <3>1. /\ UNCHANGED <<mem, apc, handle, open, stray>>
            /\ callPc' \notin {"start", "closeOut", "cleanup"}
        BY <2>1 DEF PS5!StartCall, PS5!CallEnds, PS5!portVars
      <3> QED BY <3>1, OwnKept
    <2> QED BY <1>1, <2>1, OwnSetup, OwnStart, OwnClose, OwnCleanup DEF PS5!CallThread
  <1>2. ASSUME NEW s \in PS5!Streams, PS5!AudioThread(s) PROVE OwnInv'
    BY <1>2, OwnOpens, OwnRound DEF PS5!AudioThread
  <1> QED BY <1>1, <1>2

LEMMA OwnStutter == ASSUME OwnInv, UNCHANGED ps5Vars PROVE OwnInv'
  BY DEF ps5Vars, OwnInv, NoOutputYet, OpensForLive, Owned, Closed, PS5!Streams

-----------------------------------------------------------------------------
(* The theorems.                                                           *)

LEMMA LibInvariance == LibSpec => [](DevInv /\ PS5Inv /\ OwnInv)
  <1>1. LibInit => DevInv /\ PS5Inv /\ OwnInv
    BY InitDevInv, InitPS5Inv, InitOwnInv DEF LibInit
  <1>2. DevInv /\ PS5Inv /\ OwnInv /\ [LibNext]_libVars => (DevInv /\ PS5Inv /\ OwnInv)'
    <2> SUFFICES ASSUME DevInv, PS5Inv, OwnInv, [LibNext]_libVars
                 PROVE  DevInv' /\ PS5Inv' /\ OwnInv'
      OBVIOUS
    <2>1. CASE PortAudioStep
      BY <2>1, StepDevInv, PS5Stutter, OwnStutter DEF PortAudioStep
    <2>2. CASE PS5CallStep \/ \E s \in PS5!Streams : PS5AudioStep(s)
      BY <2>2, StepDevInv, StepPS5Inv, StepOwnInv DEF PS5CallStep, PS5AudioStep
    <2>3. CASE UNCHANGED libVars
      BY <2>3, StepDevInv, PS5Stutter, OwnStutter DEF libVars
    <2> QED BY <2>1, <2>2, <2>3 DEF LibNext
  <1> QED BY <1>1, <1>2, PTL DEF LibSpec

\* Type correctness of both back ends.
THEOREM TypeCorrect == LibSpec => [](TypeOK /\ PS5!TypeOK)
  <1>1. DevInv /\ PS5Inv /\ OwnInv => TypeOK /\ PS5!TypeOK
    BY DEF DevInv, PS5Inv
  <1> QED BY <1>1, LibInvariance, PTL

\* On one channel, which is what Call.c asks for, the callback never runs on
\* a stream that is released or lacks a direction. (With two channels a device
\* that has one is refused, the refusal is only logged and the stream starts
\* without it.)
THEOREM CallbackSafe ==
  ASSUME ChannelCount = 1
  PROVE  LibSpec => []CallbackHasAll
  <1>1. DevInv /\ PS5Inv /\ OwnInv => CallbackHasAll
    BY DEF DevInv, RunningReady, CallbackHasAll
  <1> QED BY <1>1, LibInvariance, PTL

\* No device is looked at through a list that is not there, and the list is
\* released twice only after the devices have vanished.
THEOREM ListSafe == LibSpec => []ListReleasedOnce
  <1>1. DevInv /\ PS5Inv /\ OwnInv => ListReleasedOnce
    BY DEF DevInv
  <1> QED BY <1>1, LibInvariance, PTL

\* On the PS5 no thread has yet to open a port when its stream is released,
\* although nobody waits for it.
THEOREM PortsOpenFirst == LibSpec => []OpensBeforeRelease
  <1>1. DevInv /\ PS5Inv /\ OwnInv => OpensBeforeRelease
    BY DEF PS5Inv
  <1> QED BY <1>1, LibInvariance, PTL

\* On the PS5 an open port is known to a stream that has not been released, so
\* that no release leaves one open that nobody can close any more.
THEOREM PortsHaveOwners == LibSpec => []OpenPortHasOwner
  <1>1. DevInv /\ PS5Inv /\ OwnInv => OpenPortHasOwner
    BY DEF OwnInv, Owned, OpenPortHasOwner, PS5!OpenPortHasOwner
  <1> QED BY <1>1, LibInvariance, PTL
=============================================================================
