----------------------------- MODULE AudioStream -----------------------------
(***************************************************************************)
(* A duplex audio stream (src/src/AudioPA.c; AudioPS5.c has the same data  *)
(* path with another block size).  Three threads meet here: the device's   *)
(* callback plays a block and captures a block, the RTP sender reads       *)
(* frames of captured samples, and the SIP thread writes frames of decoded *)
(* samples.  Each direction is a ring buffer with one reader and one       *)
(* writer; it is a Fifo here (RingBuffer implements Fifo), and each of its *)
(* operations is one step.  What is not atomic is the stream's own         *)
(* check-then-act: every user asks how much is available, and acts later.  *)
(*                                                                         *)
(* A sample is its number in the order in which the SIP thread wrote it,   *)
(* or in which the device captured it.                                     *)
(***************************************************************************)
EXTENDS Naturals, Sequences

CONSTANTS
    Frame,      \* sampleCount: samples of one codec frame
    Block,      \* framesPerBuffer, or the grain of AudioPS5.c
    Capacity,   \* sampleCapacity of each ring buffer
    MaxFrames,  \* bound on the frames decoded
    MaxBlocks   \* bound on the blocks captured

\* The capacity is the power of two above ten frames; what follows
\* needs only that a frame fits beside a block that is not complete.
ASSUME StreamAssumption ==
    /\ Frame \in Nat \ {0}
    /\ Block \in Nat \ {0}
    /\ Capacity \in Nat
    /\ Capacity >= Frame + Block
    /\ MaxFrames \in Nat
    /\ MaxBlocks \in Nat

VARIABLES
    running,    \* the device calls back
    toDevice,   \* contents of rbToDevice
    fromDevice, \* contents of rbFromDevice
    device,     \* where the callback is
    heard,      \* the samples of the last block played, empty for silence
    captured,   \* samples captured so far
    reader,     \* where the sender's Read is
    frame,      \* the samples the last Read returned
    writer,     \* where the SIP thread's Write is
    written     \* samples the Writes have returned so far

deviceVars == <<running, device, heard, captured>>
vars == <<deviceVars, toDevice, fromDevice, reader, frame, writer, written>>

Smaller(a, b) == IF a < b THEN a ELSE b
Appended(q, from, n) == q \o [i \in 1..n |-> from + i - 1]
Oldest(q, n) == SubSeq(q, 1, n)
Without(q, n) == SubSeq(q, n + 1, Len(q))

Init ==
    /\ running = FALSE
    /\ toDevice = << >>
    /\ fromDevice = << >>
    /\ device = "idle"
    /\ heard = << >>
    /\ captured = 0
    /\ reader = "idle"
    /\ frame = << >>
    /\ writer = "idle"
    /\ written = 0

\* rawr_AudioStream_Start: the device begins to call back.
Start ==
    /\ ~running
    /\ running' = TRUE
    /\ UNCHANGED <<device, heard, captured, toDevice, fromDevice, reader, frame, writer,
                   written>>

\* rawr_AudioStream_Stop: Pa_StopStream waits for a callback in progress.
Stop ==
    /\ running
    /\ device = "idle"
    /\ running' = FALSE
    /\ UNCHANGED <<device, heard, captured, toDevice, fromDevice, reader, frame, writer,
                   written>>

-----------------------------------------------------------------------------
(* The device's callback.  A callback that primes the output returns at    *)
(* once and changes nothing.                                               *)

\* Mutated: the callback plays only when the buffer is full.
CallbackBeginsLate ==
    /\ running
    /\ device = "idle"
    /\ IF Len(toDevice) < Capacity
       THEN device' = "capture" /\ heard' = << >>
       ELSE device' = "play" /\ UNCHANGED heard
    /\ UNCHANGED <<running, captured, toDevice, fromDevice, reader, frame, writer, written>>

\* With less than a block to play, the callback plays silence.
CallbackBegins ==
    /\ running
    /\ device = "idle"
    /\ IF Len(toDevice) < Block
       THEN device' = "capture" /\ heard' = << >>
       ELSE device' = "play" /\ UNCHANGED heard
    /\ UNCHANGED <<running, captured, toDevice, fromDevice, reader, frame, writer, written>>

\* Mutated: the callback plays a block and drops the newest sample instead.
CallbackPlaysNewest ==
    /\ device = "play"
    /\ device' = "capture"
    /\ heard' = Oldest(toDevice, Block)
    /\ toDevice' = Oldest(toDevice, Len(toDevice) - Block)
    /\ UNCHANGED <<running, captured, fromDevice, reader, frame, writer, written>>

CallbackPlays ==
    /\ device = "play"
    /\ device' = "capture"
    /\ LET n == Smaller(Block, Len(toDevice))
       IN  heard' = Oldest(toDevice, n) /\ toDevice' = Without(toDevice, n)
    /\ UNCHANGED <<running, captured, fromDevice, reader, frame, writer, written>>

\* Mutated: of a block that does not fit the first samples are lost.
CallbackCapturesTail ==
    /\ device = "capture" /\ captured < MaxBlocks * Block
    /\ device' = "idle"
    /\ LET n == Smaller(Block, Capacity - Len(fromDevice))
       IN  fromDevice' = Appended(fromDevice, captured + Block - n, n)
    /\ captured' = captured + Block
    /\ UNCHANGED <<running, heard, toDevice, reader, frame, writer, written>>

\* Mutated: the captured block is written whatever room there is.
CallbackCapturesAll ==
    /\ device = "capture" /\ captured < MaxBlocks * Block
    /\ device' = "idle"
    /\ fromDevice' = Appended(fromDevice, captured, Block)
    /\ captured' = captured + Block
    /\ UNCHANGED <<running, heard, toDevice, reader, frame, writer, written>>

\* The captured block is written as far as there is room; the rest is lost.
CallbackCaptures ==
    /\ device = "capture" /\ captured < MaxBlocks * Block
    /\ device' = "idle"
    /\ LET n == Smaller(Block, Capacity - Len(fromDevice))
       IN  fromDevice' = Appended(fromDevice, captured, n)
    /\ captured' = captured + Block
    /\ UNCHANGED <<running, heard, toDevice, reader, frame, writer, written>>

\* The bound on what is captured: the device goes on calling back, and the
\* blocks after the last one are left out.
CapturesNoMore ==
    /\ device = "capture" /\ captured >= MaxBlocks * Block
    /\ device' = "idle"
    /\ UNCHANGED <<running, heard, captured, toDevice, fromDevice, reader, frame, writer,
                   written>>

-----------------------------------------------------------------------------
(* rawr_AudioStream_Read, in the loop of the RTP sender.                   *)

\* Mutated: the check lets a Read through that is one sample short.
ReadCheckShort ==
    /\ reader = "idle"
    /\ Len(fromDevice) + 1 >= Frame
    /\ reader' = "read"
    /\ UNCHANGED <<deviceVars, toDevice, fromDevice, frame, writer, written>>

\* With less than a frame available Read returns 0 and is called again.
ReadCheck ==
    /\ reader = "idle"
    /\ Len(fromDevice) >= Frame
    /\ reader' = "read"
    /\ UNCHANGED <<deviceVars, toDevice, fromDevice, frame, writer, written>>

ReadFrame ==
    /\ reader = "read"
    /\ reader' = "idle"
    /\ LET n == Smaller(Frame, Len(fromDevice))
       IN  frame' = Oldest(fromDevice, n) /\ fromDevice' = Without(fromDevice, n)
    /\ UNCHANGED <<deviceVars, toDevice, writer, written>>

-----------------------------------------------------------------------------
(* rawr_AudioStream_Write, in the loop of OnRtp.                           *)

\* OnRtp has decoded a frame and offers it until it is taken.
Decoded ==
    /\ writer = "idle"
    /\ written < MaxFrames * Frame
    /\ writer' = "offer"
    /\ UNCHANGED <<deviceVars, toDevice, fromDevice, reader, frame, written>>

\* With less room than a frame Write returns 0 and is called again.
WriteCheck ==
    /\ writer = "offer"
    /\ Capacity - Len(toDevice) >= Frame
    /\ writer' = "write"
    /\ UNCHANGED <<deviceVars, toDevice, fromDevice, reader, frame, written>>

WriteFrame ==
    /\ writer = "write"
    /\ writer' = "idle"
    /\ LET n == Smaller(Frame, Capacity - Len(toDevice))
       IN  toDevice' = Appended(toDevice, written, n) /\ written' = written + n
    /\ UNCHANGED <<deviceVars, fromDevice, reader, frame>>

-----------------------------------------------------------------------------
Callback == CallbackBegins \/ CallbackPlays \/ CallbackCaptures \/ CapturesNoMore

Next ==
    \/ Start \/ Stop \/ Callback
    \/ ReadCheck \/ ReadFrame
    \/ Decoded \/ WriteCheck \/ WriteFrame

Spec == Init /\ [][Next]_vars

\* The SIP thread is scheduled.  Nothing is assumed of the device.
FairSpec == Spec /\ WF_vars(WriteCheck \/ WriteFrame)

-----------------------------------------------------------------------------
\* The samples that have left rbToDevice.
Played == written - Len(toDevice)

\* b was captured right after a, or the samples between them were lost and b
\* begins a block.
Follows(a, b) ==
    \/ b = a + 1
    \/ b > a /\ \E k \in 0..MaxBlocks : b = k * Block

InOrderOfCapture(q) == \A i \in 1..(Len(q) - 1) : Follows(q[i], q[i + 1])

\* Every variable has its type, and the buffers do not exceed their capacity.
TypeOK ==
    /\ running \in BOOLEAN
    /\ toDevice \in Seq(Nat) /\ Len(toDevice) <= Capacity
    /\ fromDevice \in Seq(Nat) /\ Len(fromDevice) <= Capacity
    /\ device \in {"idle", "play", "capture"}
    /\ heard \in Seq(Nat)
    /\ captured \in Nat
    /\ reader \in {"idle", "read"}
    /\ frame \in Seq(Nat)
    /\ writer \in {"idle", "offer", "write"}
    /\ written \in Nat

\* The checks of Read, Write and the callback are still true when they act:
\* a Read returns a whole frame, a Write is taken whole, the callback plays
\* a whole block or silence, although another thread moves in between.
AllOrNothing ==
    /\ Len(frame) \in {0, Frame}
    /\ \E k \in 0..MaxFrames : written = k * Frame
    /\ Len(heard) \in {0, Block}

\* Every decoded sample is played once and in order: the last block played
\* are the samples just before those that wait, and these go up to the last
\* one written.
PlayedInOrder ==
    /\ \A i \in 1..Len(toDevice) : toDevice[i] = Played + i - 1
    /\ \A i \in 1..Len(heard) : heard[i] = Played - Len(heard) + i - 1

\* The loop of OnRtp that offers a decoded frame until it is taken ends, as
\* long as the device calls back again and again, whatever is left in the
\* buffer and however often the stream is stopped and started meanwhile.
OfferedIsTaken ==
    []<><<CallbackBegins>>_vars => (writer = "offer" ~> writer = "idle")

\* What Read returns is in the order of capture, and where samples are
\* missing (the buffer was full) it is the end of a captured block.
LostAtBlockEnd ==
    /\ InOrderOfCapture(frame)
    /\ InOrderOfCapture(fromDevice)
    /\ frame # << >> /\ fromDevice # << >> => Follows(frame[Len(frame)], fromDevice[1])
=============================================================================
