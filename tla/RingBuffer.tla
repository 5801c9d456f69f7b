----------------------------- MODULE RingBuffer -----------------------------
(***************************************************************************)
(* The lock-free sample queue of src/src/RingBuffer.c, used between one    *)
(* writer thread and one reader thread.                                    *)
(*                                                                         *)
(* The granularity is the one the threads can observe: the load of the     *)
(* other side's index, the copy of one element, and the store of the own   *)
(* index are separate steps, and memcpy copies its elements in any order.  *)
(* The memory barriers are what keeps the three kinds of step in program   *)
(* order, so they appear as the control state "copy" between the load and  *)
(* the store.                                                              *)
(*                                                                         *)
(* An element is the position it has in the stream of accepted elements;   *)
(* -1 stands for memory nobody wrote.                                      *)
(***************************************************************************)
EXTENDS Integers, Sequences, FiniteSets

CONSTANTS
    N,          \* bufferSize: number of elements, a power of two
    MaxRequest, \* bound: largest elementCount a caller passes
    MaxAccepted \* bound: number of elements written in a behaviour

ASSUME NAssumption == N \in Nat \ {0}
ASSUME BoundsAssumption == MaxRequest \in Nat /\ MaxAccepted \in Nat

VARIABLES
    writeIndex, readIndex,  \* rbuf->writeIndex, rbuf->readIndex
    buffer,                 \* rbuf->buffer
    wPc, wRegions, wLeft,   \* the writer: control, its regions, offsets to copy
    rPc, rRegions, rLeft,   \* the reader: control, its regions, offsets to copy
    rData,                  \* the caller's buffer a Read copies into
    accepted,               \* history: number of elements written
    consumed,               \* history: number of elements read
    result                  \* history: what the last Read returned

writerVars == <<wPc, wRegions, wLeft>>
readerVars == <<rPc, rRegions, rLeft, rData>>
vars == <<writeIndex, readIndex, buffer, writerVars, readerVars,
          accepted, consumed, result>>

Slots == 0..(N - 1)
Garbage == -1

-----------------------------------------------------------------------------
\* Mutated: the indices wrap at N, without the bit that tells full from empty.
BigMaskOneBitShort(x) == x % N

\* x & bigMask and x & smallMask: the masks are 2N-1 and N-1.
BigMask(x) == x % (2 * N)
SmallMask(x) == x % N

\* Mutated: the difference masked to N values, so a full buffer looks empty.
GetReadAvailableSmall == SmallMask(writeIndex - readIndex)
GetReadAvailable == BigMask(writeIndex - readIndex)
\* Mutated: one element too many may be written.
GetWriteAvailableOffByOne == N - GetReadAvailable + 1
GetWriteAvailable == N - GetReadAvailable

Clamp(n, available) == IF n > available THEN available ELSE n

\* The one or two contiguous blocks that `count' elements from `index' occupy.
Split(index, count) ==
    IF index + count > N
    THEN [ptr1 |-> index, size1 |-> N - index, size2 |-> count - (N - index)]
    ELSE [ptr1 |-> index, size1 |-> count, size2 |-> 0]

GetWriteRegions(n) == Split(SmallMask(writeIndex), Clamp(n, GetWriteAvailable))
\* Mutated: the request is not clamped to what is available.
GetReadRegionsUnclamped(n) == Split(SmallMask(readIndex), n)
GetReadRegions(n) == Split(SmallMask(readIndex), Clamp(n, GetReadAvailable))

Count(reg) == reg.size1 + reg.size2

\* Where the two memcpy calls find element `i' of the caller's data.
SlotAt(reg, i) == IF i < reg.size1 THEN reg.ptr1 + i ELSE i - reg.size1

NoRegions == [ptr1 |-> 0, size1 |-> 0, size2 |-> 0]

-----------------------------------------------------------------------------
\* rawr_RingBuffer_Initialize, which ends in rawr_RingBuffer_Flush.
Init ==
    /\ writeIndex = 0 /\ readIndex = 0
    /\ buffer = [s \in Slots |-> Garbage]
    /\ wPc = "idle" /\ wRegions = NoRegions /\ wLeft = {}
    /\ rPc = "idle" /\ rRegions = NoRegions /\ rLeft = {}
    /\ rData = [s \in Slots |-> Garbage]
    /\ accepted = 0 /\ consumed = 0 /\ result = << >>

\* rawr_RingBuffer_Write: load readIndex and compute the regions ...
WriteBegin(n) ==
    /\ wPc = "idle"
    /\ accepted + n <= MaxAccepted
    /\ wPc' = "copy"
    /\ wRegions' = GetWriteRegions(n)
    /\ wLeft' = 0..(Count(wRegions') - 1)
    /\ UNCHANGED <<writeIndex, readIndex, buffer, readerVars,
                   accepted, consumed, result>>

\* ... copy the elements ...
WriteCopy(i) ==
    /\ wPc = "copy"
    /\ i \in wLeft
    /\ buffer' = [buffer EXCEPT ![SlotAt(wRegions, i)] = accepted + i]
    /\ wLeft' = wLeft \ {i}
    /\ UNCHANGED <<writeIndex, readIndex, wPc, wRegions, readerVars,
                   accepted, consumed, result>>

\* Mutated: the new index is stored without the mask.
AdvanceWriteIndexUnmasked ==
    /\ wPc = "copy"
    /\ wLeft = {}
    /\ writeIndex' = writeIndex + Count(wRegions)
    /\ accepted' = accepted + Count(wRegions)
    /\ wPc' = "idle"
    /\ UNCHANGED <<readIndex, buffer, wRegions, wLeft, readerVars,
                   consumed, result>>

\* ... and publish them.
AdvanceWriteIndex ==
    /\ wPc = "copy"
    /\ wLeft = {}
    /\ writeIndex' = BigMask(writeIndex + Count(wRegions))
    /\ accepted' = accepted + Count(wRegions)
    /\ wPc' = "idle"
    /\ UNCHANGED <<readIndex, buffer, wRegions, wLeft, readerVars,
                   consumed, result>>

\* rawr_RingBuffer_Read: load writeIndex and compute the regions ...
ReadBegin(n) ==
    /\ rPc = "idle"
    /\ rPc' = "copy"
    /\ rRegions' = GetReadRegions(n)
    /\ rLeft' = 0..(Count(rRegions') - 1)
    /\ UNCHANGED <<writeIndex, readIndex, buffer, writerVars, rData,
                   accepted, consumed, result>>

\* ... copy the elements out ...
ReadCopy(i) ==
    /\ rPc = "copy"
    /\ i \in rLeft
    /\ rData' = [rData EXCEPT ![i] = buffer[SlotAt(rRegions, i)]]
    /\ rLeft' = rLeft \ {i}
    /\ UNCHANGED <<writeIndex, readIndex, buffer, writerVars, rPc, rRegions,
                   accepted, consumed, result>>

\* ... and give their slots back to the writer.
AdvanceReadIndex ==
    /\ rPc = "copy"
    /\ rLeft = {}
    /\ readIndex' = BigMask(readIndex + Count(rRegions))
    /\ consumed' = consumed + Count(rRegions)
    /\ result' = [i \in 1..Count(rRegions) |-> rData[i - 1]]
    /\ rPc' = "idle"
    /\ UNCHANGED <<writeIndex, buffer, writerVars, rRegions, rLeft, rData,
                   accepted>>

-----------------------------------------------------------------------------
Writer ==
    \/ \E n \in 0..MaxRequest : WriteBegin(n)
    \/ \E i \in Slots : WriteCopy(i)
    \/ AdvanceWriteIndex

Reader ==
    \/ \E n \in 1..MaxRequest : ReadBegin(n)
    \/ \E i \in Slots : ReadCopy(i)
    \/ AdvanceReadIndex

Next == Writer \/ Reader

Spec == Init /\ [][Next]_vars

\* The reading thread polls for as long as the stream runs.
FairSpec == Spec /\ WF_vars(Writer) /\ WF_vars(Reader)

-----------------------------------------------------------------------------
RegionsType == [ptr1 : Slots, size1 : 0..N, size2 : 0..N]

\* Every variable holds a value the C declarations and the masks allow.
TypeOK ==
    /\ writeIndex \in 0..(2 * N - 1) /\ readIndex \in 0..(2 * N - 1)
    /\ buffer \in [Slots -> Nat \cup {Garbage}]
    /\ wPc \in {"idle", "copy"} /\ rPc \in {"idle", "copy"}
    /\ wRegions \in RegionsType /\ rRegions \in RegionsType
    /\ wLeft \subseteq Slots /\ rLeft \subseteq Slots
    /\ rData \in [Slots -> Nat \cup {Garbage}]
    /\ accepted \in Nat /\ consumed \in Nat
    /\ result \in Seq(Nat \cup {Garbage})

\* The slots a thread is still copying to or from.
WriterSlots == {SlotAt(wRegions, i) : i \in wLeft}
ReaderSlots == {SlotAt(rRegions, i) : i \in rLeft}

\* The barriers and the one-sided index loads are enough to keep the threads
\* apart: no element is copied out while it is being copied in.
NoTornElement ==
    wPc = "copy" /\ rPc = "copy" => WriterSlots \cap ReaderSlots = {}

\* What a running Read has copied out so far are the oldest unread elements,
\* each at its place: nothing stale, lost, repeated or overwritten.
ReadsInOrder ==
    rPc = "copy" =>
        \A i \in (0..(Count(rRegions) - 1)) \ rLeft : rData[i] = consumed + i

\* The indices of width 2N tell an empty buffer from a full one: what
\* GetReadAvailable computes from them is the number of unread elements,
\* and it never exceeds the capacity.
AvailableIsExact ==
    /\ GetReadAvailable = accepted - consumed
    /\ GetReadAvailable \in 0..N

\* The elements between the two indices, read from the buffer itself.
Contents ==
    [i \in 1..GetReadAvailable |-> buffer[SmallMask(readIndex + i - 1)]]

\* Refinement: an operation takes effect when its index store does.
F == INSTANCE Fifo WITH Capacity <- N, queue <- Contents

\* The ring buffer is a bounded FIFO queue with atomic operations.
ImplementsFifo == F!Spec

\* A polling reader receives every accepted element.
EveryElementDelivered ==
    \A k \in 1..MaxAccepted : (accepted >= k) ~> (consumed >= k)
=============================================================================
