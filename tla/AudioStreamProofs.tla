------------------------- MODULE AudioStreamProofs -------------------------
(***************************************************************************)
(* Proofs about the audio stream, for every frame and block size and every *)
(* capacity that holds a frame beside a block.                             *)
(***************************************************************************)
EXTENDS AudioStream, TLAPS

-----------------------------------------------------------------------------
(* The operations on the contents of a buffer.                             *)

LEMMA OldestAre ==
  ASSUME NEW q \in Seq(Nat), NEW n \in 0..Len(q)
  PROVE  /\ Oldest(q, n) \in Seq(Nat)
         /\ Len(Oldest(q, n)) = n
         /\ \A i \in 1..n : Oldest(q, n)[i] = q[i]
  <1>1. \A i \in 1..n : q[i] \in Nat
    OBVIOUS
  <1> QED BY <1>1 DEF Oldest

LEMMA WithoutAre ==
  ASSUME NEW q \in Seq(Nat), NEW n \in 0..Len(q)
  PROVE  /\ Without(q, n) \in Seq(Nat)
         /\ Len(Without(q, n)) = Len(q) - n
         /\ \A i \in 1..(Len(q) - n) : Without(q, n)[i] = q[n + i]
  <1>1. /\ Len(q) \in Nat
        /\ \A i \in (n + 1)..Len(q) : q[i] \in Nat
    OBVIOUS
  <1>2. Without(q, n) \in Seq(Nat)
    BY <1>1 DEF Without
  <1>3. Len(Without(q, n)) = Len(q) - n
    BY <1>1 DEF Without
  <1>4. ASSUME NEW i \in 1..(Len(q) - n) PROVE Without(q, n)[i] = q[n + i]
    BY <1>1 DEF Without
  <1> QED BY <1>2, <1>3, <1>4

Extends(r, q, from, n) ==
    /\ r \in Seq(Nat)
    /\ Len(r) = Len(q) + n
    /\ \A i \in 1..Len(q) : r[i] = q[i]
    /\ \A i \in 1..n : r[Len(q) + i] = from + i - 1

LEMMA AppendedAre ==
  ASSUME NEW q \in Seq(Nat), NEW from \in Nat, NEW n \in Nat
  PROVE  Extends(Appended(q, from, n), q, from, n)
  <1> DEFINE t == [i \in 1..n |-> from + i - 1]
  <1>1. \A i \in 1..n : from + i - 1 \in Nat
    OBVIOUS
  <1>2. t \in Seq(Nat) /\ Len(t) = n /\ \A i \in 1..n : t[i] = from + i - 1
    BY <1>1
  <1>3. Len(q) \in Nat
    OBVIOUS
  <1>4. PICK s \in Seq(Nat) : s = t
    BY <1>2
  <1>5. Len(s) = n /\ \A i \in 1..n : s[i] = from + i - 1
    BY <1>2, <1>4
  <1>6. Appended(q, from, n) = q \o s
    BY <1>4 DEF Appended
  <1> HIDE DEF t
  <1>7. q \o s \in Seq(Nat) /\ Len(q \o s) = Len(q) + n
    BY <1>5, SMTT(30)
  <1>8. \A i \in 1..Len(q) : (q \o s)[i] = q[i]
    BY <1>5, <1>3
  <1>9. ASSUME NEW i \in 1..n PROVE (q \o s)[Len(q) + i] = from + i - 1
    <2>1. (q \o s)[Len(q) + i] = s[i]
      BY <1>5, <1>3
    <2> QED BY <2>1, <1>5
  <1> QED BY <1>6, <1>7, <1>8, <1>9 DEF Extends

\* Taking the oldest samples keeps the order of capture.
LEMMA OrderOfOldest ==
  ASSUME NEW q \in Seq(Nat), NEW n \in 0..Len(q), InOrderOfCapture(q)
  PROVE  InOrderOfCapture(Oldest(q, n))
  BY OldestAre DEF InOrderOfCapture

LEMMA OrderOfRest ==
  ASSUME NEW q \in Seq(Nat), NEW n \in 0..Len(q), InOrderOfCapture(q)
  PROVE  InOrderOfCapture(Without(q, n))
  <1>1. PICK r \in Seq(Nat) : r = Without(q, n)
    BY WithoutAre
  <1>2. Len(r) = Len(q) - n /\ \A i \in 1..(Len(q) - n) : r[i] = q[n + i]
    BY <1>1, WithoutAre
  <1>3. ASSUME NEW i \in 1..(Len(r) - 1) PROVE Follows(r[i], r[i + 1])
    <2>1. /\ Len(q) \in Nat
          /\ n + i \in 1..(Len(q) - 1)
          /\ i \in 1..(Len(q) - n)
          /\ i + 1 \in 1..(Len(q) - n)
          /\ n + (i + 1) = (n + i) + 1
      BY <1>2
    <2>2. r[i] = q[n + i]
      BY <1>2, <2>1
    <2>3. r[i + 1] = q[n + (i + 1)]
      BY <1>2, <2>1
    <2>4. Follows(q[n + i], q[(n + i) + 1])
      BY <2>1 DEF InOrderOfCapture
    <2> QED BY <2>1, <2>2, <2>3, <2>4
  <1> QED BY <1>1, <1>3 DEF InOrderOfCapture

-----------------------------------------------------------------------------
(* The inductive invariant.  What each thread has checked is still true    *)
(* when it acts, because only its own action could make it false; and the  *)
(* captured samples are whole blocks, of which the buffer holds only       *)
(* samples that have been captured.                                        *)

Checked ==
    /\ device = "play" => Len(toDevice) >= Block
    /\ reader = "read" => Len(fromDevice) >= Frame
    /\ writer = "write" => Capacity - Len(toDevice) >= Frame

WholeBlocks ==
    /\ \E k \in 0..MaxBlocks : captured = k * Block
    /\ \A i \in 1..Len(frame) : frame[i] < captured
    /\ \A i \in 1..Len(fromDevice) : fromDevice[i] < captured

MoreToWrite == writer # "idle" => written < MaxFrames * Frame

IInv == TypeOK /\ AllOrNothing /\ PlayedInOrder /\ LostAtBlockEnd
            /\ Checked /\ WholeBlocks /\ MoreToWrite

\* What an action that leaves one side of the stream alone preserves there.
OutputInv ==
    /\ toDevice \in Seq(Nat) /\ Len(toDevice) <= Capacity
    /\ heard \in Seq(Nat) /\ Len(heard) \in {0, Block}
    /\ writer \in {"idle", "offer", "write"}
    /\ written \in Nat /\ \E k \in 0..MaxFrames : written = k * Frame
    /\ PlayedInOrder
    /\ writer = "write" => Capacity - Len(toDevice) >= Frame
    /\ MoreToWrite

InputInv ==
    /\ fromDevice \in Seq(Nat) /\ Len(fromDevice) <= Capacity
    /\ frame \in Seq(Nat) /\ Len(frame) \in {0, Frame}
    /\ reader \in {"idle", "read"}
    /\ captured \in Nat
    /\ LostAtBlockEnd
    /\ reader = "read" => Len(fromDevice) >= Frame

DeviceInv ==
    /\ running \in BOOLEAN
    /\ device \in {"idle", "play", "capture"}
    /\ device = "play" => Len(toDevice) >= Block

LEMMA SplitInv == IInv <=> OutputInv /\ InputInv /\ DeviceInv /\ WholeBlocks
  BY DEF IInv, OutputInv, InputInv, DeviceInv, TypeOK, AllOrNothing, Checked

LEMMA OutputUnchanged ==
  ASSUME OutputInv, UNCHANGED <<toDevice, heard, writer, written>>
  PROVE  OutputInv'
  BY DEF OutputInv, PlayedInOrder, Played, MoreToWrite

LEMMA InputUnchanged ==
  ASSUME InputInv, UNCHANGED <<fromDevice, frame, reader, captured>>
  PROVE  InputInv'
  BY DEF InputInv, LostAtBlockEnd, InOrderOfCapture, Follows

LEMMA BlocksUnchanged ==
  ASSUME WholeBlocks, UNCHANGED <<fromDevice, frame, captured>>
  PROVE  WholeBlocks'
  BY DEF WholeBlocks

-----------------------------------------------------------------------------
LEMMA InitInv == Init => IInv
  <1> SUFFICES ASSUME Init PROVE IInv
    OBVIOUS
  <1> USE StreamAssumption
  <1>1. OutputInv
    <2>1. written = 0 * Frame
      BY DEF Init
    <2> QED BY <2>1 DEF Init, OutputInv, PlayedInOrder, Played, MoreToWrite
  <1>2. InputInv
    BY DEF Init, InputInv, LostAtBlockEnd, InOrderOfCapture
  <1>3. DeviceInv
    BY DEF Init, DeviceInv
  <1>4. WholeBlocks
    <2>1. captured = 0 * Block
      BY DEF Init
    <2> QED BY <2>1 DEF Init, WholeBlocks
  <1> QED BY <1>1, <1>2, <1>3, <1>4, SplitInv

LEMMA StartStopInv ==
  ASSUME IInv, Start \/ Stop
  PROVE  IInv'
  <1>1. OutputInv /\ InputInv /\ DeviceInv /\ WholeBlocks
    BY SplitInv
  <1>2. OutputInv'
    BY <1>1, OutputUnchanged DEF Start, Stop
  <1>3. InputInv'
    BY <1>1, InputUnchanged DEF Start, Stop
  <1>4. WholeBlocks'
    BY <1>1, BlocksUnchanged DEF Start, Stop
  <1>5. DeviceInv'
    BY <1>1 DEF DeviceInv, Start, Stop
  <1> QED BY <1>2, <1>3, <1>4, <1>5, SplitInv, PTL

LEMMA CallbackBeginsInv ==
  ASSUME IInv, CallbackBegins
  PROVE  IInv'
  <1> USE StreamAssumption
  <1>1. OutputInv /\ InputInv /\ DeviceInv /\ WholeBlocks
    BY SplitInv
  <1>2. OutputInv'
    <2>1. CASE heard' = heard
      BY <1>1, <2>1, OutputUnchanged DEF CallbackBegins
    <2>2. CASE heard' = << >>
      <3>1. heard' \in Seq(Nat) /\ Len(heard') = 0
        BY <2>2
      <3>2. PlayedInOrder'
        BY <1>1, <3>1 DEF CallbackBegins, OutputInv, PlayedInOrder, Played
      <3> QED BY <1>1, <3>1, <3>2 DEF CallbackBegins, OutputInv, MoreToWrite
    <2> QED BY <2>1, <2>2 DEF CallbackBegins
  <1>3. InputInv'
    BY <1>1, InputUnchanged DEF CallbackBegins
  <1>4. WholeBlocks'
    BY <1>1, BlocksUnchanged DEF CallbackBegins
  <1>5. DeviceInv'
    BY <1>1 DEF DeviceInv, OutputInv, CallbackBegins
  <1> QED BY <1>2, <1>3, <1>4, <1>5, SplitInv, PTL

LEMMA CallbackPlaysInv ==
  ASSUME IInv, CallbackPlays
  PROVE  IInv'
  <1> USE StreamAssumption
  <1>1. OutputInv /\ InputInv /\ DeviceInv /\ WholeBlocks
    BY SplitInv
  <1>2. /\ toDevice \in Seq(Nat) /\ Len(toDevice) \in Nat
        /\ Block \in 0..Len(toDevice)
    BY <1>1 DEF OutputInv, DeviceInv, CallbackPlays
  <1>3. heard' = Oldest(toDevice, Block) /\ toDevice' = Without(toDevice, Block)
    BY <1>2 DEF CallbackPlays, Smaller
  <1>4. /\ heard' \in Seq(Nat) /\ Len(heard') = Block
        /\ \A i \in 1..Block : heard'[i] = toDevice[i]
    BY <1>2, <1>3, OldestAre
  <1>5. /\ toDevice' \in Seq(Nat) /\ Len(toDevice') = Len(toDevice) - Block
        /\ \A i \in 1..(Len(toDevice) - Block) : toDevice'[i] = toDevice[Block + i]
    BY <1>2, <1>3, WithoutAre
  <1>6. PlayedInOrder'
    <2>1. \A i \in 1..Len(toDevice) : toDevice[i] = written - Len(toDevice) + i - 1
      BY <1>1 DEF OutputInv, PlayedInOrder, Played
    <2>2. written' = written /\ written \in Nat
      BY <1>1 DEF CallbackPlays, OutputInv
    <2>3. ASSUME NEW i \in 1..Len(toDevice')
          PROVE  toDevice'[i] = written' - Len(toDevice') + i - 1
      <3>1. i \in 1..(Len(toDevice) - Block) /\ Block + i \in 1..Len(toDevice)
        BY <1>2, <1>5, SMTT(30)
      <3>2. toDevice'[i] = toDevice[Block + i]
        BY <1>5, <3>1
      <3>3. toDevice[Block + i] = written - Len(toDevice) + (Block + i) - 1
        BY <2>1, <3>1
      <3> QED BY <1>2, <1>5, <2>2, <3>2, <3>3
    <2>4. ASSUME NEW i \in 1..Len(heard')
          PROVE  heard'[i] = written' - Len(toDevice') - Len(heard') + i - 1
      <3>1. i \in 1..Block /\ i \in 1..Len(toDevice)
        BY <1>2, <1>4
      <3>2. heard'[i] = written - Len(toDevice) + i - 1
        BY <1>4, <2>1, <3>1
      <3> QED BY <1>2, <1>4, <1>5, <2>2, <3>2
    <2> QED BY <2>3, <2>4 DEF PlayedInOrder, Played
  <1>7. OutputInv'
    <2>1. Len(toDevice') <= Len(toDevice) /\ Len(toDevice') \in Nat
      BY <1>2, <1>5
    <2>2. UNCHANGED <<writer, written>>
      BY DEF CallbackPlays
    <2>3. /\ Len(toDevice') <= Capacity
          /\ writer' = "write" => Capacity - Len(toDevice') >= Frame
      BY <1>1, <1>2, <2>1, <2>2 DEF OutputInv
    <2> QED BY <1>1, <1>4, <1>5, <1>6, <2>2, <2>3 DEF OutputInv, MoreToWrite
  <1>8. InputInv'
    BY <1>1, InputUnchanged DEF CallbackPlays
  <1>9. WholeBlocks'
    BY <1>1 DEF WholeBlocks, CallbackPlays
  <1>10. DeviceInv'
    BY <1>1 DEF DeviceInv, CallbackPlays
  <1> QED BY <1>7, <1>8, <1>9, <1>10, SplitInv, PTL

LEMMA CallbackCapturesInv ==
  ASSUME IInv, CallbackCaptures
  PROVE  IInv'
  <1> USE StreamAssumption
  <1>1. OutputInv /\ InputInv /\ DeviceInv /\ WholeBlocks
    BY SplitInv
  <1>2. /\ fromDevice \in Seq(Nat) /\ Len(fromDevice) \in Nat /\ captured \in Nat
        /\ Len(fromDevice) <= Capacity
        /\ captured' = captured + Block
        /\ frame' = frame /\ frame \in Seq(Nat) /\ Len(frame) \in Nat
    BY <1>1 DEF InputInv, CallbackCaptures
  <1>3. PICK n \in 0..Block :
            /\ n <= Capacity - Len(fromDevice)
            /\ fromDevice' = Appended(fromDevice, captured, n)
    <2>1. Smaller(Block, Capacity - Len(fromDevice)) \in 0..Block
      BY <1>2 DEF Smaller
    <2>2. Smaller(Block, Capacity - Len(fromDevice)) <= Capacity - Len(fromDevice)
      BY <1>2 DEF Smaller
    <2> QED BY <2>1, <2>2 DEF CallbackCaptures
  <1>4. /\ fromDevice' \in Seq(Nat)
        /\ Len(fromDevice') = Len(fromDevice) + n
        /\ \A i \in 1..Len(fromDevice) : fromDevice'[i] = fromDevice[i]
        /\ \A i \in 1..n : fromDevice'[Len(fromDevice) + i] = captured + i - 1
    <2>1. fromDevice \in Seq(Nat) /\ captured \in Nat /\ n \in Nat
      BY <1>2
    <2>2. fromDevice' = Appended(fromDevice, captured, n)
      BY <1>3
    <2>3. Extends(fromDevice', fromDevice, captured, n)
      BY <2>1, <2>2, AppendedAre
    <2> QED BY <2>3 DEF Extends
  <1>5. PICK k \in 0..MaxBlocks : captured = k * Block /\ k < MaxBlocks
    <2>1. PICK k \in 0..MaxBlocks : captured = k * Block
      BY <1>1 DEF WholeBlocks
    <2>2. k # MaxBlocks
      BY <2>1 DEF CallbackCaptures
    <2>3. k < MaxBlocks
      BY <2>2
    <2> QED BY <2>1, <2>3
  <1>6. \A a \in Nat : a < captured => Follows(a, captured)
    BY <1>2, <1>5 DEF Follows
  <1>7. WholeBlocks'
    <2>1. captured' = (k + 1) * Block /\ k + 1 \in 0..MaxBlocks
      BY <1>2, <1>5
    <2>2. \A i \in 1..Len(frame') : frame'[i] < captured'
      BY <1>1, <1>2 DEF WholeBlocks
    <2>3. ASSUME NEW i \in 1..Len(fromDevice') PROVE fromDevice'[i] < captured'
      <3>1. CASE i \in 1..Len(fromDevice)
        <4>1. fromDevice'[i] = fromDevice[i] /\ fromDevice[i] < captured /\ fromDevice[i] \in Nat
          BY <3>1, <1>1, <1>2, <1>4 DEF WholeBlocks
        <4> QED BY <4>1, <1>2
      <3>2. CASE i \notin 1..Len(fromDevice)
        <4>1. PICK j \in 1..n : i = Len(fromDevice) + j
          <5>1. i - Len(fromDevice) \in 1..n
            BY <3>2, <1>2, <1>4
          <5>2. i = Len(fromDevice) + (i - Len(fromDevice))
            BY <1>2
          <5> QED BY <5>1, <5>2, Zenon
        <4>2. fromDevice'[i] = captured + j - 1
          BY <4>1, <1>4
        <4> QED BY <4>2, <1>2
      <3> QED BY <3>1, <3>2
    <2> QED BY <2>1, <2>2, <2>3 DEF WholeBlocks, CallbackCaptures
  <1>8. InOrderOfCapture(fromDevice')
    <2>1. ASSUME NEW i \in 1..(Len(fromDevice') - 1)
          PROVE  Follows(fromDevice'[i], fromDevice'[i + 1])
      <3>1. CASE i + 1 <= Len(fromDevice)
        <4>1. i \in 1..(Len(fromDevice) - 1) /\ i + 1 \in 1..Len(fromDevice)
                  /\ i \in 1..Len(fromDevice)
          BY <3>1, <1>2
        <4>2. Follows(fromDevice[i], fromDevice[i + 1])
          BY <4>1, <1>1 DEF InputInv, LostAtBlockEnd, InOrderOfCapture
        <4> QED BY <4>1, <4>2, <1>4
      <3>2. CASE i = Len(fromDevice)
        <4>1. 1 \in 1..n /\ i \in 1..Len(fromDevice)
          BY <3>2, <1>2, <1>4
        <4>2. fromDevice'[i + 1] = captured
          BY <3>2, <4>1, <1>2, <1>4
        <4>3. fromDevice'[i] = fromDevice[i] /\ fromDevice[i] \in Nat /\ fromDevice[i] < captured
          BY <4>1, <1>1, <1>2, <1>4 DEF WholeBlocks
        <4> QED BY <4>2, <4>3, <1>6
      <3>3. CASE i > Len(fromDevice)
        <4>1. PICK j \in 1..(n - 1) : i = Len(fromDevice) + j
          <5>1. i - Len(fromDevice) \in 1..(n - 1)
            BY <3>3, <1>2, <1>4
          <5> QED BY <5>1, <1>2
        <4>2. j \in 1..n /\ j + 1 \in 1..n /\ i + 1 = Len(fromDevice) + (j + 1)
          BY <4>1, <1>2
        <4>3. fromDevice'[i] = captured + j - 1
          BY <4>1, <4>2, <1>4
        <4>4. fromDevice'[i + 1] = captured + (j + 1) - 1
          BY <4>2, <1>4
        <4> QED BY <4>3, <4>4, <1>2 DEF Follows
      <3> QED BY <3>1, <3>2, <3>3, <1>2, <1>4
    <2> QED BY <2>1 DEF InOrderOfCapture
  <1>9. ASSUME frame' # << >>, fromDevice' # << >>
        PROVE  Follows(frame'[Len(frame')], fromDevice'[1])
    <2>1. Len(frame) \in 1..Len(frame) /\ frame[Len(frame)] \in Nat
      BY <1>2, <1>9
    <2>2. CASE fromDevice = << >>
      <3>1. Len(fromDevice) = 0 /\ n >= 1
        <4>1. Len(fromDevice) = 0
          BY <2>2
        <4>2. Len(fromDevice') # 0
          BY <1>4, <1>9
        <4> QED BY <4>1, <4>2, <1>4
      <3>2. fromDevice'[1] = captured
        BY <3>1, <1>2, <1>4
      <3>3. frame[Len(frame)] < captured
        BY <2>1, <1>1 DEF WholeBlocks
      <3> QED BY <3>2, <3>3, <2>1, <1>2, <1>6
    <2>3. CASE fromDevice # << >>
      <3>1. 1 \in 1..Len(fromDevice)
        BY <2>3, <1>2
      <3>2. fromDevice'[1] = fromDevice[1]
        BY <3>1, <1>4
      <3> QED BY <3>2, <2>3, <1>2, <1>9, <1>1 DEF InputInv, LostAtBlockEnd
    <2> QED BY <2>2, <2>3
  <1>10. InputInv'
    <2>1. InOrderOfCapture(frame')
      BY <1>1, <1>2 DEF InputInv, LostAtBlockEnd
    <2>2. LostAtBlockEnd'
      BY <2>1, <1>8, <1>9 DEF LostAtBlockEnd, InOrderOfCapture, Follows
    <2>3. Len(fromDevice') <= Capacity /\ Len(fromDevice') >= Len(fromDevice)
      BY <1>2, <1>3, <1>4
    <2> QED BY <2>2, <2>3, <1>1, <1>2, <1>4 DEF InputInv, CallbackCaptures
  <1>11. OutputInv'
    BY <1>1, OutputUnchanged DEF CallbackCaptures
  <1>12. DeviceInv'
    BY <1>1 DEF DeviceInv, CallbackCaptures
  <1> QED BY <1>7, <1>10, <1>11, <1>12, SplitInv, PTL

LEMMA CapturesNoMoreInv ==
  ASSUME IInv, CapturesNoMore
  PROVE  IInv'
  <1>1. OutputInv /\ InputInv /\ DeviceInv /\ WholeBlocks
    BY SplitInv
  <1>2. OutputInv' /\ InputInv' /\ WholeBlocks'
    BY <1>1, OutputUnchanged, InputUnchanged, BlocksUnchanged DEF CapturesNoMore
  <1>3. DeviceInv'
    BY <1>1 DEF DeviceInv, CapturesNoMore
  <1> QED BY <1>2, <1>3, SplitInv, PTL

LEMMA ReadInv ==
  ASSUME IInv, ReadCheck \/ ReadFrame
  PROVE  IInv'
  <1> USE StreamAssumption
  <1>1. OutputInv /\ InputInv /\ DeviceInv /\ WholeBlocks
    BY SplitInv
  <1>2. OutputInv'
    BY <1>1, OutputUnchanged DEF ReadCheck, ReadFrame, deviceVars
  <1>3. DeviceInv'
    BY <1>1 DEF DeviceInv, ReadCheck, ReadFrame, deviceVars
  <1>4. CASE ReadCheck
    <2>1. UNCHANGED <<fromDevice, frame, captured>>
      BY <1>4 DEF ReadCheck, deviceVars
    <2>2. InputInv'
      <3>1. LostAtBlockEnd'
        BY <1>1, <2>1 DEF InputInv, LostAtBlockEnd, InOrderOfCapture, Follows
      <3> QED BY <1>1, <1>4, <2>1, <3>1 DEF InputInv, ReadCheck
    <2>3. WholeBlocks'
      BY <1>1, <2>1, BlocksUnchanged
    <2> QED BY <1>2, <1>3, <2>2, <2>3, SplitInv, PTL
  <1>5. CASE ReadFrame
    <2>1. /\ fromDevice \in Seq(Nat) /\ Len(fromDevice) \in Nat
          /\ Frame \in 0..Len(fromDevice)
          /\ InOrderOfCapture(fromDevice)
          /\ UNCHANGED <<captured, device>>
      BY <1>1, <1>5 DEF InputInv, ReadFrame, LostAtBlockEnd, deviceVars
    <2>2. frame' = Oldest(fromDevice, Frame) /\ fromDevice' = Without(fromDevice, Frame)
      BY <1>5, <2>1 DEF ReadFrame, Smaller
    <2>3. /\ frame' \in Seq(Nat) /\ Len(frame') = Frame
          /\ \A i \in 1..Frame : frame'[i] = fromDevice[i]
      BY <2>1, <2>2, OldestAre
    <2>4. /\ fromDevice' \in Seq(Nat) /\ Len(fromDevice') = Len(fromDevice) - Frame
          /\ \A i \in 1..(Len(fromDevice) - Frame) : fromDevice'[i] = fromDevice[Frame + i]
      BY <2>1, <2>2, WithoutAre
    <2>5. InOrderOfCapture(frame') /\ InOrderOfCapture(fromDevice')
      BY <2>1, <2>2, OrderOfOldest, OrderOfRest
    <2>6. ASSUME fromDevice' # << >>
          PROVE  Follows(frame'[Len(frame')], fromDevice'[1])
      <3>1. Len(fromDevice') # 0
        BY <2>4, <2>6
      <3>2. /\ 1 \in 1..(Len(fromDevice) - Frame)
            /\ Frame \in 1..Frame
            /\ Frame \in 1..(Len(fromDevice) - 1)
        BY <2>1, <2>4, <3>1
      <3>3. fromDevice'[1] = fromDevice[Frame + 1] /\ frame'[Len(frame')] = fromDevice[Frame]
        BY <2>3, <2>4, <3>2
      <3> QED BY <2>1, <3>2, <3>3 DEF InOrderOfCapture
    <2>7. InputInv'
      <3>1. LostAtBlockEnd'
        BY <2>5, <2>6 DEF LostAtBlockEnd, InOrderOfCapture, Follows
      <3>2. Len(fromDevice') <= Capacity /\ Len(frame') \in {0, Frame}
        BY <1>1, <2>1, <2>3, <2>4 DEF InputInv
      <3> QED BY <1>1, <1>5, <2>1, <2>3, <2>4, <3>1, <3>2 DEF InputInv, ReadFrame
    <2>8. WholeBlocks'
      <3>1. ASSUME NEW i \in 1..Len(frame') PROVE frame'[i] < captured'
        <4>1. i \in 1..Frame /\ i \in 1..Len(fromDevice)
          BY <2>1, <2>3
        <4> QED BY <4>1, <1>1, <2>1, <2>3 DEF WholeBlocks
      <3>2. ASSUME NEW i \in 1..Len(fromDevice') PROVE fromDevice'[i] < captured'
        <4>1. i \in 1..(Len(fromDevice) - Frame) /\ Frame + i \in 1..Len(fromDevice)
          BY <2>1, <2>4
        <4>2. fromDevice'[i] = fromDevice[Frame + i]
          BY <4>1, <2>4
        <4> QED BY <4>1, <4>2, <1>1, <2>1 DEF WholeBlocks
      <3> QED BY <1>1, <2>1, <3>1, <3>2 DEF WholeBlocks
    <2> QED BY <1>2, <1>3, <2>7, <2>8, SplitInv, PTL
  <1> QED BY <1>4, <1>5

LEMMA WriteInv ==
  ASSUME IInv, Decoded \/ WriteCheck \/ WriteFrame
  PROVE  IInv'
  <1> USE StreamAssumption
  <1>1. OutputInv /\ InputInv /\ DeviceInv /\ WholeBlocks
    BY SplitInv
  <1>2. UNCHANGED <<fromDevice, frame, reader, captured, device, running, heard>>
    BY DEF Decoded, WriteCheck, WriteFrame, deviceVars
  <1>3. InputInv' /\ WholeBlocks'
    BY <1>1, <1>2, InputUnchanged, BlocksUnchanged
  <1>4. CASE Decoded \/ WriteCheck
    <2>1. UNCHANGED <<toDevice, written>>
      BY <1>4 DEF Decoded, WriteCheck
    <2>2. PlayedInOrder'
      BY <1>1, <1>2, <2>1 DEF OutputInv, PlayedInOrder, Played
    <2>3. OutputInv'
      BY <1>1, <1>2, <1>4, <2>1, <2>2 DEF OutputInv, MoreToWrite, Decoded, WriteCheck
    <2>4. DeviceInv'
      BY <1>1, <1>2, <2>1 DEF DeviceInv
    <2> QED BY <1>3, <2>3, <2>4, SplitInv, PTL
  <1>5. CASE WriteFrame
    <2>1. /\ toDevice \in Seq(Nat) /\ Len(toDevice) \in Nat /\ written \in Nat
          /\ Capacity - Len(toDevice) >= Frame
          /\ Frame \in Nat
      BY <1>1, <1>5 DEF OutputInv, WriteFrame
    <2>2. Smaller(Frame, Capacity - Len(toDevice)) = Frame
      BY <2>1 DEF Smaller
    <2>3. toDevice' = Appended(toDevice, written, Frame) /\ written' = written + Frame
      BY <1>5, <2>2 DEF WriteFrame
    <2>4. Extends(toDevice', toDevice, written, Frame)
      BY <2>1, <2>3, AppendedAre
    <2>5. /\ toDevice' \in Seq(Nat)
          /\ Len(toDevice') = Len(toDevice) + Frame
          /\ \A i \in 1..Len(toDevice) : toDevice'[i] = toDevice[i]
          /\ \A i \in 1..Frame : toDevice'[Len(toDevice) + i] = written + i - 1
      BY <2>4 DEF Extends
    <2>6. \E k \in 0..MaxFrames : written' = k * Frame
      <3>1. PICK k \in 0..MaxFrames : written = k * Frame
        BY <1>1 DEF OutputInv
      <3>2. written < MaxFrames * Frame
        BY <1>1, <1>5 DEF OutputInv, MoreToWrite, WriteFrame
      <3>3. k # MaxFrames
        BY <2>1, <3>1, <3>2
      <3>4. k + 1 \in 0..MaxFrames /\ written' = (k + 1) * Frame
        BY <2>3, <3>1, <3>3
      <3> QED BY <3>4
    <2>7. written' - Len(toDevice') = written - Len(toDevice)
      BY <2>1, <2>3, <2>5
    <2>8. ASSUME NEW i \in 1..Len(toDevice')
          PROVE  toDevice'[i] = written' - Len(toDevice') + i - 1
      <3>1. CASE i \in 1..Len(toDevice)
        <4>1. toDevice'[i] = toDevice[i]
          BY <3>1, <2>5
        <4>2. toDevice[i] = written - Len(toDevice) + i - 1
          BY <3>1, <1>1 DEF OutputInv, PlayedInOrder, Played
        <4> QED BY <4>1, <4>2, <2>7
      <3>2. CASE i \notin 1..Len(toDevice)
        <4>1. i - Len(toDevice) \in 1..Frame /\ i = Len(toDevice) + (i - Len(toDevice))
          BY <3>2, <2>1, <2>5
        <4>2. PICK j \in 1..Frame : i = Len(toDevice) + j
          BY <4>1, Zenon
        <4>3. toDevice'[i] = written + j - 1
          BY <4>2, <2>5
        <4> QED BY <4>2, <4>3, <2>1, <2>7
      <3> QED BY <3>1, <3>2
    <2>9. \A i \in 1..Len(heard') : heard'[i] = written' - Len(toDevice') - Len(heard') + i - 1
      BY <1>1, <1>2, <2>7 DEF OutputInv, PlayedInOrder, Played
    <2>10. PlayedInOrder'
      BY <2>8, <2>9 DEF PlayedInOrder, Played
    <2>11. Len(toDevice') <= Capacity /\ Len(toDevice') >= Len(toDevice)
      BY <2>1, <2>5
    <2>12. OutputInv'
      <3>1. writer' = "idle" /\ written' \in Nat /\ heard' = heard
        BY <1>2, <1>5, <2>1, <2>3 DEF WriteFrame
      <3>2. MoreToWrite'
        BY <3>1 DEF MoreToWrite
      <3> QED BY <1>1, <2>5, <2>6, <2>10, <2>11, <3>1, <3>2 DEF OutputInv
    <2>13. DeviceInv'
      BY <1>1, <1>2, <2>1, <2>5, <2>11 DEF DeviceInv
    <2> QED BY <1>3, <2>12, <2>13, SplitInv, PTL
  <1> QED BY <1>4, <1>5

LEMMA StutterInv ==
  ASSUME IInv, UNCHANGED vars
  PROVE  IInv'
  <1>1. OutputInv /\ InputInv /\ DeviceInv /\ WholeBlocks
    BY SplitInv
  <1>2. OutputInv' /\ InputInv' /\ WholeBlocks'
    BY <1>1, OutputUnchanged, InputUnchanged, BlocksUnchanged DEF vars, deviceVars
  <1>3. DeviceInv'
    BY <1>1 DEF DeviceInv, vars, deviceVars
  <1> QED BY <1>2, <1>3, SplitInv, PTL

-----------------------------------------------------------------------------
\* The inductive invariant holds in every state of the stream.
THEOREM Invariance == Spec => []IInv
  <1>1. IInv /\ [Next]_vars => IInv'
    BY StartStopInv, CallbackBeginsInv, CallbackPlaysInv, CallbackCapturesInv,
       CapturesNoMoreInv, ReadInv,
       WriteInv, StutterInv
       DEF Next, Callback
  <1> QED BY <1>1, InitInv, PTL DEF Spec

\* The variables keep their types, and neither buffer exceeds its capacity,
\* whatever the device, the sender and OnRtp do.
THEOREM TypeCorrect == Spec => []TypeOK
  <1>1. IInv => TypeOK
    BY DEF IInv
  <1> QED BY <1>1, Invariance, PTL

\* Read, Write and the device's callback are all-or-nothing, although each
\* checks what is available in one step and acts in another.
THEOREM WholeTransfers == Spec => []AllOrNothing
  <1>1. IInv => AllOrNothing
    BY DEF IInv
  <1> QED BY <1>1, Invariance, PTL

\* What OnRtp writes is played in order, without loss or repetition.
THEOREM OrderedPlayback == Spec => []PlayedInOrder
  <1>1. IInv => PlayedInOrder
    BY DEF IInv
  <1> QED BY <1>1, Invariance, PTL

\* What Read returns is in order of capture, and what is lost when the sender
\* is slow is always the end of a block.
THEOREM OrderedCapture == Spec => []LostAtBlockEnd
  <1>1. IInv => LostAtBlockEnd
    BY DEF IInv
  <1> QED BY <1>1, Invariance, PTL
=============================================================================
