-------------------------- MODULE RingBufferProofs --------------------------
(***************************************************************************)
(* Proofs about the ring buffer, for every size N > 0 and every bound.     *)
(***************************************************************************)
EXTENDS RingBuffer, TLAPS

Indices == 0..(2 * N - 1)

-----------------------------------------------------------------------------
(* The masks on the range of values that the code passes to them.          *)

\* x % n, one period up and one down.
LEMMA ModLow == ASSUME NEW n \in Nat \ {0}, NEW x \in 0..(n - 1) PROVE x % n = x
  OBVIOUS

LEMMA ModHigh ==
  ASSUME NEW n \in Nat \ {0}, NEW x \in n..(2 * n - 1) PROVE x % n = x - n
  OBVIOUS

LEMMA ModNegative ==
  ASSUME NEW n \in Nat \ {0}, NEW x \in Int, -n <= x, x < 0 PROVE x % n = x + n
  OBVIOUS

LEMMA ModHigher ==
  ASSUME NEW n \in Nat \ {0}, NEW x \in (2 * n)..(3 * n - 1) PROVE x % n = x - 2 * n
  OBVIOUS

\* The mask of width 2N on a sum of an index and a count, and on a difference.
LEMMA BigMaskSum ==
  ASSUME NEW w \in Indices, NEW c \in 0..N
  PROVE  BigMask(w + c) = IF w + c < 2 * N THEN w + c ELSE w + c - 2 * N
  <1>1. CASE w + c < 2 * N
    BY <1>1, ModLow, NAssumption DEF BigMask, Indices
  <1>2. CASE ~(w + c < 2 * N)
    BY <1>2, ModHigh, NAssumption DEF BigMask, Indices
  <1> QED BY <1>1, <1>2

LEMMA BigMaskDifference ==
  ASSUME NEW w \in Indices, NEW r \in Indices
  PROVE  BigMask(w - r) = IF w >= r THEN w - r ELSE w - r + 2 * N
  <1>1. CASE w >= r
    BY <1>1, ModLow, NAssumption DEF BigMask, Indices
  <1>2. CASE ~(w >= r)
    BY <1>2, ModNegative, NAssumption DEF BigMask, Indices
  <1> QED BY <1>1, <1>2

\* The mask of width N on an index plus an offset.
LEMMA SmallMaskSum ==
  ASSUME NEW x \in 0..(3 * N - 1)
  PROVE  SmallMask(x) = IF x < N THEN x ELSE IF x < 2 * N THEN x - N ELSE x - 2 * N
  <1>1. CASE x < N
    BY <1>1, ModLow, NAssumption DEF SmallMask
  <1>2. CASE x >= N /\ x < 2 * N
    BY <1>2, ModHigh, NAssumption DEF SmallMask
  <1>3. CASE x >= 2 * N
    BY <1>3, ModHigher, NAssumption DEF SmallMask
  <1> QED BY <1>1, <1>2, <1>3, NAssumption

\* A region of two blocks holds element i where a contiguous one that wraps
\* around would.
LEMMA SlotOfOffset ==
  ASSUME NEW x \in Indices, NEW c \in 0..N, NEW i \in 0..(c - 1)
  PROVE  /\ SlotAt(Split(SmallMask(x), c), i) = SmallMask(x + i)
         /\ SmallMask(x + i) \in Slots
  <1>1. SmallMask(x) = IF x < N THEN x ELSE x - N
    BY SmallMaskSum, NAssumption DEF Indices
  <1>2. SmallMask(x + i) = IF x + i < N THEN x + i
                           ELSE IF x + i < 2 * N THEN x + i - N ELSE x + i - 2 * N
    BY SmallMaskSum, NAssumption DEF Indices
  <1> QED BY <1>1, <1>2, NAssumption DEF Indices, SlotAt, Split, Slots

LEMMA SplitType ==
  ASSUME NEW x \in Indices, NEW c \in 0..N
  PROVE  /\ Split(SmallMask(x), c) \in RegionsType
         /\ Count(Split(SmallMask(x), c)) = c
  <1>1. SmallMask(x) = IF x < N THEN x ELSE x - N
    BY SmallMaskSum, NAssumption DEF Indices
  <1> QED BY <1>1, NAssumption DEF Indices, Split, Count, RegionsType, Slots

\* Offsets below N from one index are different slots.
LEMMA SlotsDistinct ==
  ASSUME NEW x \in Indices, NEW i \in Slots, NEW j \in Slots,
         SmallMask(x + i) = SmallMask(x + j)
  PROVE  i = j
  <1>1. /\ x + i \in 0..(3 * N - 1)
        /\ x + j \in 0..(3 * N - 1)
    BY NAssumption DEF Indices, Slots
  <1> QED BY <1>1, SmallMaskSum, NAssumption DEF Indices, Slots

\* The writer's slots follow the unread ones.
LEMMA SlotsAfterUnread ==
  ASSUME NEW w \in Indices, NEW r \in Indices, NEW i \in Slots,
         BigMask(w - r) + i < N
  PROVE  SmallMask(w + i) = SmallMask(r + (BigMask(w - r) + i))
  <1>1. /\ BigMask(w - r) = IF w >= r THEN w - r ELSE w - r + 2 * N
        /\ BigMask(w - r) \in Int
    BY BigMaskDifference, NAssumption DEF Indices
  <1>2. PICK a \in Int : a = BigMask(w - r)
    BY <1>1
  <1>3. /\ a = IF w >= r THEN w - r ELSE w - r + 2 * N
        /\ a + i < N
    BY <1>1, <1>2
  <1>4. /\ w + i \in 0..(3 * N - 1)
        /\ r + (a + i) \in 0..(3 * N - 1)
    BY <1>3, NAssumption DEF Indices, Slots
  <1>5. /\ SmallMask(w + i) = IF w + i < N THEN w + i
                           ELSE IF w + i < 2 * N THEN w + i - N ELSE w + i - 2 * N
        /\ SmallMask(r + (a + i)) = IF r + (a + i) < N THEN r + (a + i)
                           ELSE IF r + (a + i) < 2 * N THEN r + (a + i) - N
                           ELSE r + (a + i) - 2 * N
    BY <1>4, SmallMaskSum, NAssumption DEF Indices, Slots
  <1>6. SmallMask(w + i) = SmallMask(r + (a + i))
    BY <1>3, <1>5, NAssumption DEF Indices, Slots
  <1> QED BY <1>2, <1>6

\* Storing an advanced index changes what is available by the count.
LEMMA AdvanceWriteMask ==
  ASSUME NEW w \in Indices, NEW r \in Indices, NEW c \in 0..N,
         BigMask(w - r) + c <= N
  PROVE  /\ BigMask(w + c) \in Indices
         /\ BigMask(BigMask(w + c) - r) = BigMask(w - r) + c
  <1>1. /\ BigMask(w + c) = IF w + c < 2 * N THEN w + c ELSE w + c - 2 * N
        /\ BigMask(w - r) = IF w >= r THEN w - r ELSE w - r + 2 * N
    BY BigMaskSum, BigMaskDifference
  <1>2. BigMask(w + c) \in Indices
    BY <1>1, NAssumption DEF Indices
  <1>3. PICK v \in Indices : v = BigMask(w + c)
    BY <1>2
  <1>4. BigMask(v - r) = IF v >= r THEN v - r ELSE v - r + 2 * N
    BY BigMaskDifference
  <1>5. BigMask(v - r) = BigMask(w - r) + c
    BY <1>1, <1>3, <1>4, NAssumption DEF Indices
  <1> QED BY <1>2, <1>3, <1>5

LEMMA AdvanceReadMask ==
  ASSUME NEW w \in Indices, NEW r \in Indices, NEW c \in 0..N,
         c <= BigMask(w - r), BigMask(w - r) <= N
  PROVE  /\ BigMask(r + c) \in Indices
         /\ BigMask(w - BigMask(r + c)) = BigMask(w - r) - c
  <1>1. /\ BigMask(r + c) = IF r + c < 2 * N THEN r + c ELSE r + c - 2 * N
        /\ BigMask(w - r) = IF w >= r THEN w - r ELSE w - r + 2 * N
    BY BigMaskSum, BigMaskDifference
  <1>2. BigMask(r + c) \in Indices
    BY <1>1, NAssumption DEF Indices
  <1>3. PICK v \in Indices : v = BigMask(r + c)
    BY <1>2
  <1>4. BigMask(w - v) = IF w >= v THEN w - v ELSE w - v + 2 * N
    BY BigMaskDifference
  <1>5. BigMask(w - v) = BigMask(w - r) - c
    BY <1>1, <1>3, <1>4, NAssumption DEF Indices
  <1> QED BY <1>2, <1>3, <1>5

\* Wrapping the index does not move the slots counted from it.
LEMMA SlotsShift ==
  ASSUME NEW r \in Indices, NEW c \in 0..N, NEW j \in Slots, c + j < N
  PROVE  SmallMask(BigMask(r + c) + j) = SmallMask(r + (c + j))
  <1>1. BigMask(r + c) = IF r + c < 2 * N THEN r + c ELSE r + c - 2 * N
    BY BigMaskSum
  <1>2. PICK v \in Indices : v = BigMask(r + c)
    BY <1>1, NAssumption DEF Indices
  <1>3. /\ v + j \in 0..(3 * N - 1)
        /\ r + (c + j) \in 0..(3 * N - 1)
    BY NAssumption DEF Indices, Slots
  <1>4. /\ SmallMask(v + j) = IF v + j < N THEN v + j
                           ELSE IF v + j < 2 * N THEN v + j - N ELSE v + j - 2 * N
        /\ SmallMask(r + (c + j)) = IF r + (c + j) < N THEN r + (c + j)
                           ELSE IF r + (c + j) < 2 * N THEN r + (c + j) - N
                           ELSE r + (c + j) - 2 * N
    BY <1>3, SmallMaskSum, NAssumption DEF Indices, Slots
  <1>5. SmallMask(v + j) = SmallMask(r + (c + j))
    BY <1>1, <1>2, <1>4, NAssumption DEF Indices, Slots
  <1> QED BY <1>2, <1>5

-----------------------------------------------------------------------------
(* The inductive invariant.                                                *)

\* The slots between the indices hold the unread elements, oldest first.
Unread ==
    \A j \in Slots : j < GetReadAvailable =>
        buffer[SmallMask(readIndex + j)] = consumed + j

\* A running Write owns free slots only, and has filled those it is done with.
WriterInv ==
    wPc = "copy" =>
        /\ wRegions = Split(SmallMask(writeIndex), Count(wRegions))
        /\ Count(wRegions) <= GetWriteAvailable
        /\ wLeft \subseteq 0..(Count(wRegions) - 1)
        /\ \A i \in (0..(Count(wRegions) - 1)) \ wLeft :
               buffer[SmallMask(writeIndex + i)] = accepted + i

\* A running Read covers unread slots only, and has their elements.
ReaderInv ==
    rPc = "copy" =>
        /\ rRegions = Split(SmallMask(readIndex), Count(rRegions))
        /\ Count(rRegions) <= GetReadAvailable
        /\ rLeft \subseteq 0..(Count(rRegions) - 1)
        /\ \A i \in (0..(Count(rRegions) - 1)) \ rLeft : rData[i] = consumed + i

IInv == TypeOK /\ AvailableIsExact /\ Unread /\ WriterInv /\ ReaderInv

\* What the invariant says in terms of the two indices.
LEMMA IndexFacts ==
  ASSUME IInv
  PROVE  /\ writeIndex \in Indices /\ readIndex \in Indices
         /\ GetReadAvailable = BigMask(writeIndex - readIndex)
         /\ GetReadAvailable \in 0..N
         /\ GetWriteAvailable = N - GetReadAvailable
         /\ GetReadAvailable = accepted - consumed
  BY DEF IInv, TypeOK, AvailableIsExact, Indices, GetReadAvailable, GetWriteAvailable

LEMMA InitIInv == Init => IInv
  <1> SUFFICES ASSUME Init PROVE IInv
    OBVIOUS
  <1>1. /\ writeIndex \in Indices /\ readIndex \in Indices
        /\ writeIndex = 0 /\ readIndex = 0
    BY NAssumption DEF Init, Indices
  <1>2. GetReadAvailable = 0
    BY <1>1, BigMaskDifference DEF GetReadAvailable
  <1>3. TypeOK
    BY <1>1, NAssumption DEF Init, TypeOK, Indices, Slots, Garbage, NoRegions, RegionsType
  <1>4. AvailableIsExact /\ Unread
    BY <1>2, NAssumption DEF Init, AvailableIsExact, Unread, Slots
  <1>5. WriterInv /\ ReaderInv
    BY DEF Init, WriterInv, ReaderInv
  <1> QED BY <1>3, <1>4, <1>5 DEF IInv

LEMMA WriteBeginIInv ==
  ASSUME IInv, NEW n \in 0..MaxRequest, WriteBegin(n)
  PROVE  IInv'
  <1> DEFINE c == Clamp(n, GetWriteAvailable)
  <1>1. c \in 0..N /\ c <= GetWriteAvailable
    BY IndexFacts, NAssumption, BoundsAssumption DEF Clamp
  <1>2. /\ wRegions' = Split(SmallMask(writeIndex), c)
        /\ wRegions' \in RegionsType
        /\ Count(wRegions') = c
    BY <1>1, IndexFacts, SplitType DEF WriteBegin, GetWriteRegions
  <1>3. wLeft' = 0..(c - 1) /\ wLeft' \subseteq Slots
    BY <1>1, <1>2, NAssumption DEF WriteBegin, Slots
  <1>4. TypeOK'
    BY <1>2, <1>3 DEF IInv, TypeOK, WriteBegin, readerVars
  <1>5. /\ GetReadAvailable' = GetReadAvailable
        /\ GetWriteAvailable' = GetWriteAvailable
    BY DEF WriteBegin, GetReadAvailable, GetWriteAvailable
  <1>6. AvailableIsExact' /\ Unread'
    BY <1>5 DEF IInv, AvailableIsExact, Unread, WriteBegin
  <1>7. WriterInv'
    BY <1>1, <1>2, <1>3, <1>5 DEF WriterInv, WriteBegin
  <1>8. ReaderInv'
    BY <1>5 DEF IInv, ReaderInv, WriteBegin, readerVars
  <1> QED BY <1>4, <1>6, <1>7, <1>8 DEF IInv

LEMMA CountType ==
  ASSUME NEW reg \in RegionsType PROVE Count(reg) \in Nat
  BY NAssumption DEF RegionsType, Count

\* A running operation's count, against what is available now.
LEMMA WriterCount ==
  ASSUME IInv, wPc = "copy"
  PROVE  Count(wRegions) \in 0..N /\ GetReadAvailable + Count(wRegions) <= N
  <1>1. Count(wRegions) \in Nat
    BY CountType DEF IInv, TypeOK
  <1>2. Count(wRegions) <= GetWriteAvailable
    BY DEF IInv, WriterInv
  <1> QED BY <1>1, <1>2, IndexFacts, NAssumption

LEMMA ReaderCount ==
  ASSUME IInv, rPc = "copy"
  PROVE  Count(rRegions) \in 0..N /\ Count(rRegions) <= GetReadAvailable
  <1>1. Count(rRegions) \in Nat
    BY CountType DEF IInv, TypeOK
  <1>2. Count(rRegions) <= GetReadAvailable
    BY DEF IInv, ReaderInv
  <1> QED BY <1>1, <1>2, IndexFacts, NAssumption

\* The slot a running Write or Read copies at offset i.
LEMMA WriterSlot ==
  ASSUME IInv, wPc = "copy", NEW i \in 0..(Count(wRegions) - 1)
  PROVE  /\ Count(wRegions) \in 0..N
         /\ i \in Slots
         /\ GetReadAvailable + i \in Slots
         /\ SlotAt(wRegions, i) = SmallMask(writeIndex + i)
         /\ SlotAt(wRegions, i) = SmallMask(readIndex + (GetReadAvailable + i))
         /\ SlotAt(wRegions, i) \in Slots
  <1>1. Count(wRegions) \in 0..N
    BY WriterCount
  <1>2. i \in Slots /\ GetReadAvailable + i \in Slots
    BY WriterCount, IndexFacts, NAssumption DEF Slots
  <1>3. /\ SlotAt(wRegions, i) = SmallMask(writeIndex + i)
        /\ SmallMask(writeIndex + i) \in Slots
    BY <1>1, IndexFacts, SlotOfOffset DEF IInv, WriterInv
  <1>4. SmallMask(writeIndex + i) = SmallMask(readIndex + (GetReadAvailable + i))
    BY <1>2, IndexFacts, SlotsAfterUnread, NAssumption DEF Slots
  <1> QED BY <1>1, <1>2, <1>3, <1>4

LEMMA ReaderSlot ==
  ASSUME IInv, rPc = "copy", NEW i \in 0..(Count(rRegions) - 1)
  PROVE  /\ Count(rRegions) \in 0..N
         /\ i \in Slots /\ i < GetReadAvailable
         /\ SlotAt(rRegions, i) = SmallMask(readIndex + i)
         /\ SlotAt(rRegions, i) \in Slots
  <1>1. Count(rRegions) \in 0..N
    BY ReaderCount
  <1>2. i \in Slots /\ i < GetReadAvailable
    BY ReaderCount, IndexFacts, NAssumption DEF Slots
  <1>3. /\ SlotAt(rRegions, i) = SmallMask(readIndex + i)
        /\ SmallMask(readIndex + i) \in Slots
    BY <1>1, IndexFacts, SlotOfOffset DEF IInv, ReaderInv
  <1> QED BY <1>1, <1>2, <1>3

LEMMA WriteCopyIInv ==
  ASSUME IInv, NEW i \in Slots, WriteCopy(i)
  PROVE  IInv'
  <1> DEFINE s == SlotAt(wRegions, i)
  <1>1. wPc = "copy" /\ i \in wLeft /\ i \in 0..(Count(wRegions) - 1)
    BY DEF WriteCopy, IInv, WriterInv
  <1>2. /\ s \in Slots
        /\ s = SmallMask(writeIndex + i)
        /\ s = SmallMask(readIndex + (GetReadAvailable + i))
        /\ GetReadAvailable + i \in Slots
    BY <1>1, WriterSlot
  <1>3. buffer' = [buffer EXCEPT ![s] = accepted + i] /\ accepted + i \in Nat
    BY DEF WriteCopy, IInv, TypeOK, Slots
  <1>4. TypeOK'
    BY <1>2, <1>3 DEF IInv, TypeOK, WriteCopy, readerVars
  <1>5. /\ GetReadAvailable' = GetReadAvailable
        /\ GetWriteAvailable' = GetWriteAvailable
    BY DEF WriteCopy, GetReadAvailable, GetWriteAvailable
  <1>6. AvailableIsExact'
    BY <1>5 DEF IInv, AvailableIsExact, WriteCopy
  <1>7. Unread'
    <2> SUFFICES ASSUME NEW j \in Slots, j < GetReadAvailable
                 PROVE  buffer'[SmallMask(readIndex + j)] = consumed + j
      BY <1>5 DEF Unread, WriteCopy
    <2>1. SmallMask(readIndex + j) # s
      BY <1>2, IndexFacts, SlotsDistinct, NAssumption DEF Slots
    <2>2. buffer'[SmallMask(readIndex + j)] = buffer[SmallMask(readIndex + j)]
      BY <2>1, <1>3, <1>2 DEF IInv, TypeOK
    <2> QED BY <2>2 DEF IInv, Unread
  <1>8. WriterInv'
    <2>1. /\ wRegions' = wRegions /\ writeIndex' = writeIndex
          /\ accepted' = accepted /\ wLeft' = wLeft \ {i}
      BY DEF WriteCopy
    <2>2. ASSUME NEW k \in (0..(Count(wRegions) - 1)) \ wLeft'
          PROVE  buffer'[SmallMask(writeIndex + k)] = accepted + k
      <3>1. SmallMask(writeIndex + k) \in Slots /\ k \in Slots
        BY <1>1, WriterSlot
      <3>2. CASE k = i
        BY <3>2, <1>2, <1>3 DEF IInv, TypeOK
      <3>3. CASE k # i
        <4>1. SmallMask(writeIndex + k) # s
          BY <3>1, <3>3, <1>2, IndexFacts, SlotsDistinct
        <4>2. buffer[SmallMask(writeIndex + k)] = accepted + k
          BY <3>3, <1>1, <2>1 DEF IInv, WriterInv
        <4> QED BY <4>1, <4>2, <3>1, <1>3 DEF IInv, TypeOK
      <3> QED BY <3>2, <3>3
    <2> QED BY <1>1, <1>5, <2>1, <2>2 DEF IInv, WriterInv
  <1>9. ReaderInv'
    BY <1>5 DEF IInv, ReaderInv, WriteCopy, readerVars
  <1> QED BY <1>4, <1>6, <1>7, <1>8, <1>9 DEF IInv

LEMMA AdvanceWriteIndexIInv ==
  ASSUME IInv, AdvanceWriteIndex
  PROVE  IInv'
  <1> DEFINE c == Count(wRegions)
             a == GetReadAvailable
  <1>1. c \in 0..N /\ a + c <= N /\ a \in 0..N
    BY WriterCount, IndexFacts DEF AdvanceWriteIndex
  <1>2. /\ writeIndex' \in Indices
        /\ GetReadAvailable' = a + c
    BY <1>1, IndexFacts, AdvanceWriteMask DEF AdvanceWriteIndex, GetReadAvailable
  <1>3. accepted' = accepted + c /\ consumed' = consumed
    BY DEF AdvanceWriteIndex
  <1>4. TypeOK'
    BY <1>1, <1>2, <1>3 DEF IInv, TypeOK, AdvanceWriteIndex, readerVars, Indices
  <1>5. AvailableIsExact'
    BY <1>1, <1>2, <1>3, IndexFacts, NAssumption, SMTT(30)
       DEF IInv, TypeOK, AvailableIsExact, AdvanceWriteIndex
  <1>6. Unread'
    <2> SUFFICES ASSUME NEW j \in Slots, j < a + c
                 PROVE  buffer[SmallMask(readIndex + j)] = consumed + j
      BY <1>2, <1>3 DEF Unread, AdvanceWriteIndex
    <2>1. CASE j < a
      BY <2>1 DEF IInv, Unread
    <2>2. CASE ~(j < a)
      <3>1. PICK i \in 0..(c - 1) : j = a + i
        BY <2>2, <1>1, NAssumption DEF Slots
      <3>2. SmallMask(writeIndex + i) = SmallMask(readIndex + j)
        BY <3>1, WriterSlot DEF AdvanceWriteIndex
      <3>3. buffer[SmallMask(writeIndex + i)] = accepted + i
        BY DEF AdvanceWriteIndex, IInv, WriterInv
      <3>4. accepted + i = consumed + j
        BY <3>1, <1>1, IndexFacts, NAssumption DEF IInv, TypeOK
      <3> QED BY <3>2, <3>3, <3>4
    <2> QED BY <2>1, <2>2
  <1>7. WriterInv'
    BY DEF WriterInv, AdvanceWriteIndex
  <1>8. ReaderInv'
    <2>1. rPc = "copy" => Count(rRegions) <= a + c
      BY <1>1, ReaderCount
    <2> QED BY <1>2, <1>3, <2>1 DEF IInv, ReaderInv, AdvanceWriteIndex, readerVars
  <1> QED BY <1>4, <1>5, <1>6, <1>7, <1>8 DEF IInv

LEMMA ReadBeginIInv ==
  ASSUME IInv, NEW n \in 1..MaxRequest, ReadBegin(n)
  PROVE  IInv'
  <1> DEFINE c == Clamp(n, GetReadAvailable)
  <1>1. c \in 0..N /\ c <= GetReadAvailable
    BY IndexFacts, NAssumption, BoundsAssumption DEF Clamp
  <1>2. /\ rRegions' = Split(SmallMask(readIndex), c)
        /\ rRegions' \in RegionsType
        /\ Count(rRegions') = c
    BY <1>1, IndexFacts, SplitType DEF ReadBegin, GetReadRegions
  <1>3. rLeft' = 0..(c - 1) /\ rLeft' \subseteq Slots
    BY <1>1, <1>2, NAssumption DEF ReadBegin, Slots
  <1>4. TypeOK'
    BY <1>2, <1>3 DEF IInv, TypeOK, ReadBegin, writerVars
  <1>5. /\ GetReadAvailable' = GetReadAvailable
        /\ GetWriteAvailable' = GetWriteAvailable
    BY DEF ReadBegin, GetReadAvailable, GetWriteAvailable
  <1>6. AvailableIsExact' /\ Unread'
    BY <1>5 DEF IInv, AvailableIsExact, Unread, ReadBegin
  <1>7. WriterInv'
    BY <1>5 DEF IInv, WriterInv, ReadBegin, writerVars
  <1>8. ReaderInv'
    BY <1>1, <1>2, <1>3, <1>5 DEF ReaderInv, ReadBegin
  <1> QED BY <1>4, <1>6, <1>7, <1>8 DEF IInv

LEMMA ReadCopyIInv ==
  ASSUME IInv, NEW i \in Slots, ReadCopy(i)
  PROVE  IInv'
  <1>1. rPc = "copy" /\ i \in rLeft /\ i \in 0..(Count(rRegions) - 1)
    BY DEF ReadCopy, IInv, ReaderInv
  <1>2. /\ SlotAt(rRegions, i) \in Slots
        /\ buffer[SlotAt(rRegions, i)] = consumed + i
    BY <1>1, ReaderSlot DEF IInv, Unread
  <1>3. rData' = [rData EXCEPT ![i] = consumed + i] /\ consumed + i \in Nat
    BY <1>2 DEF ReadCopy, IInv, TypeOK, Slots
  <1>4. TypeOK'
    BY <1>3 DEF IInv, TypeOK, ReadCopy, writerVars
  <1>5. /\ GetReadAvailable' = GetReadAvailable
        /\ GetWriteAvailable' = GetWriteAvailable
    BY DEF ReadCopy, GetReadAvailable, GetWriteAvailable
  <1>6. AvailableIsExact' /\ Unread'
    BY <1>5 DEF IInv, AvailableIsExact, Unread, ReadCopy
  <1>7. WriterInv'
    BY <1>5 DEF IInv, WriterInv, ReadCopy, writerVars
  <1>8. ReaderInv'
    <2>1. /\ rRegions' = rRegions /\ readIndex' = readIndex
          /\ consumed' = consumed /\ rLeft' = rLeft \ {i}
      BY DEF ReadCopy
    <2>2. ASSUME NEW k \in (0..(Count(rRegions) - 1)) \ rLeft'
          PROVE  rData'[k] = consumed + k
      <3>1. CASE k = i
        BY <3>1, <1>3 DEF IInv, TypeOK
      <3>2. CASE k # i
        <4>1. rData[k] = consumed + k
          BY <3>2, <1>1, <2>1 DEF IInv, ReaderInv
        <4>2. k \in Slots
          BY <1>1, ReaderSlot
        <4> QED BY <4>1, <4>2, <3>2, <1>3 DEF IInv, TypeOK
      <3> QED BY <3>1, <3>2
    <2> QED BY <1>1, <1>5, <2>1, <2>2 DEF IInv, ReaderInv
  <1> QED BY <1>4, <1>6, <1>7, <1>8 DEF IInv

LEMMA AdvanceReadIndexIInv ==
  ASSUME IInv, AdvanceReadIndex
  PROVE  IInv'
  <1> DEFINE c == Count(rRegions)
             a == GetReadAvailable
  <1>1. c \in 0..N /\ c <= a /\ a \in 0..N
    BY ReaderCount, IndexFacts DEF AdvanceReadIndex
  <1>2. /\ readIndex' \in Indices
        /\ GetReadAvailable' = a - c
    BY <1>1, IndexFacts, AdvanceReadMask DEF AdvanceReadIndex, GetReadAvailable
  <1>3. consumed' = consumed + c /\ accepted' = accepted
    BY DEF AdvanceReadIndex
  <1>4. result' \in Seq(Nat \cup {Garbage})
    <2>1. \A i \in 1..c : rData[i - 1] \in Nat \cup {Garbage}
      BY <1>1, NAssumption DEF IInv, TypeOK, Slots
    <2> QED BY <1>1, <2>1 DEF AdvanceReadIndex
  <1>5. TypeOK'
    <2>1. /\ rPc' = "idle" /\ consumed' \in Nat
          /\ UNCHANGED <<writeIndex, buffer, wPc, wRegions, wLeft, rRegions, rLeft,
                         rData, accepted>>
      BY <1>1, <1>3 DEF IInv, TypeOK, AdvanceReadIndex, writerVars
    <2> QED BY <1>2, <1>4, <2>1 DEF IInv, TypeOK, Indices
  <1>6. AvailableIsExact'
    BY <1>1, <1>2, <1>3, IndexFacts, NAssumption
       DEF IInv, TypeOK, AvailableIsExact, AdvanceReadIndex
  <1>7. Unread'
    <2> SUFFICES ASSUME NEW j \in Slots, j < a - c
                 PROVE  buffer[SmallMask(readIndex' + j)] = (consumed + c) + j
      BY <1>2, <1>3 DEF Unread, AdvanceReadIndex
    <2>1. c + j \in Slots /\ c + j < a
      BY <1>1, NAssumption DEF Slots
    <2>2. SmallMask(readIndex' + j) = SmallMask(readIndex + (c + j))
      BY <1>1, <2>1, IndexFacts, SlotsShift, NAssumption DEF AdvanceReadIndex, Slots
    <2>3. buffer[SmallMask(readIndex + (c + j))] = consumed + (c + j)
      BY <2>1 DEF IInv, Unread
    <2> QED BY <1>1, <2>2, <2>3 DEF IInv, TypeOK, Slots
  <1>8. WriterInv'
    <2>1. wPc = "copy" => Count(wRegions) <= N - (a - c)
      BY <1>1, WriterCount, NAssumption
    <2> QED BY <1>2, <1>3, <2>1
            DEF IInv, WriterInv, AdvanceReadIndex, writerVars, GetWriteAvailable
  <1>9. ReaderInv'
    BY DEF ReaderInv, AdvanceReadIndex
  <1> QED BY <1>5, <1>6, <1>7, <1>8, <1>9 DEF IInv

LEMMA NextIInv == IInv /\ [Next]_vars => IInv'
  <1> SUFFICES ASSUME IInv, [Next]_vars PROVE IInv'
    OBVIOUS
  <1>1. ASSUME NEW n \in 0..MaxRequest, WriteBegin(n) PROVE IInv'
    BY <1>1, WriteBeginIInv
  <1>2. ASSUME NEW i \in Slots, WriteCopy(i) PROVE IInv'
    BY <1>2, WriteCopyIInv
  <1>3. CASE AdvanceWriteIndex
    BY <1>3, AdvanceWriteIndexIInv
  <1>4. ASSUME NEW n \in 1..MaxRequest, ReadBegin(n) PROVE IInv'
    BY <1>4, ReadBeginIInv
  <1>5. ASSUME NEW i \in Slots, ReadCopy(i) PROVE IInv'
    BY <1>5, ReadCopyIInv
  <1>6. CASE AdvanceReadIndex
    BY <1>6, AdvanceReadIndexIInv
  <1>7. CASE UNCHANGED vars
    BY <1>7 DEF vars, writerVars, readerVars, IInv, TypeOK, AvailableIsExact, Unread,
                WriterInv, ReaderInv, GetReadAvailable, GetWriteAvailable
  <1> QED BY <1>1, <1>2, <1>3, <1>4, <1>5, <1>6, <1>7 DEF Next, Writer, Reader

\* The invariant holds throughout every behaviour.
THEOREM Invariance == Spec => []IInv
  BY InitIInv, NextIInv, PTL DEF Spec

-----------------------------------------------------------------------------
(* The properties.                                                         *)

\* Every variable keeps its type: no index leaves 0..2N-1, no region leaves
\* the buffer.
THEOREM TypeCorrect == Spec => []TypeOK
  <1>1. IInv => TypeOK
    BY DEF IInv
  <1> QED BY Invariance, <1>1, PTL

\* The two threads never copy to and from one slot at the same time.
THEOREM NoTearing == Spec => []NoTornElement
  <1>1. ASSUME IInv PROVE NoTornElement
    <2> SUFFICES ASSUME wPc = "copy", rPc = "copy",
                        NEW i \in wLeft, NEW j \in rLeft,
                        SlotAt(wRegions, i) = SlotAt(rRegions, j)
                 PROVE  FALSE
      BY DEF NoTornElement, WriterSlots, ReaderSlots
    <2>1. i \in 0..(Count(wRegions) - 1) /\ j \in 0..(Count(rRegions) - 1)
      BY <1>1 DEF IInv, WriterInv, ReaderInv
    <2>2. /\ GetReadAvailable + i \in Slots
          /\ SlotAt(wRegions, i) = SmallMask(readIndex + (GetReadAvailable + i))
      BY <1>1, <2>1, WriterSlot
    <2>3. j \in Slots /\ j < GetReadAvailable
          /\ SlotAt(rRegions, j) = SmallMask(readIndex + j)
      BY <1>1, <2>1, ReaderSlot
    <2>4. readIndex \in Indices /\ GetReadAvailable \in 0..N
      BY <1>1, IndexFacts
    <2>5. GetReadAvailable + i = j
      BY <2>2, <2>3, <2>4, SlotsDistinct
    <2> QED BY <2>1, <2>3, <2>4, <2>5, NAssumption DEF Slots
  <1> QED BY Invariance, <1>1, PTL

\* A Read copies out the oldest unread elements, in order.
THEOREM OrderedReads == Spec => []ReadsInOrder
  <1>1. IInv => ReadsInOrder
    BY DEF IInv, ReaderInv, ReadsInOrder
  <1> QED BY Invariance, <1>1, PTL

\* The available count computed from the masked indices is the true one.
THEOREM ExactAvailable == Spec => []AvailableIsExact
  <1>1. IInv => AvailableIsExact
    BY DEF IInv
  <1> QED BY Invariance, <1>1, PTL

-----------------------------------------------------------------------------
(* The ring buffer implements the FIFO queue.                              *)

\* n successive elements of the stream, from element a.
Stream(a, n) == [i \in 1..n |-> a + i - 1]

LEMMA ContentsAreStream ==
  ASSUME IInv
  PROVE  Contents = Stream(consumed, GetReadAvailable)
  <1>1. ASSUME NEW i \in 1..GetReadAvailable
        PROVE  buffer[SmallMask(readIndex + i - 1)] = consumed + i - 1
    <2>1. /\ i - 1 \in Slots /\ i - 1 < GetReadAvailable
          /\ readIndex + i - 1 = readIndex + (i - 1)
          /\ consumed + i - 1 = consumed + (i - 1)
      BY IndexFacts, NAssumption DEF IInv, TypeOK, Slots, Indices
    <2> QED BY <2>1 DEF IInv, Unread
  <1> QED BY <1>1 DEF Contents, Stream

LEMMA NextContentsAreStream ==
  IInv' => Contents' = Stream(consumed', GetReadAvailable')
  <1>1. IInv => Contents = Stream(consumed, GetReadAvailable)
    BY ContentsAreStream
  <1>2. IInv' => (Contents = Stream(consumed, GetReadAvailable))'
    BY <1>1, PTL
  <1> QED BY <1>2 DEF Stream

LEMMA StreamSeq ==
  ASSUME NEW a \in Nat, NEW n \in Nat
  PROVE  Stream(a, n) \in Seq(Nat) /\ Len(Stream(a, n)) = n
  BY DEF Stream

LEMMA StreamConcat ==
  ASSUME NEW a \in Nat, NEW n \in Nat, NEW m \in Nat
  PROVE  Stream(a, n) \o Stream(a + n, m) = Stream(a, n + m)
  BY DEF Stream

LEMMA StreamPrefix ==
  ASSUME NEW a \in Nat, NEW n \in Nat, NEW m \in 0..n
  PROVE  /\ SubSeq(Stream(a, n), 1, m) = Stream(a, m)
         /\ SubSeq(Stream(a, n), m + 1, n) = Stream(a + m, n - m)
  BY DEF Stream

LEMMA InitRefines == Init => F!Init
  <1> SUFFICES ASSUME Init PROVE F!Init
    OBVIOUS
  <1>1. IInv /\ accepted = 0 /\ consumed = 0 /\ result = << >>
    BY InitIInv DEF Init
  <1>2. GetReadAvailable = 0
    BY <1>1, IndexFacts
  <1>3. Contents = << >>
    BY <1>1, <1>2, ContentsAreStream DEF Stream
  <1> QED BY <1>1, <1>3 DEF F!Init

LEMMA AdvanceWriteRefines ==
  ASSUME IInv, IInv', AdvanceWriteIndex
  PROVE  F!Next
  <1> DEFINE c == Count(wRegions)
             a == GetReadAvailable
  <1>1. c \in 0..N /\ a + c <= N /\ a \in 0..N
    BY WriterCount, IndexFacts DEF AdvanceWriteIndex
  <1>2. /\ accepted' = accepted + c /\ consumed' = consumed /\ result' = result
        /\ accepted \in Nat /\ consumed \in Nat
        /\ accepted = consumed + a
    BY <1>1, IndexFacts DEF AdvanceWriteIndex, IInv, TypeOK
  <1>3. GetReadAvailable' = a + c
    BY <1>1, <1>2, IndexFacts DEF IInv, AvailableIsExact
  <1>4. Contents = Stream(consumed, a) /\ Len(Contents) = a
    BY <1>1, <1>2, ContentsAreStream, StreamSeq
  <1>5. Contents' = Stream(consumed, a + c)
    BY <1>2, <1>3, NextContentsAreStream
  <1>6. Contents' = Contents \o Stream(accepted, c)
    <2>1. consumed \in Nat /\ a \in Nat /\ c \in Nat
      BY <1>1, <1>2, NAssumption
    <2>2. Stream(consumed, a) \o Stream(consumed + a, c) = Stream(consumed, a + c)
      BY ONLY <2>1, StreamConcat, Zenon
    <2> QED BY <1>2, <1>4, <1>5, <2>2
  <1>7. F!Put(c)
    BY <1>1, <1>2, <1>4, <1>6, NAssumption DEF F!Put, Stream
  <1> QED BY <1>1, <1>7 DEF F!Next

LEMMA AdvanceReadRefines ==
  ASSUME IInv, IInv', AdvanceReadIndex
  PROVE  F!Next
  <1> DEFINE c == Count(rRegions)
             a == GetReadAvailable
  <1>1. c \in 0..N /\ c <= a /\ a \in 0..N
    BY ReaderCount, IndexFacts DEF AdvanceReadIndex
  <1>2. /\ consumed' = consumed + c /\ accepted' = accepted
        /\ accepted \in Nat /\ consumed \in Nat
    BY DEF AdvanceReadIndex, IInv, TypeOK
  <1>3. GetReadAvailable' = a - c
    BY <1>1, <1>2, IndexFacts DEF IInv, AvailableIsExact
  <1>4. Contents = Stream(consumed, a) /\ Len(Contents) = a
    BY <1>1, <1>2, ContentsAreStream, StreamSeq
  <1>5. Contents' = Stream(consumed + c, a - c)
    BY <1>2, <1>3, NextContentsAreStream
  <1>6. result' = Stream(consumed, c)
    <2>1. \A i \in 1..c : rData[i - 1] = consumed + i - 1
      BY <1>1, <1>2, NAssumption DEF AdvanceReadIndex, IInv, ReaderInv
    <2> QED BY <2>1 DEF AdvanceReadIndex, Stream
  <1>7. /\ SubSeq(Contents, 1, c) = Stream(consumed, c)
        /\ SubSeq(Contents, c + 1, a) = Stream(consumed + c, a - c)
    <2>1. consumed \in Nat /\ a \in Nat /\ c \in 0..a
      BY <1>1, <1>2, NAssumption
    <2>2. /\ SubSeq(Stream(consumed, a), 1, c) = Stream(consumed, c)
          /\ SubSeq(Stream(consumed, a), c + 1, a) = Stream(consumed + c, a - c)
      BY ONLY <2>1, StreamPrefix, Zenon
    <2> QED BY <1>4, <2>2
  <1>8. F!Get(c)
    BY <1>1, <1>2, <1>4, <1>5, <1>6, <1>7 DEF F!Get
  <1> QED BY <1>1, <1>8 DEF F!Next

\* A step that stores no index leaves the abstract queue as it is.
LEMMA OtherStepsStutter ==
  ASSUME IInv, IInv', UNCHANGED <<writeIndex, readIndex, accepted, consumed, result>>
  PROVE  UNCHANGED F!vars
  <1>1. GetReadAvailable' = GetReadAvailable
    BY DEF GetReadAvailable
  <1>2. Contents' = Contents
    BY <1>1, ContentsAreStream, NextContentsAreStream
  <1> QED BY <1>2 DEF F!vars

\* Spec refines the atomic FIFO queue: every operation takes effect at once,
\* when its index is stored.
THEOREM Refinement == Spec => ImplementsFifo
  <1>1. ASSUME IInv, IInv', [Next]_vars PROVE [F!Next]_(F!vars)
    <2>1. CASE AdvanceWriteIndex
      BY <1>1, <2>1, AdvanceWriteRefines
    <2>2. CASE AdvanceReadIndex
      BY <1>1, <2>2, AdvanceReadRefines
    <2>3. CASE UNCHANGED <<writeIndex, readIndex, accepted, consumed, result>>
      BY <1>1, <2>3, OtherStepsStutter
    <2> QED BY <1>1, <2>1, <2>2, <2>3
            DEF Next, Writer, Reader, WriteBegin, WriteCopy, ReadBegin, ReadCopy, vars
  <1> QED BY InitRefines, Invariance, <1>1, PTL DEF Spec, ImplementsFifo, F!Spec

=============================================================================
