--------------------------- MODULE UtilitiesProofs ---------------------------
(* Two utilities of the SDK, which share nothing: RingBuffer, and then     *)
(* ThreadPool.                                                             *)
EXTENDS RingBuffer, ThreadPool, SequenceTheorems, TLAPS

(***************************************************************************)
(* The ring buffer is the bounded queue of its header for every capacity,  *)
(* every set of bytes and every length its callers pass, until a call of   *)
(* another length than fits, or two that overlap, break it.                *)
(*                                                                         *)
(* RingInv, below, is inductive. With it, byte number i of the             *)
(* queue lies in slot Wrapped(readPos + i - 1), and what a write puts into *)
(* byte j + 1 after the last lies in slot Wrapped(writePos + j): the two   *)
(* never meet, because there are at most Capacity places between them.     *)
(***************************************************************************)
RingInv == RingTypeOK /\ PositionsAgree

(* The data of a call are as long as they say. *)
LEMMA DataLengths ==
    ASSUME NEW data \in Data, RingAssumption
    PROVE  /\ Len(data) \in Nat \ {0}
           /\ data \in [1..Len(data) -> Bytes]
           /\ data \in Seq(Bytes)
<1>1. PICK n \in Lengths : data \in [1..n -> Bytes]
    BY DEF Data
<1>2. n \in Nat \ {0}
    BY DEF Lengths, RingAssumption
<1>3. data \in Seq(Bytes) /\ Len(data) = n
    BY <1>1, <1>2
<1> QED
    BY <1>1, <1>2, <1>3

(* Byte j + 1 of the data lies j places after writePos, around the end of  *)
(* the block, and every other byte stays what it was.                      *)
LEMMA WriteLands ==
    ASSUME RingInv, RingAssumption, NEW data \in Data,
           Len(data) <= SpaceAvailable, WriteBytes(data)
    PROVE  /\ slots' \in [Places -> Bytes]
           /\ \A j \in 0..(Len(data) - 1) :
                  slots'[Wrapped(writePos + j)] = data[j + 1]
           /\ \A p \in Places :
                  (\A j \in 0..(Len(data) - 1) : p # Wrapped(writePos + j))
                      => slots'[p] = slots[p]
           /\ writePos' = Wrapped(writePos + Len(data))
           /\ broken' = "no"
<1> DEFINE k == Len(data)
           tail == Capacity - writePos
           rest == k - tail
<1>1. /\ k \in Nat \ {0}
      /\ data \in [1..k -> Bytes]
    BY DataLengths
<1>2. /\ Capacity \in Nat \ {0}
      /\ numBytes \in 0..Capacity /\ readPos \in Places /\ writePos \in Places
      /\ slots \in [Places -> Bytes]
      /\ writePos = Wrapped(readPos + numBytes)
      /\ k <= Capacity - numBytes
    BY DEF RingInv, RingTypeOK, PositionsAgree, RingAssumption, WriteBytes, SpaceAvailable
<1> HIDE DEF k
<1>3. CASE writePos < readPos \/ tail >= k
    <2>1. writePos + k <= Capacity
        BY <1>1, <1>2, <1>3 DEF Wrapped, Places
    <2>2. /\ slots' = [p \in Places |->
                         IF writePos <= p /\ p < writePos + k
                         THEN data[0 + p - writePos + 1] ELSE slots[p]]
          /\ writePos' = IF writePos + k = Capacity THEN 0 ELSE writePos + k
          /\ broken' = Breaks(k, writePos + k > Capacity)
        BY <1>2, <1>3 DEF WriteBytes, WriteThrough, Copied, k
    <2>3. slots' \in [Places -> Bytes]
        <3>1. ASSUME NEW p \in Places, writePos <= p, p < writePos + k
              PROVE  data[0 + p - writePos + 1] \in Bytes
            <4>1. 0 + p - writePos + 1 \in 1..k
                BY <1>1, <1>2, <3>1 DEF Places
            <4> QED
                BY <4>1, <1>1
        <3> QED
            BY <2>2, <1>2, <3>1
    <2>4. ASSUME NEW j \in 0..(k - 1)
          PROVE  slots'[Wrapped(writePos + j)] = data[j + 1]
        <3>1. /\ Wrapped(writePos + j) = writePos + j
              /\ writePos + j \in Places
              /\ writePos <= writePos + j /\ writePos + j < writePos + k
              /\ 0 + (writePos + j) - writePos + 1 = j + 1
            BY <1>1, <1>2, <2>1 DEF Wrapped, Places
        <3> QED
            BY <2>2, <3>1
    <2>5. ASSUME NEW p \in Places,
                 \A j \in 0..(k - 1) : p # Wrapped(writePos + j)
          PROVE  slots'[p] = slots[p]
        <3>1. ~(writePos <= p /\ p < writePos + k)
            <4> SUFFICES ASSUME writePos <= p, p < writePos + k
                         PROVE  FALSE
                OBVIOUS
            <4>1. /\ p - writePos \in 0..(k - 1)
                  /\ writePos + (p - writePos) = p
                  /\ Wrapped(p) = p
                BY <1>1, <1>2 DEF Wrapped, Places
            <4> QED
                BY <4>1, <2>5
        <3> QED
            BY <2>2, <3>1
    <2>6. writePos' = Wrapped(writePos + k)
        BY <1>1, <1>2, <2>1, <2>2 DEF Wrapped, Places
    <2>7. ~(writePos + k > Capacity)
        BY <1>1, <1>2, <2>1 DEF Places
    <2>8. broken' = "no"
        BY <1>1, <1>2, <2>2, <2>7 DEF Breaks, SpaceAvailable
    <2> QED
        BY <2>3, <2>4, <2>5, <2>6, <2>8 DEF k
<1>4. CASE ~(writePos < readPos \/ tail >= k)
    <2>1. /\ tail \in 1..Capacity /\ rest \in 1..Capacity
          /\ rest <= readPos /\ rest <= writePos /\ rest # Capacity
          /\ writePos + tail = Capacity /\ writePos + k = Capacity + rest
        BY <1>1, <1>2, <1>4 DEF Wrapped, Places
    <2>2. /\ slots' = [p \in Places |->
                         IF 0 <= p /\ p < 0 + rest
                         THEN data[tail + p - 0 + 1]
                         ELSE [q \in Places |->
                                 IF writePos <= q /\ q < writePos + tail
                                 THEN data[0 + q - writePos + 1]
                                 ELSE slots[q]][p]]
          /\ writePos' = IF rest = Capacity THEN 0 ELSE rest
          /\ broken' = Breaks(k, rest > Capacity)
        BY <1>2, <1>4 DEF WriteBytes, WriteAround, Copied, k
    <2>3. ASSUME NEW p \in Places
          PROVE  slots'[p] = IF p < rest THEN data[tail + p + 1]
                             ELSE IF writePos <= p THEN data[p - writePos + 1]
                             ELSE slots[p]
        <3>1. /\ (0 <= p /\ p < 0 + rest) <=> p < rest
              /\ (writePos <= p /\ p < writePos + tail) <=> writePos <= p
              /\ tail + p - 0 + 1 = tail + p + 1
              /\ 0 + p - writePos + 1 = p - writePos + 1
            BY <1>1, <1>2, <2>1, p \in Places DEF Wrapped, Places
        <3> QED
            BY <2>2, <3>1
    <2>4. slots' \in [Places -> Bytes]
        <3>1. ASSUME NEW p \in Places PROVE slots'[p] \in Bytes
            <4>1. p < rest => tail + p + 1 \in 1..k
                BY <1>1, <1>2, <2>1, p \in Places DEF Wrapped, Places
            <4>2. writePos <= p => p - writePos + 1 \in 1..k
                BY <1>1, <1>2, <2>1, p \in Places DEF Wrapped, Places
            <4> QED
                BY <1>1, <1>2, <2>3, <3>1, <4>1, <4>2
        <3> QED
            BY <2>2, <3>1
    <2>5. ASSUME NEW j \in 0..(k - 1)
          PROVE  slots'[Wrapped(writePos + j)] = data[j + 1]
        <3>1. CASE j < tail
            <4>1. /\ Wrapped(writePos + j) = writePos + j
                  /\ writePos + j \in Places
                  /\ ~(writePos + j < rest) /\ writePos <= writePos + j
                  /\ (writePos + j) - writePos + 1 = j + 1
                BY <1>1, <1>2, <2>1, <3>1 DEF Wrapped, Places
            <4> QED
                BY <2>3, <4>1
        <3>2. CASE ~(j < tail)
            <4>1. /\ Wrapped(writePos + j) = j - tail
                  /\ j - tail \in Places /\ j - tail < rest
                  /\ tail + (j - tail) + 1 = j + 1
                BY <1>1, <1>2, <2>1, <3>2 DEF Wrapped, Places
            <4> QED
                BY <2>3, <4>1
        <3> QED
            BY <3>1, <3>2
    <2>6. ASSUME NEW p \in Places,
                 \A j \in 0..(k - 1) : p # Wrapped(writePos + j)
          PROVE  slots'[p] = slots[p]
        <3>1. ~(p < rest)
            <4> SUFFICES ASSUME p < rest PROVE FALSE
                OBVIOUS
            <4>1. /\ tail + p \in 0..(k - 1)
                  /\ Wrapped(writePos + (tail + p)) = p
                BY <1>1, <1>2, <2>1 DEF Wrapped, Places
            <4> QED
                BY <4>1, <2>6
        <3>2. ~(writePos <= p)
            <4> SUFFICES ASSUME writePos <= p PROVE FALSE
                OBVIOUS
            <4>1. /\ p - writePos \in 0..(k - 1)
                  /\ Wrapped(writePos + (p - writePos)) = p
                BY <1>1, <1>2, <2>1 DEF Wrapped, Places
            <4> QED
                BY <4>1, <2>6
        <3> QED
            BY <2>3, <3>1, <3>2
    <2>7. writePos' = Wrapped(writePos + k)
        BY <1>1, <1>2, <2>1, <2>2 DEF Wrapped, Places
    <2>8. ~(rest > Capacity)
        BY <2>1
    <2>9. broken' = "no"
        BY <1>1, <1>2, <2>2, <2>8 DEF Breaks, SpaceAvailable
    <2> QED
        BY <2>4, <2>5, <2>6, <2>7, <2>9 DEF k
<1> QED
    BY <1>3, <1>4

-----------------------------------------------------------------------------
(* The invariant.                                                          *)

LEMMA BytesFrom ==
    ASSUME RingAssumption, NEW memory \in [Places -> Bytes],
           NEW pos \in Places, NEW n \in 0..Capacity
    PROVE  LET bytes == [i \in 1..n |-> memory[Wrapped(pos + i - 1)]]
           IN  bytes \in Seq(Bytes) /\ Len(bytes) = n
<1> DEFINE bytes == [i \in 1..n |-> memory[Wrapped(pos + i - 1)]]
<1>1. Capacity \in Nat \ {0}
    BY DEF RingAssumption
<1>2. ASSUME NEW i \in 1..n
      PROVE  memory[Wrapped(pos + i - 1)] \in Bytes
    <2>1. Wrapped(pos + i - 1) \in Places
        BY <1>1, i \in 1..n DEF Wrapped, Places
    <2> QED
        BY <2>1
<1>3. bytes \in [1..n -> Bytes] /\ n \in Nat
    BY <1>1, <1>2
<1> QED
    BY <1>3

LEMMA ContentSeq ==
    ASSUME RingInv, RingAssumption, broken = "no"
    PROVE  /\ Content \in Seq(Bytes)
           /\ Len(Content) = numBytes
           /\ numBytes \in 0..Capacity
           /\ \A i \in 1..numBytes : Content[i] = slots[Wrapped(readPos + i - 1)]
<1>1. /\ numBytes \in 0..Capacity /\ readPos \in Places
      /\ slots \in [Places -> Bytes]
    BY DEF RingInv, RingTypeOK, RingAssumption
<1>2. Content = [i \in 1..numBytes |-> slots[Wrapped(readPos + i - 1)]]
    BY DEF Content
<1> QED
    BY <1>1, <1>2, BytesFrom

LEMMA InitInv ==
    ASSUME RingAssumption, RingInit
    PROVE  RingInv
<1>1. 0 \in Places /\ 0 \in Nat /\ 0 <= Capacity
    BY DEF Places, RingAssumption
<1>2. Wrapped(0 + 0) = 0
    BY DEF Wrapped, RingAssumption
<1>3. << >> \in Seq(Bytes)
    OBVIOUS
<1> QED
    BY <1>1, <1>2, <1>3 DEF RingInit, RingInv, RingTypeOK, PositionsAgree

(* A memcpy that takes its bytes from the data leaves bytes in the block.  *)
LEMMA CopyKeepsType ==
    ASSUME RingAssumption, NEW memory \in [Places -> Bytes],
           NEW k \in Nat, NEW data \in [1..k -> Bytes],
           NEW to \in Nat, NEW from \in Nat, NEW n \in Int, from + n <= k
    PROVE  Copied(memory, to, data, from, n) \in [Places -> Bytes]
<1>1. ASSUME NEW p \in Places, to <= p, p < to + n
      PROVE  data[from + p - to + 1] \in Bytes
    <2>1. from + p - to + 1 \in 1..k
        BY <1>1 DEF Places, RingAssumption
    <2> QED
        BY <2>1
<1> QED
    BY <1>1 DEF Copied

LEMMA WriteInv ==
    ASSUME RingInv, RingAssumption,
           NEW data \in Data, WriteBytes(data)
    PROVE  RingInv'
<1> DEFINE k == Len(data)
<1>1. /\ k \in Nat \ {0} /\ data \in [1..k -> Bytes]
      /\ data \in Seq(Bytes)
    BY DataLengths
<1>2. /\ Capacity \in Nat \ {0} /\ broken = "no"
      /\ numBytes \in 0..Capacity /\ readPos \in Places /\ writePos \in Places
      /\ slots \in [Places -> Bytes]
      /\ given \in Seq(Bytes) /\ got \in Seq(Bytes)
      /\ writePos = Wrapped(readPos + numBytes)
    BY DEF RingInv, RingTypeOK, PositionsAgree, RingAssumption, WriteBytes
<1>3. /\ numBytes' = numBytes + k /\ readPos' = readPos
      /\ given' = data /\ got' = got /\ asked' = 0
    BY DEF WriteBytes
<1>4. CASE k <= SpaceAvailable
    <2>1. /\ slots' \in [Places -> Bytes]
          /\ writePos' = Wrapped(writePos + k)
          /\ broken' = "no"
        BY <1>4, WriteLands
    <2> HIDE DEF k
    <2>2. numBytes' \in Nat /\ numBytes' <= Capacity
        BY <1>1, <1>2, <1>3, <1>4 DEF SpaceAvailable
    <2>3. writePos' \in Places /\ writePos' = Wrapped(readPos + (numBytes + k))
        BY <1>1, <1>2, <1>4, <2>1 DEF Wrapped, Places, SpaceAvailable
    <2>4. writePos' \in Nat
        BY <1>2, <2>3 DEF Places
    <2>5. RingTypeOK'
        BY <1>1, <1>2, <1>3, <2>1, <2>2, <2>3, <2>4 DEF RingTypeOK, Places
    <2>6. PositionsAgree'
        BY <1>3, <2>3 DEF PositionsAgree, Wrapped
    <2> QED
        BY <2>5, <2>6 DEF RingInv
<1>5. CASE ~(k <= SpaceAvailable)
    <2> HIDE DEF k
    <2>1. k > SpaceAvailable /\ writePos \in Nat
        BY <1>1, <1>2, <1>5 DEF SpaceAvailable, Places
    <2>2. broken' \in {"outside", "overfull"}
        BY <2>1 DEF WriteBytes, WriteThrough, WriteAround, Breaks, k
    <2>3. slots' \in [Places -> Bytes] /\ writePos' \in Nat
        <3>1. CASE writePos < readPos \/ Capacity - writePos >= k
            <4>1. /\ slots' = Copied(slots, writePos, data, 0, k)
                  /\ writePos' = IF writePos + k = Capacity THEN 0 ELSE writePos + k
                BY <3>1 DEF WriteBytes, WriteThrough, k
            <4>2. k \in Nat /\ k \in Int /\ 0 \in Nat /\ 0 + k <= k
                BY <1>1
            <4>3. slots' \in [Places -> Bytes]
                BY <1>1, <1>2, <2>1, <4>1, <4>2, CopyKeepsType
            <4>4. writePos' \in Nat
                BY <1>1, <2>1, <4>1
            <4> QED
                BY <4>3, <4>4
        <3>2. CASE ~(writePos < readPos \/ Capacity - writePos >= k)
            <4> DEFINE tail == Capacity - writePos
                       rest == k - tail
            <4>1. /\ slots' = Copied(Copied(slots, writePos, data, 0, tail),
                                     0, data, tail, rest)
                  /\ writePos' = IF rest = Capacity THEN 0 ELSE rest
                BY <3>2 DEF WriteBytes, WriteAround, k
            <4>2. /\ tail \in Nat /\ tail \in Int /\ 0 + tail <= k
                  /\ rest \in Nat /\ rest \in Int /\ tail + rest <= k
                <5>1. /\ k \in Nat /\ Capacity \in Nat
                      /\ writePos \in 0..(Capacity - 1)
                    BY <1>1, <1>2 DEF Places
                <5>2. ~(Capacity - writePos >= k)
                    BY <3>2
                <5> QED
                    BY <5>1, <5>2
            <4> HIDE DEF tail, rest
            <4>3. Copied(slots, writePos, data, 0, tail) \in [Places -> Bytes]
                <5>1. k \in Nat /\ 0 \in Nat
                    BY <1>1
                <5> QED
                    BY <1>1, <1>2, <2>1, <4>2, <5>1, CopyKeepsType
            <4>4. slots' \in [Places -> Bytes]
                BY <1>1, <4>1, <4>2, <4>3, CopyKeepsType
            <4> QED
                BY <4>1, <4>2, <4>4
        <3> QED
            BY <3>1, <3>2
    <2>4. numBytes' \in Nat
        BY <1>1, <1>2, <1>3
    <2>5. RingTypeOK'
        BY <1>1, <1>2, <1>3, <2>2, <2>3, <2>4 DEF RingTypeOK, Places
    <2> QED
        BY <2>2, <2>5 DEF RingInv, PositionsAgree
<1> QED
    BY <1>4, <1>5

(* A caller that reads all there is never reads less than the tail when    *)
(* the bytes wrap, nor past the last of them when they do not.             *)
LEMMA ReadStaysInside ==
    ASSUME RingInv, RingAssumption, broken = "no", numBytes # 0
    PROVE  ~ReadsOutside(numBytes)
<1>1. /\ Capacity \in Nat \ {0}
      /\ numBytes \in 0..Capacity /\ readPos \in Places /\ writePos \in Places
      /\ writePos = Wrapped(readPos + numBytes)
    BY DEF RingInv, RingTypeOK, PositionsAgree, RingAssumption
<1> QED
    BY <1>1 DEF ReadsOutside, Wrapped, Places

LEMMA ReadInv ==
    ASSUME RingInv, RingAssumption, NEW len \in Lengths, ReadBytes(len)
    PROVE  RingInv'
<1>1. /\ broken = "no" /\ broken' \in {"no", "outside"} /\ asked' = len
      /\ UNCHANGED <<slots, numBytes, readPos, writePos, given>>
    BY DEF ReadBytes
<1>2. len \in Nat
    BY DEF Lengths, RingAssumption
<1>3. got' \in Seq(Bytes)
    <2> DEFINE n == Smaller(len, numBytes)
    <2>1. got' = SubSeq(Content, 1, n)
        BY DEF ReadBytes
    <2>2. /\ Content \in Seq(Bytes) /\ Len(Content) = numBytes
          /\ numBytes \in Nat
        BY <1>1, ContentSeq
    <2>3. n \in Nat /\ n <= numBytes
        BY <1>2, <2>2 DEF Smaller
    <2> HIDE DEF n
    <2>4. \A i \in 1..n : Content[i] \in Bytes
        BY <2>2, <2>3, ElementOfSeq
    <2>5. 1 \in Int /\ n \in Int
        BY <2>3
    <2> QED
        BY <2>1, <2>4, <2>5, SubSeqProperties
<1>4. RingTypeOK'
    BY <1>1, <1>2, <1>3 DEF RingInv, RingTypeOK, Places
<1>5. PositionsAgree'
    BY <1>1 DEF RingInv, PositionsAgree, Wrapped
<1> QED
    BY <1>4, <1>5 DEF RingInv

LEMMA RemoveInv ==
    ASSUME RingInv, RingAssumption, NEW len \in Lengths, RemoveBytes(len)
    PROVE  RingInv'
<1>1. /\ Capacity \in Nat \ {0}
      /\ numBytes \in 0..Capacity /\ readPos \in Places /\ writePos \in Places
      /\ writePos = Wrapped(readPos + numBytes)
    BY DEF RingInv, RingTypeOK, PositionsAgree, RingAssumption, RemoveBytes
<1>2. /\ len \in Nat /\ len <= numBytes /\ asked' = 0
      /\ readPos' = Wrapped(readPos + len) /\ numBytes' = numBytes - len
      /\ UNCHANGED <<slots, writePos, given, got, broken>>
    BY DEF RemoveBytes, Lengths, RingAssumption
<1>3. /\ readPos' \in Places /\ numBytes' \in Nat /\ numBytes' <= Capacity
      /\ writePos = Wrapped(readPos' + numBytes')
    BY <1>1, <1>2 DEF Wrapped, Places
<1>4. RingTypeOK'
    BY <1>2, <1>3 DEF RingInv, RingTypeOK, Places
<1>5. PositionsAgree'
    BY <1>2, <1>3 DEF PositionsAgree, Wrapped
<1> QED
    BY <1>4, <1>5 DEF RingInv

LEMMA OverlapInv ==
    ASSUME RingInv, Overlap
    PROVE  RingInv'
<1>1. broken' = "raced" /\ asked' = 0
    BY DEF Overlap
<1>2. UNCHANGED <<slots, numBytes, readPos, writePos, given, got>>
    BY DEF Overlap
<1>3. RingTypeOK'
    BY <1>1, <1>2 DEF RingInv, RingTypeOK, Places
<1> QED
    BY <1>1, <1>3 DEF RingInv, PositionsAgree

LEMMA NextInv ==
    ASSUME RingAssumption, RingInv, [RingNext]_ringVars
    PROVE  RingInv'
<1>1. CASE UNCHANGED ringVars
    <2>1. RingTypeOK' /\ PositionsAgree'
        BY <1>1
        DEF ringVars, RingInv, RingTypeOK, PositionsAgree, Wrapped, Places
    <2> QED
        BY <2>1 DEF RingInv
<1>2. ASSUME NEW data \in Data, WriteBytes(data)
      PROVE  RingInv'
    BY <1>2, WriteInv
<1>3. ASSUME NEW len \in Lengths, ReadBytes(len)
      PROVE  RingInv'
    BY <1>3, ReadInv
<1>4. ASSUME NEW len \in Lengths, RemoveBytes(len)
      PROVE  RingInv'
    BY <1>4, RemoveInv
<1>5. CASE Overlap
    BY <1>5, OverlapInv
<1> QED
    BY <1>1, <1>2, <1>3, <1>4, <1>5 DEF RingNext

(* Whatever lengths its callers pass, while nothing broke the number of    *)
(* bytes is the distance between the two positions and both are inside the *)
(* block (ring_buffer.cpp, ReadBytes, WriteBytes, RemoveBytes).            *)
THEOREM RingInvariant == RingSpec => []RingInv
BY RingAssumption, InitInv, NextInv, PTL DEF RingSpec

(* _numBytes is the distance between the positions, until something broke. *)
THEOREM RingPositions == RingSpec => []PositionsAgree
<1>1. RingInv => PositionsAgree
    BY DEF RingInv
<1> QED
    BY <1>1, RingInvariant, PTL

(* A write of no more than the room, and a read of all there is, stay in   *)
(* the memory they were given.                                             *)
LEMMA MemoryStep ==
    ASSUME RingAssumption, RingInv, [RingNext]_ringVars
    PROVE  [broken' = "outside" =>
               IF asked' = 0
               THEN Len(given') > SpaceAvailable
               ELSE asked' # numBytes]_ringVars
<1>1. ASSUME NEW data \in Data, WriteBytes(data), broken' = "outside"
      PROVE  asked' = 0 /\ Len(given') > SpaceAvailable
    <2>1. asked' = 0 /\ given' = data /\ broken = "no"
        BY <1>1 DEF WriteBytes
    <2>2. /\ Len(data) \in Nat /\ numBytes \in Nat
          /\ Capacity \in Nat
        BY DataLengths DEF RingInv, RingTypeOK, RingAssumption
    <2>3. ~(Len(data) <= SpaceAvailable)
        BY <1>1, WriteLands
    <2> QED
        BY <2>1, <2>2, <2>3 DEF SpaceAvailable
<1>2. ASSUME NEW len \in Lengths, ReadBytes(len), broken' = "outside"
      PROVE  asked' # 0 /\ asked' # numBytes
    <2>1. asked' = len /\ numBytes # 0 /\ ReadsOutside(len) /\ broken = "no"
        BY <1>2 DEF ReadBytes
    <2>2. len # 0
        BY DEF Lengths, RingAssumption
    <2> QED
        BY <2>1, <2>2, ReadStaysInside
<1>3. ASSUME NEW len \in Lengths, RemoveBytes(len)
      PROVE  broken' # "outside"
    BY <1>3 DEF RemoveBytes
<1>4. Overlap => broken' # "outside"
    BY DEF Overlap
<1> QED
    BY <1>1, <1>2, <1>3, <1>4 DEF RingNext

(* Only a read of another length than there is, or a write of more than    *)
(* there is room for, leaves the memory (ring_buffer.cpp, ReadBytes and    *)
(* WriteBytes).                                                            *)
THEOREM RingStaysInMemory == RingSpec => StaysInMemory
BY RingAssumption, MemoryStep, RingInvariant, PTL DEF RingSpec, StaysInMemory

-----------------------------------------------------------------------------
(* Every step is a step of the queue.                                      *)

LEMMA WriteRefines ==
    ASSUME RingInv, RingAssumption, NEW data \in Data, WriteBytes(data),
           Len(data) <= SpaceAvailable
    PROVE  Queue!Write(data)
<1> DEFINE k == Len(data)
           old == Content
           new == Content'
<1>0. broken = "no" /\ asked' = 0
    BY DEF WriteBytes
<1>1. k \in Nat \ {0} /\ k <= Capacity - numBytes /\ data \in Seq(Bytes)
    BY DataLengths DEF SpaceAvailable
<1>2. /\ old \in Seq(Bytes) /\ Len(old) = numBytes
      /\ \A i \in 1..numBytes : old[i] = slots[Wrapped(readPos + i - 1)]
    BY <1>0, ContentSeq
<1>3. /\ numBytes' = numBytes + k /\ readPos' = readPos
      /\ given' = data /\ got' = got
    BY DEF WriteBytes
<1>4. RingInv' /\ broken' = "no"
    BY WriteInv, WriteLands
<1>5. new \in Seq(Bytes) /\ Len(new) = numBytes'
    <2>1. /\ slots' \in [Places -> Bytes]
          /\ readPos' \in Places /\ numBytes' \in 0..Capacity
        BY <1>4 DEF RingInv, RingTypeOK, Places, RingAssumption
    <2>2. new = [i \in 1..numBytes' |-> slots'[Wrapped(readPos' + i - 1)]]
        BY <1>4 DEF Content, Wrapped
    <2> QED
        BY <2>1, <2>2, BytesFrom
<1>6. new = [i \in 1..(numBytes + k) |-> slots'[Wrapped(readPos + i - 1)]]
    BY <1>3, <1>4 DEF Content, Wrapped
<1>7. /\ Capacity \in Nat \ {0}
      /\ numBytes \in 0..Capacity /\ readPos \in Places /\ writePos \in Places
      /\ writePos = Wrapped(readPos + numBytes)
    BY <1>0 DEF RingInv, RingTypeOK, PositionsAgree, RingAssumption
<1>8. /\ \A j \in 0..(k - 1) : slots'[Wrapped(writePos + j)] = data[j + 1]
      /\ \A p \in Places :
             (\A j \in 0..(k - 1) : p # Wrapped(writePos + j))
                 => slots'[p] = slots[p]
    BY <1>1, WriteLands
<1> HIDE DEF k, old, new
<1>9. ASSUME NEW i \in 1..(numBytes + k)
      PROVE  new[i] = (old \o data)[i]
    <2>1. new[i] = slots'[Wrapped(readPos + i - 1)]
        BY <1>6
    <2>2. (old \o data)[i] = IF i <= numBytes THEN old[i] ELSE data[i - numBytes]
        BY <1>1, <1>2, <1>7, ConcatProperties DEF k
    <2>3. CASE i <= numBytes
        <3>1. i \in 1..numBytes
            BY <1>1, <1>7, <2>3
        <3>2. /\ Wrapped(readPos + i - 1) \in Places
              /\ \A j \in 0..(k - 1) :
                     Wrapped(readPos + i - 1) # Wrapped(writePos + j)
            BY <1>1, <1>7, <3>1 DEF Wrapped, Places
        <3> QED
            BY <1>2, <1>8, <2>1, <2>2, <2>3, <3>1, <3>2
    <2>4. CASE ~(i <= numBytes)
        <3>1. /\ i - numBytes - 1 \in 0..(k - 1)
              /\ (i - numBytes - 1) + 1 = i - numBytes
              /\ Wrapped(writePos + (i - numBytes - 1))
                     = Wrapped(readPos + i - 1)
            BY <1>1, <1>7, <2>4 DEF Wrapped, Places
        <3> QED
            BY <1>8, <2>1, <2>2, <2>4, <3>1
    <2> QED
        BY <2>3, <2>4
<1>10. /\ old \o data \in Seq(Bytes)
       /\ Len(old \o data) = numBytes + k
    BY <1>1, <1>2, ConcatProperties DEF k
<1>11. new = old \o data
    BY <1>3, <1>5, <1>9, <1>10, SeqEqual
<1>12. Len(data) <= Queue!Room
    BY <1>1, <1>2, <1>7 DEF Queue!Room, old, k
<1> QED
    BY <1>0, <1>3, <1>4, <1>11, <1>12 DEF Queue!Write, old, new, k

LEMMA OverfillRefines ==
    ASSUME RingInv, RingAssumption, NEW data \in Data, WriteBytes(data),
           ~(Len(data) <= SpaceAvailable)
    PROVE  Queue!Overfill(data)
<1>1. /\ broken = "no" /\ asked' = 0 /\ given' = data /\ got' = got
    BY DEF WriteBytes
<1>2. /\ Len(data) \in Nat /\ numBytes \in Nat /\ Capacity \in Nat
    BY DataLengths DEF RingInv, RingTypeOK, RingAssumption
<1>3. Len(data) > SpaceAvailable
    BY <1>2 DEF SpaceAvailable
<1>4. broken' \in {"outside", "overfull"}
    BY <1>3 DEF WriteBytes, WriteThrough, WriteAround, Breaks
<1>5. Content' = << >>
    BY <1>4 DEF Content
<1>6. Len(data) > Queue!Room
    BY <1>1, <1>3, ContentSeq DEF Queue!Room, SpaceAvailable
<1> QED
    BY <1>1, <1>4, <1>5, <1>6 DEF Queue!Overfill

LEMMA ReadRefines ==
    ASSUME RingInv, RingAssumption, NEW len \in Lengths, ReadBytes(len)
    PROVE  Queue!Read(len) \/ Queue!ReadOther(len)
<1>1. /\ broken = "no" /\ asked' = len
      /\ got' = SubSeq(Content, 1, Smaller(len, numBytes))
      /\ UNCHANGED <<slots, numBytes, readPos, given>>
    BY DEF ReadBytes
<1>2. Content \in Seq(Bytes) /\ Len(Content) = numBytes
    BY <1>1, ContentSeq
<1>3. got' = SubSeq(Content, 1, Queue!Smaller(len, Len(Content)))
    BY <1>1, <1>2 DEF Queue!Smaller, Smaller
<1>4. CASE numBytes # 0 /\ ReadsOutside(len)
    <2>1. broken' = "outside"
        BY <1>4 DEF ReadBytes
    <2>2. Content' = << >>
        BY <2>1 DEF Content
    <2>3. len # Len(Content)
        BY <1>1, <1>2, <1>4, ReadStaysInside
    <2>4. Content # << >>
        BY <1>2, <1>4, EmptySeq
    <2> QED
        BY <1>1, <1>3, <2>1, <2>2, <2>3, <2>4 DEF Queue!ReadOther
<1>5. CASE ~(numBytes # 0 /\ ReadsOutside(len))
    <2>1. broken' = "no"
        BY <1>5 DEF ReadBytes
    <2>2. Content' = Content
        BY <1>1, <2>1 DEF Content, Wrapped
    <2> QED
        BY <1>1, <1>3, <2>1, <2>2 DEF Queue!Read
<1> QED
    BY <1>4, <1>5

LEMMA RemoveRefines ==
    ASSUME RingInv, RingAssumption, NEW len \in Lengths, RemoveBytes(len)
    PROVE  Queue!Remove(len)
<1> DEFINE old == Content
           new == Content'
           rest == SubSeq(old, len + 1, numBytes)
<1>0. broken = "no" /\ broken' = "no" /\ asked' = 0
    BY DEF RemoveBytes
<1>1. /\ old \in Seq(Bytes) /\ Len(old) = numBytes
      /\ \A i \in 1..numBytes : old[i] = slots[Wrapped(readPos + i - 1)]
    BY <1>0, ContentSeq
<1>2. /\ Capacity \in Nat \ {0}
      /\ numBytes \in 0..Capacity /\ readPos \in Places
    BY <1>0 DEF RingInv, RingTypeOK, RingAssumption
<1>3. /\ len \in Nat /\ len <= numBytes
      /\ readPos' = Wrapped(readPos + len) /\ numBytes' = numBytes - len
      /\ UNCHANGED <<slots, given, got>>
    BY DEF RemoveBytes, Lengths, RingAssumption
<1>4. new \in Seq(Bytes) /\ Len(new) = numBytes'
    <2>1. /\ slots' \in [Places -> Bytes]
          /\ readPos' \in Places /\ numBytes' \in 0..Capacity
        BY <1>0, RemoveInv DEF RingInv, RingTypeOK, Places, RingAssumption
    <2>2. new = [i \in 1..numBytes' |-> slots'[Wrapped(readPos' + i - 1)]]
        BY <1>0 DEF Content, Wrapped
    <2> QED
        BY <2>1, <2>2, BytesFrom
<1>5. new = [i \in 1..(numBytes - len) |->
                slots[Wrapped(Wrapped(readPos + len) + i - 1)]]
    BY <1>0, <1>3 DEF Content, Wrapped
<1> HIDE DEF old, new
<1>6. /\ rest \in Seq(Bytes)
      /\ Len(rest) = numBytes - len
      /\ \A i \in 1..(numBytes - len) : rest[i] = old[len + i]
    <2>1. \A i \in (len + 1)..numBytes : old[i] \in Bytes
        BY <1>1, <1>2, <1>3, ElementOfSeq
    <2>2. len + 1 \in Int /\ numBytes \in Int
        BY <1>2, <1>3
    <2>3. /\ rest \in Seq(Bytes)
          /\ Len(rest) = IF len + 1 <= numBytes THEN numBytes - (len + 1) + 1 ELSE 0
          /\ \A i \in 1..(numBytes - (len + 1) + 1) : rest[i] = old[(len + 1) + i - 1]
        BY <2>1, <2>2, SubSeqProperties
    <2>4. /\ numBytes - (len + 1) + 1 = numBytes - len
          /\ \A i \in 1..(numBytes - len) : (len + 1) + i - 1 = len + i
        BY <1>2, <1>3
    <2>5. Len(rest) = numBytes - len
        BY <1>2, <1>3, <2>3
    <2> QED
        BY <2>3, <2>4, <2>5
<1>7. ASSUME NEW i \in 1..(numBytes - len)
      PROVE  new[i] = rest[i]
    <2>1. new[i] = slots[Wrapped(Wrapped(readPos + len) + i - 1)]
        BY <1>5
    <2>2. /\ len + i \in 1..numBytes
          /\ Wrapped(Wrapped(readPos + len) + i - 1)
                = Wrapped(readPos + (len + i) - 1)
        BY <1>2, <1>3 DEF Wrapped, Places
    <2> QED
        BY <1>1, <1>6, <2>1, <2>2
<1>8. new = rest
    BY <1>3, <1>4, <1>6, <1>7, SeqEqual
<1> QED
    BY <1>0, <1>1, <1>3, <1>8 DEF Queue!Remove, old, new

LEMMA OverlapRefines ==
    ASSUME Overlap
    PROVE  Queue!Overlap
<1>1. broken' = "raced"
    BY DEF Overlap
<1>2. Content' = << >>
    BY <1>1 DEF Content
<1> QED
    BY <1>2 DEF Overlap, Queue!Overlap

LEMMA StepRefines ==
    ASSUME RingAssumption, RingInv, [RingNext]_ringVars
    PROVE  [Queue!Next]_(Queue!vars)
<1>1. CASE UNCHANGED ringVars
    <2>1. Content' = Content
        BY <1>1 DEF ringVars, Content, Wrapped
    <2> QED
        BY <1>1, <2>1 DEF ringVars, Queue!vars
<1>2. ASSUME NEW data \in Data, WriteBytes(data)
      PROVE  Queue!Next
    <2>1. data \in Queue!Data
        BY DEF Data, Lengths, Queue!Data, Queue!Lengths
    <2> QED
        BY <1>2, <2>1, WriteRefines, OverfillRefines DEF Queue!Next
<1>3. ASSUME NEW len \in Lengths, ReadBytes(len) \/ RemoveBytes(len)
      PROVE  Queue!Next
    <2>1. len \in Queue!Lengths
        BY DEF Lengths, Queue!Lengths
    <2> QED
        BY <1>3, <2>1, ReadRefines, RemoveRefines DEF Queue!Next
<1>4. CASE Overlap
    BY <1>4, OverlapRefines DEF Queue!Next
<1> QED
    BY <1>1, <1>2, <1>3, <1>4 DEF RingNext

LEMMA InitRefines ==
    ASSUME RingAssumption, RingInit
    PROVE  Queue!Init
<1>1. Content \in Seq(Bytes) /\ Len(Content) = 0
    BY InitInv, ContentSeq DEF RingInit
<1> QED
    BY <1>1, EmptySeq DEF RingInit, Queue!Init

(* RingBuffer is the queue of bytes of its header for every length a call  *)
(* passes, until one that does not fit leaves the memory or goes over      *)
(* unread bytes, or two overlap (ring_buffer.h, ReadBytes to RemoveBytes). *)
THEOREM RingIsQueue == RingSpec => QueueOfBytes
BY RingAssumption, InitRefines, StepRefines, RingInvariant, PTL
DEF RingSpec, QueueOfBytes, Queue!Spec

-----------------------------------------------------------------------------
(***************************************************************************)
(* The thread pool with any number of workers and closures and any length  *)
(* of time: its types, that a closure is in one place at a time and is     *)
(* started at most once, and that none is enqueued early but those taken   *)
(* after the vector of _timed_queue moved under the sleeping timer thread. *)
(***************************************************************************)

USE PoolAssumption

-----------------------------------------------------------------------------
(* Types. *)

(* Adding to the queue wakes a worker or nobody. *)
LEMMA EnqueueType ==
    ASSUME TypeOK, NEW c \in Closures, Enqueue(c), UNCHANGED running
    PROVE  /\ queue' \in Seq(Closures)
           /\ wpc' \in [Workers -> {"top", "waiting", "woken", "running", "exited"}]
           /\ \A w \in Workers : wpc'[w] = "running" <=> running'[w] # None
BY DEF TypeOK, Enqueue, Waiting

LEMMA AddType ==
    ASSUME TypeOK, NEW c \in Closures,
           Add(c) \/ \E time \in Times : AddAt(c, time)
    PROVE  TypeOK'
<1>1. CASE Add(c)
    <2>1. /\ Enqueue(c)
          /\ added' = added \cup {c}
          /\ UNCHANGED <<heapVars, running, runs, timerVars, due, exitVars, now>>
        BY <1>1 DEF Add
    <2> QED
        BY <2>1, EnqueueType DEF TypeOK, heapVars, timerVars, sleepVars, exitVars
<1>2. ASSUME NEW time \in Times, AddAt(c, time)
      PROVE  TypeOK'
    <2>1. room' \in Nat
        BY <1>2 DEF AddAt, MoreRoom, TypeOK
    <2>2. dangling' \in BOOLEAN
        BY <1>2 DEF AddAt, Full, TypeOK
    <2> QED
        BY <1>2, <2>1, <2>2 DEF AddAt, TypeOK, RousedTimer, workerVars, exitVars
<1> QED
    BY <1>1, <1>2

LEMMA WorkerType ==
    ASSUME TypeOK, NEW w \in Workers, WorkerStep(w) \/ WorkerWakes(w)
    PROVE  TypeOK'
<1> USE DEF TypeOK, heapVars, timerVars, sleepVars, callVars, exitVars
<1>1. CASE WorkerWaits(w)
    BY <1>1 DEF WorkerWaits
<1>2. CASE WorkerExits(w)
    BY <1>2 DEF WorkerExits
<1>3. CASE WorkerFindsNothing(w)
    BY <1>3 DEF WorkerFindsNothing
<1>4. CASE WorkerTakes(w)
    BY <1>4 DEF WorkerTakes
<1>5. CASE WorkerEnds(w)
    BY <1>5 DEF WorkerEnds
<1>6. CASE WorkerWakes(w)
    BY <1>6 DEF WorkerWakes
<1> QED
    BY <1>1, <1>2, <1>3, <1>4, <1>5, <1>6 DEF WorkerStep

LEMMA TimerType ==
    ASSUME TypeOK, TimerStep \/ TimerWakes
    PROVE  TypeOK'
<1>1. CASE TimerWaits \/ TimerSleeps \/ TimerExpires \/ TimerExits \/ TimerGoesRound \/ TimerWakes
    BY <1>1 DEF TimerWaits, TimerSleeps, TimerExpires, TimerExits, TimerGoesRound, TimerWakes,
                Tops, RousedTimer, TypeOK, heapVars, sleepVars, workerVars, callVars, exitVars
<1>2. CASE TimerTakes
    BY <1>2 DEF TimerTakes, Tops, TypeOK, workerVars, callVars, exitVars
<1>3. CASE TimerAdds
    <2>1. /\ held \in Closures /\ Enqueue(held)
          /\ held' = None /\ tpc' = "top"
          /\ UNCHANGED <<heapVars, running, runs, until, dangling, misled, callVars, exitVars, now>>
        BY <1>3 DEF TimerAdds, TypeOK
    <2> QED
        BY <2>1, EnqueueType DEF TypeOK, heapVars, callVars, exitVars
<1> QED
    BY <1>1, <1>2, <1>3 DEF TimerStep

LEMMA DestructorType ==
    ASSUME TypeOK, Destroy \/ DestructorStep \/ Tick
    PROVE  TypeOK'
<1> USE DEF TypeOK, heapVars, workerVars, timerVars, sleepVars, callVars, exitVars
<1>1. CASE Destroy
    BY <1>1 DEF Destroy
<1>2. CASE NotifyWorkers
    BY <1>2 DEF NotifyWorkers
<1>3. CASE NotifyTimer
    BY <1>3 DEF NotifyTimer, RousedTimer
<1>4. CASE Join
    BY <1>4 DEF Join
<1>5. CASE Tick
    BY <1>5 DEF Tick, Times
<1> QED
    BY <1>1, <1>2, <1>3, <1>4, <1>5 DEF DestructorStep

LEMMA NextType == TypeOK /\ [Next]_vars => TypeOK'
<1> SUFFICES ASSUME TypeOK, [Next]_vars PROVE TypeOK'
    OBVIOUS
<1>1. CASE UNCHANGED vars
    BY <1>1 DEF TypeOK, vars, heapVars, workerVars, timerVars, sleepVars, callVars, exitVars
<1> QED
    BY <1>1, AddType, WorkerType, TimerType, DestructorType DEF Next

LEMMA InitType == Init => TypeOK
<1> SUFFICES ASSUME Init PROVE TypeOK
    OBVIOUS
<1>1. 0 \in Times
    BY DEF Times
<1>2. queue \in Seq(Closures)
    BY DEF Init
<1>3. wpc \in [Workers -> {"top"}] /\ running \in [Workers -> {None}]
    BY DEF Init
<1>4. due \in [Closures -> Times] /\ runs \in [Closures -> Nat]
    BY <1>1 DEF Init
<1>5. \A w \in Workers : wpc[w] = "running" <=> running[w] # None
    BY DEF Init
<1>6. timed \subseteq Times \X Closures /\ added \subseteq Closures
    BY DEF Init
<1> QED
    BY <1>1, <1>2, <1>3, <1>4, <1>5, <1>6 DEF Init, TypeOK

(* Every variable has its type, and a worker or the timer thread is at a    *)
(* closure exactly when it has one.                                         *)
THEOREM PoolTypeCorrect == Spec => []TypeOK
BY InitType, NextType, PTL DEF Spec

-----------------------------------------------------------------------------
(* Every closure in one place.                                             *)
(*                                                                         *)
(* A closure moves from the heap to the timer thread's hand, from there or *)
(* from its adder to the queue, and from the queue to a worker.            *)

Once == \A i, j \in 1..Len(queue) : queue[i] = queue[j] => i = j
OneDeadline == \A t, u \in timed : t[2] = u[2] => t = u

(* Enqueue puts a closure that was in no queue behind the others. *)
LEMMA EnqueuePlaces ==
    ASSUME TypeOK, Once, NEW c \in Closures, ~InQueue(c), queue' = Append(queue, c)
    PROVE  /\ Once'
           /\ \A d \in Closures : InQueue(d)' <=> InQueue(d) \/ d = c
<1>1. /\ Len(queue) \in Nat /\ Len(queue') = Len(queue) + 1
      /\ queue'[Len(queue) + 1] = c
      /\ \A i \in 1..Len(queue) : queue'[i] = queue[i] /\ queue[i] # c
    BY DEF TypeOK, InQueue
<1>2. Once'
    BY <1>1 DEF Once
<1>3. ASSUME NEW d \in Closures
      PROVE  InQueue(d)' <=> InQueue(d) \/ d = c
    BY <1>1 DEF InQueue
<1> QED
    BY <1>2, <1>3

(* Taking the head leaves the others. *)
LEMMA TakePlaces ==
    ASSUME TypeOK, Once, queue # << >>, queue' = Tail(queue)
    PROVE  /\ Head(queue) \in Closures /\ InQueue(Head(queue))
           /\ Once'
           /\ \A d \in Closures : InQueue(d)' <=> InQueue(d) /\ d # Head(queue)
<1>1. /\ Len(queue) \in Nat \ {0} /\ Len(queue') = Len(queue) - 1
      /\ Head(queue) = queue[1] /\ Head(queue) \in Closures
      /\ \A i \in 1..(Len(queue) - 1) : queue'[i] = queue[i + 1]
    BY DEF TypeOK
<1>2. Once'
    <2> SUFFICES ASSUME NEW i \in 1..Len(queue'), NEW j \in 1..Len(queue'), queue'[i] = queue'[j]
                 PROVE  i = j
        BY DEF Once
    <2>1. i + 1 \in 1..Len(queue) /\ j + 1 \in 1..Len(queue) /\ queue[i + 1] = queue[j + 1]
        BY <1>1
    <2> QED
        BY <2>1, <1>1 DEF Once
<1>3. InQueue(Head(queue))
    BY <1>1 DEF InQueue
<1>4. ASSUME NEW d \in Closures
      PROVE  InQueue(d)' <=> InQueue(d) /\ d # Head(queue)
    <2>1. ASSUME InQueue(d)'
          PROVE  InQueue(d) /\ d # Head(queue)
        <3>1. PICK i \in 1..(Len(queue) - 1) : queue'[i] = d
            BY <2>1, <1>1 DEF InQueue
        <3>2. i + 1 \in 1..Len(queue) /\ queue[i + 1] = d /\ i + 1 # 1
            BY <3>1, <1>1
        <3> QED
            BY <3>2, <1>1 DEF InQueue, Once
    <2>2. ASSUME InQueue(d), d # Head(queue)
          PROVE  InQueue(d)'
        <3>1. PICK i \in 1..Len(queue) : queue[i] = d
            BY <2>2 DEF InQueue
        <3>2. i - 1 \in 1..(Len(queue) - 1) /\ queue'[i - 1] = d
            BY <3>1, <2>2, <1>1
        <3> QED
            BY <3>2, <1>1 DEF InQueue
    <2> QED
        BY <2>1, <2>2
<1> QED
    BY <1>1, <1>2, <1>3, <1>4

(* A step that moves no closure. *)
LEMMA PlacesElsewhere ==
    ASSUME NothingLost, UNCHANGED <<queue, timed, held, added, runs>>
    PROVE  NothingLost'
BY DEF NothingLost, InOnePlace, InQueue, InTimed

LEMMA AddPlaces ==
    ASSUME TypeOK, NothingLost, NEW c \in Closures, Add(c)
    PROVE  NothingLost'
<1>1. /\ queue' = Append(queue, c) /\ c \notin added /\ added' = added \cup {c}
      /\ UNCHANGED <<timed, held, runs>>
    BY DEF Add, Enqueue, heapVars, timerVars, sleepVars
<1>2. Once /\ OneDeadline /\ ~InQueue(c) /\ ~InTimed(c) /\ held # c /\ runs[c] = 0
    BY <1>1 DEF NothingLost, InOnePlace, Once, OneDeadline
<1>3. Once' /\ \A d \in Closures : InQueue(d)' <=> InQueue(d) \/ d = c
    BY <1>1, <1>2, EnqueuePlaces
<1>4. OneDeadline' /\ \A d \in Closures : InTimed(d)' <=> InTimed(d)
    BY <1>1, <1>2 DEF OneDeadline, InTimed
<1>5. ASSUME NEW d \in Closures
      PROVE  InOnePlace(d)'
    <2>1. CASE d = c
        BY <2>1, <1>1, <1>2, <1>3, <1>4 DEF InOnePlace
    <2>2. CASE d # c
        BY <2>2, <1>1, <1>3, <1>4 DEF NothingLost, InOnePlace
    <2> QED
        BY <2>1, <2>2
<1> QED
    BY <1>3, <1>4, <1>5 DEF NothingLost, Once, OneDeadline

LEMMA AddAtPlaces ==
    ASSUME TypeOK, NothingLost, NEW c \in Closures, NEW time \in Times, AddAt(c, time)
    PROVE  NothingLost'
<1>1. /\ timed' = timed \cup {<<time, c>>} /\ c \notin added /\ added' = added \cup {c}
      /\ UNCHANGED <<queue, held, runs>>
    BY DEF AddAt, workerVars
<1>2. Once /\ OneDeadline /\ ~InQueue(c) /\ ~InTimed(c) /\ held # c /\ runs[c] = 0
    BY <1>1 DEF NothingLost, InOnePlace, Once, OneDeadline
<1>3. Once' /\ \A d \in Closures : InQueue(d)' <=> InQueue(d)
    BY <1>1, <1>2 DEF Once, InQueue
<1>4. OneDeadline'
    BY <1>1, <1>2 DEF OneDeadline, InTimed
<1>5. ASSUME NEW d \in Closures
      PROVE  InTimed(d)' <=> InTimed(d) \/ d = c
    <2>1. <<time, c>> \in timed' /\ <<time, c>>[2] = c
        BY <1>1
    <2>2. CASE d = c
        BY <2>1, <2>2 DEF InTimed
    <2>3. CASE d # c
        BY <2>1, <2>3, <1>1 DEF InTimed
    <2> QED
        BY <2>2, <2>3
<1>6. ASSUME NEW d \in Closures
      PROVE  InOnePlace(d)'
    <2>1. CASE d = c
        BY <2>1, <1>1, <1>2, <1>3, <1>5 DEF InOnePlace
    <2>2. CASE d # c
        BY <2>2, <1>1, <1>3, <1>5 DEF NothingLost, InOnePlace
    <2> QED
        BY <2>1, <2>2
<1> QED
    BY <1>3, <1>4, <1>6 DEF NothingLost, Once, OneDeadline

LEMMA WorkerTakesPlaces ==
    ASSUME TypeOK, NothingLost, NEW w \in Workers, WorkerTakes(w)
    PROVE  NothingLost'
<1> DEFINE c == Head(queue)
<1>1. /\ queue # << >> /\ queue' = Tail(queue) /\ runs' = [runs EXCEPT ![c] = @ + 1]
      /\ UNCHANGED <<timed, held, added>>
    BY DEF WorkerTakes, heapVars, timerVars, sleepVars, callVars
<1>2. Once /\ OneDeadline
    BY DEF NothingLost, Once, OneDeadline
<1>3. /\ c \in Closures /\ InQueue(c) /\ Once'
      /\ \A d \in Closures : InQueue(d)' <=> InQueue(d) /\ d # c
    BY <1>1, <1>2, TakePlaces
<1>4. OneDeadline' /\ \A d \in Closures : InTimed(d)' <=> InTimed(d)
    BY <1>1, <1>2 DEF OneDeadline, InTimed
<1>5. c \in added /\ ~InTimed(c) /\ held # c /\ runs[c] = 0
    BY <1>3 DEF NothingLost, InOnePlace
<1>6. runs'[c] = 1 /\ \A d \in Closures \ {c} : runs'[d] = runs[d]
    BY <1>1, <1>3, <1>5 DEF TypeOK
<1> HIDE DEF c
<1>7. ASSUME NEW d \in Closures
      PROVE  InOnePlace(d)'
    <2>1. CASE d = c
        BY <2>1, <1>1, <1>3, <1>4, <1>5, <1>6 DEF InOnePlace
    <2>2. CASE d # c
        BY <2>2, <1>1, <1>3, <1>4, <1>6 DEF NothingLost, InOnePlace
    <2> QED
        BY <2>1, <2>2
<1> QED
    BY <1>3, <1>4, <1>7 DEF NothingLost, Once, OneDeadline

LEMMA TimerTakesPlaces ==
    ASSUME TypeOK, NothingLost, TimerTakes
    PROVE  NothingLost'
<1>1. PICK t \in timed : timed' = timed \ {t} /\ held' = t[2]
    BY DEF TimerTakes, Tops
<1>2. tpc # "adding" /\ held = None /\ UNCHANGED <<queue, added, runs>>
    BY DEF TimerTakes, TypeOK, workerVars, callVars
<1>3. t[2] \in Closures
    BY DEF TypeOK
<1>4. InTimed(t[2])
    BY DEF InTimed
<1>5. t[2] \in added /\ ~InQueue(t[2]) /\ runs[t[2]] = 0
    BY <1>3, <1>4 DEF NothingLost, InOnePlace
<1>6. \A d \in Closures : InTimed(d)' <=> InTimed(d) /\ d # t[2]
    BY <1>1 DEF NothingLost, InTimed
<1>7. Once' /\ OneDeadline' /\ \A d \in Closures : InQueue(d)' <=> InQueue(d)
    BY <1>1, <1>2 DEF NothingLost, Once, OneDeadline, InQueue
<1>8. ASSUME NEW d \in Closures
      PROVE  InOnePlace(d)'
    <2>1. CASE d = t[2]
        BY <2>1, <1>1, <1>2, <1>5, <1>6, <1>7 DEF InOnePlace
    <2>2. CASE d # t[2]
        BY <2>2, <1>1, <1>2, <1>6, <1>7 DEF NothingLost, InOnePlace
    <2> QED
        BY <2>1, <2>2
<1> QED
    BY <1>7, <1>8 DEF NothingLost, Once, OneDeadline

LEMMA TimerAddsPlaces ==
    ASSUME TypeOK, NothingLost, TimerAdds
    PROVE  NothingLost'
<1> DEFINE c == held
<1>1. /\ c \in Closures /\ queue' = Append(queue, c) /\ held' = None
      /\ UNCHANGED <<timed, added, runs>>
    BY DEF TimerAdds, Enqueue, TypeOK, heapVars, callVars
<1>2. Once /\ OneDeadline /\ c \in added /\ ~InQueue(c) /\ ~InTimed(c) /\ runs[c] = 0
    BY <1>1 DEF NothingLost, InOnePlace, Once, OneDeadline
<1>3. Once' /\ \A d \in Closures : InQueue(d)' <=> InQueue(d) \/ d = c
    BY <1>1, <1>2, EnqueuePlaces
<1>4. OneDeadline' /\ \A d \in Closures : InTimed(d)' <=> InTimed(d)
    BY <1>1, <1>2 DEF OneDeadline, InTimed
<1>5. ASSUME NEW d \in Closures
      PROVE  InOnePlace(d)'
    <2>1. CASE d = c
        BY <2>1, <1>1, <1>2, <1>3, <1>4 DEF InOnePlace
    <2>2. CASE d # c
        BY <2>2, <1>1, <1>3, <1>4 DEF NothingLost, InOnePlace
    <2> QED
        BY <2>1, <2>2
<1> QED
    BY <1>3, <1>4, <1>5 DEF NothingLost, Once, OneDeadline

LEMMA NextPlaces == TypeOK /\ NothingLost /\ [Next]_vars => NothingLost'
<1> SUFFICES ASSUME TypeOK, NothingLost, [Next]_vars PROVE NothingLost'
    OBVIOUS
<1>1. ASSUME NEW c \in Closures, Add(c) \/ \E time \in Times : AddAt(c, time)
      PROVE  NothingLost'
    BY <1>1, AddPlaces, AddAtPlaces
<1>2. ASSUME NEW w \in Workers, WorkerStep(w) \/ WorkerWakes(w)
      PROVE  NothingLost'
    <2>1. CASE WorkerTakes(w)
        BY <2>1, WorkerTakesPlaces
    <2>2. CASE ~WorkerTakes(w)
        BY <1>2, <2>2, PlacesElsewhere
           DEF WorkerStep, WorkerWakes, WorkerWaits, WorkerExits, WorkerFindsNothing, WorkerEnds,
               heapVars, timerVars, sleepVars, callVars
    <2> QED
        BY <2>1, <2>2
<1>3. CASE TimerStep \/ TimerWakes
    <2>1. CASE TimerTakes \/ TimerAdds
        BY <2>1, TimerTakesPlaces, TimerAddsPlaces
    <2>2. CASE ~(TimerTakes \/ TimerAdds)
        BY <1>3, <2>2, PlacesElsewhere
           DEF TimerStep, TimerWakes, TimerWaits, TimerSleeps, TimerExpires, TimerExits,
               TimerGoesRound, heapVars, sleepVars, workerVars, callVars
    <2> QED
        BY <2>1, <2>2
<1>4. CASE Destroy \/ DestructorStep \/ Tick \/ UNCHANGED vars
    BY <1>4, PlacesElsewhere
       DEF Destroy, DestructorStep, NotifyWorkers, NotifyTimer, Join, Tick, vars,
           heapVars, workerVars, timerVars, sleepVars, callVars
<1> QED
    BY <1>1, <1>2, <1>3, <1>4 DEF Next

LEMMA InitPlaces == Init => NothingLost
<1> SUFFICES ASSUME Init PROVE NothingLost
    OBVIOUS
<1>1. Len(queue) = 0 /\ timed = {} /\ held = None /\ added = {}
    BY DEF Init
<1>2. ASSUME NEW c \in Closures
      PROVE  InOnePlace(c)
    BY <1>1 DEF Init, InOnePlace, InQueue, InTimed
<1> QED
    BY <1>1, <1>2 DEF NothingLost

(* A closure that was added is in the heap, in the timer thread's hand, in  *)
(* the queue or started, in one of them only, and is started at most once.  *)
THEOREM NoClosureLost == Spec => []NothingLost
<1>1. Spec => []TypeOK
    BY PoolTypeCorrect
<1> QED
    BY <1>1, InitPlaces, NextPlaces, PTL DEF Spec

-----------------------------------------------------------------------------
(* No closure before its time.                                             *)
(*                                                                         *)
(* What is on top of the heap has the latest deadline, so the closure that *)
(* is taken is due whenever any closure on top is. One that is taken on a  *)
(* comparison with a time that was moved away is among the misled.         *)

DeadlinesKept ==
    /\ \A t \in timed : t[1] = due[t[2]]
    /\ \A c \in Closures \ added : due[c] = 0

TimelyInv == DeadlinesKept /\ NotEarly

(* A step that leaves the heap alone and does not turn the clock back. *)
LEMMA TimelyElsewhere ==
    ASSUME TypeOK, TimelyInv, TypeOK', UNCHANGED <<timed, added, due, misled>>, now' >= now
    PROVE  TimelyInv'
BY DEF TypeOK, TimelyInv, DeadlinesKept, NotEarly, Times

LEMMA AddTimely ==
    ASSUME TypeOK, TimelyInv, NEW c \in Closures, Add(c)
    PROVE  TimelyInv'
<1>1. /\ added' = added \cup {c} /\ c \notin added
      /\ UNCHANGED <<timed, due, misled, now>>
    BY DEF Add, heapVars, timerVars, sleepVars
<1>2. due[c] = 0 /\ ~(now < due[c])
    BY <1>1 DEF TimelyInv, DeadlinesKept, TypeOK, Times
<1> QED
    BY <1>1, <1>2 DEF TimelyInv, DeadlinesKept, NotEarly

LEMMA AddAtTimely ==
    ASSUME TypeOK, NothingLost, TimelyInv,
           NEW c \in Closures, NEW time \in Times, AddAt(c, time)
    PROVE  TimelyInv'
<1>1. /\ added' = added \cup {c} /\ c \notin added
      /\ due' = [due EXCEPT ![c] = time]
      /\ timed' = timed \cup {<<time, c>>}
      /\ UNCHANGED <<misled, now>>
    BY DEF AddAt
<1>2. due'[c] = time /\ \A d \in Closures \ {c} : due'[d] = due[d]
    BY <1>1 DEF TypeOK
<1>3. ASSUME NEW t \in timed
      PROVE  t[2] \in Closures \ {c} /\ t[1] = due[t[2]]
    <2>1. t[2] \in Closures /\ InTimed(t[2])
        BY DEF TypeOK, InTimed
    <2>2. ~InTimed(c)
        BY <1>1 DEF NothingLost, InOnePlace
    <2> QED
        BY <2>1, <2>2 DEF TimelyInv, DeadlinesKept
<1>4. <<time, c>>[1] = time /\ <<time, c>>[2] = c
    OBVIOUS
<1>5. DeadlinesKept'
    <2>1. \A t \in timed' : t[1] = due'[t[2]]
        BY <1>1, <1>2, <1>3, <1>4
    <2>2. \A d \in Closures \ added' : due'[d] = 0
        BY <1>1, <1>2 DEF TimelyInv, DeadlinesKept
    <2> QED
        BY <2>1, <2>2 DEF DeadlinesKept
<1>6. NotEarly'
    <2> SUFFICES ASSUME NEW d \in added', now' < due'[d]
                 PROVE  <<due'[d], d>> \in timed' \/ d \in misled'
        BY DEF NotEarly
    <2>1. CASE d = c
        BY <2>1, <1>1, <1>2
    <2>2. CASE d # c
        BY <2>2, <1>1, <1>2 DEF TimelyInv, NotEarly, TypeOK
    <2> QED
        BY <2>1, <2>2
<1> QED
    BY <1>1, <1>5, <1>6 DEF TimelyInv

LEMMA TimerTakesTimely ==
    ASSUME TypeOK, TimelyInv, TimerTakes
    PROVE  TimelyInv'
<1>1. PICK t \in Tops :
          /\ timed' = timed \ {t}
          /\ misled' = IF dangling THEN misled \cup {t[2]} ELSE misled
    BY DEF TimerTakes
<1>2. UNCHANGED <<added, due, now>>
    BY DEF TimerTakes, workerVars, callVars
<1>3. ASSUME ~dangling PROVE now >= t[1]
    <2>1. PICK u \in Tops : now >= u[1]
        BY <1>3 DEF TimerTakes, TimedOut
    <2>2. t[1] \in Nat /\ u[1] \in Nat /\ t[1] <= u[1] /\ now \in Nat
        BY DEF Tops, TypeOK, Times
    <2> QED
        BY <2>1, <2>2
<1>4. t \in timed /\ t[1] \in Nat /\ now \in Nat
    BY DEF Tops, TypeOK, Times
<1>5. t[1] = due[t[2]]
    BY <1>4 DEF TimelyInv, DeadlinesKept
<1>6. NotEarly'
    <2> SUFFICES ASSUME NEW d \in added, now < due[d]
                 PROVE  <<due[d], d>> \in timed \ {t} \/ d \in misled'
        BY <1>1, <1>2 DEF NotEarly
    <2>1. <<due[d], d>> \in timed \/ d \in misled'
        BY <1>1 DEF TimelyInv, NotEarly
    <2>2. <<due[d], d>>[2] = d
        OBVIOUS
    <2>3. due[d] \in Nat
        BY DEF TypeOK, Times
    <2>4. t = <<due[d], d>> => d \in misled'
        BY <1>1, <1>3, <1>4, <1>5, <2>2, <2>3
    <2> QED
        BY <2>1, <2>4
<1> QED
    BY <1>1, <1>2, <1>6 DEF TimelyInv, DeadlinesKept

LEMMA NextTimely == TypeOK /\ NothingLost /\ TimelyInv /\ [Next]_vars => TimelyInv'
<1> SUFFICES ASSUME TypeOK, NothingLost, TimelyInv, [Next]_vars PROVE TimelyInv'
    OBVIOUS
<1>1. TypeOK' /\ now \in Nat
    <2>1. TypeOK'
        BY NextType
    <2>2. now \in Nat
        BY DEF TypeOK, Times
    <2> QED
        BY <2>1, <2>2
<1>2. ASSUME NEW c \in Closures, Add(c) \/ \E time \in Times : AddAt(c, time)
      PROVE  TimelyInv'
    BY <1>2, AddTimely, AddAtTimely
<1>3. ASSUME NEW w \in Workers, WorkerStep(w) \/ WorkerWakes(w)
      PROVE  TimelyInv'
    <2>1. UNCHANGED <<timed, added, due, now, misled>>
        BY <1>3 DEF WorkerStep, WorkerWakes, WorkerWaits, WorkerExits, WorkerFindsNothing,
                    WorkerTakes, WorkerEnds, heapVars, timerVars, sleepVars, callVars
    <2> QED
        BY <2>1, <1>1, TimelyElsewhere
<1>4. CASE TimerTakes
    BY <1>4, TimerTakesTimely
<1>5. CASE (TimerStep \/ TimerWakes) /\ ~TimerTakes
    <2>1. UNCHANGED <<timed, added, due, now, misled>>
        BY <1>5 DEF TimerStep, TimerWakes, TimerWaits, TimerSleeps, TimerExpires, TimerExits,
                    TimerGoesRound, TimerAdds, heapVars, sleepVars, workerVars, callVars
    <2> QED
        BY <2>1, <1>1, TimelyElsewhere
<1>6. CASE Destroy \/ DestructorStep \/ UNCHANGED vars
    <2>1. UNCHANGED <<timed, added, due, now, misled>>
        BY <1>6 DEF Destroy, DestructorStep, NotifyWorkers, NotifyTimer, Join, vars,
                    heapVars, timerVars, sleepVars, callVars
    <2> QED
        BY <2>1, <1>1, TimelyElsewhere
<1>7. CASE Tick
    <2>1. UNCHANGED <<timed, added, due, misled>> /\ now' = now + 1
        BY <1>7 DEF Tick, heapVars, timerVars, sleepVars, callVars
    <2> QED
        BY <2>1, <1>1, TimelyElsewhere
<1> QED
    BY <1>2, <1>3, <1>4, <1>5, <1>6, <1>7 DEF Next

LEMMA InitTimely == Init => TimelyInv
BY DEF Init, TimelyInv, DeadlinesKept, NotEarly

(* A closure stays in the heap until its deadline, unless the timer thread  *)
(* took it after an add_at had moved the heap under wait_until's reference. *)
THEOREM NoClosureEarly == Spec => []NotEarly
<1>1. Spec => []TypeOK
    BY PoolTypeCorrect
<1>2. Spec => []NothingLost
    BY NoClosureLost
<1>3. TypeOK /\ NothingLost /\ TimelyInv /\ [Next]_vars => TimelyInv'
    BY NextTimely
<1>4. TimelyInv => NotEarly
    BY DEF TimelyInv
<1> QED
    BY <1>1, <1>2, <1>3, <1>4, InitTimely, PTL DEF Spec
=============================================================================
