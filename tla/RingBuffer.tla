----------------------------- MODULE RingBuffer -----------------------------
(***************************************************************************)
(* RingBuffer of the SDK: a fixed block of memory with a position to read  *)
(* from, one to write to, and the number of bytes between them.            *)
(*                                                                         *)
(* The thread of the streams calls it under its lock and with lengths that *)
(* fit. The client of a stream does neither: it passes the length it was   *)
(* asked for, and its call may overlap one of the other thread             *)
(* (byte_stream.cpp:149-172). So every length is allowed here. A call is   *)
(* one step, and two that overlap are another. What cannot be followed     *)
(* further ends everything (broken): a memcpy that leaves either block,    *)
(* a write over bytes not read yet, and two calls that raced.              *)
(***************************************************************************)
EXTENDS Naturals, Sequences

CONSTANTS
    Capacity,   \* _capacity
    Bytes,      \* the values of a byte
    MaxCall     \* bound: the longest read or write

ASSUME RingAssumption ==
    /\ Capacity \in Nat \ {0}
    /\ MaxCall \in Nat
    /\ Bytes # {}

VARIABLES
    slots,      \* _buffer
    numBytes,   \* _numBytes
    readPos,    \* _readPos
    writePos,   \* _writePos
    given,      \* what the last WriteBytes was called with
    asked,      \* the length the last call asked for, if it was ReadBytes
    got,        \* what the last ReadBytes left in the caller's buffer
    broken      \* what ended everything: "no", or "outside" (a memcpy left
                \* its memory), "overfull" (it went over unread bytes),
                \* "raced" (two calls overlapped)

ringVars == <<slots, numBytes, readPos, writePos, given, asked, got, broken>>

Places == 0..(Capacity - 1)
Lengths == 1..MaxCall
Data == UNION {[1..n -> Bytes] : n \in Lengths}

Smaller(m, n) == IF m < n THEN m ELSE n
Wrapped(p) == IF p >= Capacity THEN p - Capacity ELSE p

SpaceAvailable == Capacity - numBytes

(* The bytes between the positions, the oldest first; nothing is said of   *)
(* them once something broke.                                              *)
Content ==
    IF broken = "no"
    THEN [i \in 1..numBytes |-> slots[Wrapped(readPos + i - 1)]]
    ELSE << >>

RingInit ==
    /\ slots \in [Places -> Bytes]
    /\ numBytes = 0
    /\ readPos = 0
    /\ writePos = 0
    /\ given = << >>
    /\ asked = 0
    /\ got = << >>
    /\ broken = "no"

(* memcpy(&_buffer[to], &data[from], n) *)
Copied(memory, to, data, from, n) ==
    [p \in DOMAIN memory |->
        IF to <= p /\ p < to + n THEN data[from + p - to + 1] ELSE memory[p]]

(* The branch that wraps moves all bytes up to the end of the block, wanted *)
(* or not, and then len minus those; the other one moves len from readPos.  *)
ReadsOutside(len) ==
    IF readPos < writePos
    THEN readPos + len > Capacity
    ELSE len < Capacity - readPos \/ len > Capacity - readPos + Capacity

(* The result of the call is the smaller of len and the bytes there are;   *)
(* memcpy is passed len.                                                   *)
ReadBytes(len) ==
    /\ broken = "no"
    /\ asked' = len
    /\ got' = SubSeq(Content, 1, Smaller(len, numBytes))
    /\ broken' = IF numBytes # 0 /\ ReadsOutside(len) THEN "outside" ELSE "no"
    /\ UNCHANGED <<slots, numBytes, readPos, writePos, given>>

(* What a write of len bytes breaks that leaves the block, or does not. *)
Breaks(len, leaves) ==
    IF leaves THEN "outside"
    ELSE IF len > SpaceAvailable THEN "overfull" ELSE "no"

(* Mutant: a write that ends at the end of the block leaves the position   *)
(* there.                                                                  *)
WriteThroughStays(data) ==
    /\ slots' = Copied(slots, writePos, data, 0, Len(data))
    /\ writePos' = writePos + Len(data)
    /\ broken' = Breaks(Len(data), writePos + Len(data) > Capacity)

(* Where a write that does not wrap ends, and what it leaves. *)
WriteThrough(data) ==
    /\ slots' = Copied(slots, writePos, data, 0, Len(data))
    /\ writePos' = IF writePos + Len(data) = Capacity
                   THEN 0 ELSE writePos + Len(data)
    /\ broken' = Breaks(Len(data), writePos + Len(data) > Capacity)

(* Mutant: the second memcpy starts at the first byte of the data again. *)
WriteAroundFromStart(data) ==
    LET tail == Capacity - writePos
        rest == Len(data) - tail
    IN  /\ slots' = Copied(Copied(slots, writePos, data, 0, tail),
                           0, data, 0, rest)
        /\ writePos' = IF rest = Capacity THEN 0 ELSE rest
        /\ broken' = Breaks(Len(data), rest > Capacity)

WriteAround(data) ==
    LET tail == Capacity - writePos
        rest == Len(data) - tail
    IN  /\ slots' = Copied(Copied(slots, writePos, data, 0, tail),
                           0, data, tail, rest)
        /\ writePos' = IF rest = Capacity THEN 0 ELSE rest
        /\ broken' = Breaks(Len(data), rest > Capacity)

(* Mutant: equal positions are taken for a buffer whose end is in use. *)
WriteBytesThroughEqual(data) ==
    /\ broken = "no"
    /\ SpaceAvailable > 0
    /\ IF writePos <= readPos \/ Capacity - writePos >= Len(data)
       THEN WriteThrough(data)
       ELSE WriteAround(data)
    /\ numBytes' = numBytes + Len(data)
    /\ given' = data
    /\ asked' = 0
    /\ UNCHANGED <<readPos, got>>

(* All of data goes in, whatever room there is; the result of the call is  *)
(* the smaller amount.                                                     *)
WriteBytes(data) ==
    /\ broken = "no"
    /\ SpaceAvailable > 0
    /\ IF writePos < readPos \/ Capacity - writePos >= Len(data)
       THEN WriteThrough(data)
       ELSE WriteAround(data)
    /\ numBytes' = numBytes + Len(data)
    /\ given' = data
    /\ asked' = 0
    /\ UNCHANGED <<readPos, got>>

(* The header leaves the result undefined when there are fewer bytes. *)
RemoveBytes(len) ==
    /\ broken = "no"
    /\ len <= numBytes
    /\ readPos' = Wrapped(readPos + len)
    /\ numBytes' = numBytes - len
    /\ asked' = 0
    /\ UNCHANGED <<slots, writePos, given, got, broken>>

(* The client's call overlaps one of the I/O thread: the lock is taken by  *)
(* one of them only, and what either reads or leaves is undefined.         *)
Overlap ==
    /\ broken = "no"
    /\ asked' = 0
    /\ broken' = "raced"
    /\ UNCHANGED <<slots, numBytes, readPos, writePos, given, got>>

RingNext ==
    \/ \E data \in Data : WriteBytes(data)
    \/ \E len \in Lengths : ReadBytes(len) \/ RemoveBytes(len)
    \/ Overlap

RingSpec == RingInit /\ [][RingNext]_ringVars
-----------------------------------------------------------------------------
(* _capacity bytes of memory and a position to read from inside it; while  *)
(* nothing broke, never more bytes than it holds.                          *)
RingTypeOK ==
    /\ slots \in [Places -> Bytes]
    /\ numBytes \in Nat
    /\ readPos \in Places
    /\ writePos \in Nat
    /\ given \in Seq(Bytes)
    /\ asked \in Nat
    /\ got \in Seq(Bytes)
    /\ broken \in {"no", "outside", "overfull", "raced"}
    /\ broken = "no" => numBytes <= Capacity /\ writePos \in Places

(* Equal positions mean empty or full, and nothing else than _numBytes     *)
(* tells the two apart: it must always be the distance between the         *)
(* positions, through every wrap of either (ring_buffer.cpp, WriteBytes    *)
(* and RemoveBytes), as long as no write went over bytes not read yet and  *)
(* no two calls overlapped.                                                *)
PositionsAgree == broken = "no" => writePos = Wrapped(readPos + numBytes)

(* The header allows any length: "if not enough bytes are available, a     *)
(* smaller amount will be copied". The code keeps that promise for the     *)
(* result of a call and not for its memcpy, so the memory is left; but     *)
(* only ever by a read of another length than the bytes there are, or by a *)
(* write of more than there is room for. What the I/O thread passes, all   *)
(* the bytes there are and no more than the room, stays inside through     *)
(* every wrap (byte_stream.cpp:278-300).                                   *)
StaysInMemory ==
    [][broken' = "outside" =>
           IF asked' = 0
           THEN Len(given') > SpaceAvailable
           ELSE asked' # numBytes]_ringVars

(* The buffer is the queue of bytes the header describes, for every length *)
(* and through every wrap, until one of the three things that break it;    *)
(* which calls can is part of BoundedFIFO.                                 *)
Queue == INSTANCE BoundedFIFO WITH queue <- Content
QueueOfBytes == Queue!Spec
=============================================================================
