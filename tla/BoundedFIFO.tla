---------------------------- MODULE BoundedFIFO ----------------------------
(***************************************************************************)
(* What ring_buffer.h promises of a RingBuffer, with no positions in       *)
(* sight: bytes come out in the order they went in, a read does not remove *)
(* them, and one that asks for more than there is gets the smaller amount. *)
(*                                                                         *)
(* What the code does not keep of it is here too: a write of more than     *)
(* there is room for is not cut to the room, a read of another length than *)
(* there is may leave the memory, and calls that overlap are not ordered   *)
(* by a lock. Each ends the queue (broken), and nothing else does.         *)
(***************************************************************************)
EXTENDS Naturals, Sequences

CONSTANTS
    Capacity,   \* how many bytes it holds
    Bytes,      \* the values of a byte
    MaxCall     \* bound: the longest read or write

VARIABLES
    queue,      \* the bytes, the oldest first
    given,      \* what the last write brought
    asked,      \* the length the last call asked for, if it was a read
    got,        \* what the last read copied
    broken      \* what ended the queue, or "no"

vars == <<queue, given, asked, got, broken>>

Lengths == 1..MaxCall
Data == UNION {[1..n -> Bytes] : n \in Lengths}

Smaller(m, n) == IF m < n THEN m ELSE n
Room == Capacity - Len(queue)

Init ==
    /\ queue = << >>
    /\ given = << >>
    /\ asked = 0
    /\ got = << >>
    /\ broken = "no"

Write(data) ==
    /\ broken = "no"
    /\ Len(data) <= Room
    /\ queue' = queue \o data
    /\ given' = data
    /\ asked' = 0
    /\ UNCHANGED <<got, broken>>

Overfill(data) ==
    /\ broken = "no"
    /\ Len(data) > Room
    /\ broken' \in {"outside", "overfull"}
    /\ queue' = << >>
    /\ given' = data
    /\ asked' = 0
    /\ UNCHANGED got

Read(len) ==
    /\ broken = "no"
    /\ got' = SubSeq(queue, 1, Smaller(len, Len(queue)))
    /\ asked' = len
    /\ UNCHANGED <<queue, given, broken>>

ReadOther(len) ==
    /\ broken = "no"
    /\ queue # << >>
    /\ len # Len(queue)
    /\ broken' = "outside"
    /\ queue' = << >>
    /\ asked' = len
    /\ got' = SubSeq(queue, 1, Smaller(len, Len(queue)))
    /\ UNCHANGED given

Remove(len) ==
    /\ broken = "no"
    /\ len <= Len(queue)
    /\ queue' = SubSeq(queue, len + 1, Len(queue))
    /\ asked' = 0
    /\ UNCHANGED <<given, got, broken>>

Overlap ==
    /\ broken = "no"
    /\ broken' = "raced"
    /\ queue' = << >>
    /\ asked' = 0
    /\ UNCHANGED <<given, got>>

Next ==
    \/ \E data \in Data : Write(data) \/ Overfill(data)
    \/ \E len \in Lengths : Read(len) \/ ReadOther(len) \/ Remove(len)
    \/ Overlap

Spec == Init /\ [][Next]_vars
=============================================================================
