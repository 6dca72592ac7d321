----------------------------- MODULE WriteQueue -----------------------------
(***************************************************************************)
(* What AQSocket.h promises of -writeBytes:completion:, with no thread,    *)
(* semaphore or kernel in sight: a write is accepted while the socket is   *)
(* open, the accepted writes form one ordered queue, and each of them is   *)
(* settled (its completion handler runs) once, in the order of acceptance. *)
(*                                                                         *)
(* A write is known by its position in the order of acceptance.            *)
(***************************************************************************)
EXTENDS Naturals, Sequences

VARIABLES
    open,       \* the socket still takes writes
    accepted,   \* how many writes were accepted
    settled     \* the writes that were settled, in the order they were

vars == <<open, accepted, settled>>

Init ==
    /\ open = TRUE
    /\ accepted = 0
    /\ settled = << >>

(* Nothing is accepted once the socket is closed. *)
Accept ==
    /\ open
    /\ accepted' = accepted + 1
    /\ UNCHANGED <<open, settled>>

Settle ==
    /\ Len(settled) < accepted
    /\ settled' = Append(settled, Len(settled) + 1)
    /\ UNCHANGED <<open, accepted>>

Close ==
    /\ open
    /\ open' = FALSE
    /\ UNCHANGED <<accepted, settled>>

Next == Accept \/ Settle \/ Close

Spec == Init /\ [][Next]_vars
=============================================================================
