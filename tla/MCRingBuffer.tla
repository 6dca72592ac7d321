---------------------------- MODULE MCRingBuffer ----------------------------
(* A buffer of a few bytes, so that every wrap of both positions happens. *)
EXTENDS RingBuffer

MCBytes == {0, 1}
=============================================================================
