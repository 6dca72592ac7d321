----------------------------- MODULE MCAQSocket -----------------------------
(* A socket with two response threads and one closer besides the queue's own. *)
EXTENDS AQSocket

CONSTANTS w1, w2, c1, q

MCWriters == {w1, w2}
MCClosers == {c1}
=============================================================================
