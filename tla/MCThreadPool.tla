---------------------------- MODULE MCThreadPool ----------------------------
(* A pool of two workers, two closures and a clock of two ticks. *)
EXTENDS ThreadPool

CONSTANTS w1, w2, a, b

MCWorkers == {w1, w2}
MCClosures == {a, b}
=============================================================================
