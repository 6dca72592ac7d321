---------------------------- MODULE MCAudioPlayer ----------------------------
(* Two files and two places in them. *)
EXTENDS AudioPlayer

MCTimes == {0, 1}
=============================================================================
