------------------------- MODULE MCAQHTTPConnection -------------------------
(* Two requests; the second one's operation ends with a forced close. *)
EXTENDS AQHTTPConnection

MCMissing == {}
MCFatal == {2}
=============================================================================
