-------------------------- MODULE MCPackageServer --------------------------
(* Two reader screens one after the other, and two connections. *)
EXTENDS PackageServer

CONSTANTS c1, c2

MCConnections == {c1, c2}
=============================================================================
