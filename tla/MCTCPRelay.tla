----------------------------- MODULE MCTCPRelay -----------------------------
(* Instances of TCPRelay for TLC.                                          *)
EXTENDS TCPRelay, TLC

CONSTANTS x1, x2, n1, n2

OwnNames == (x1 :> n1) @@ (x2 :> n2)
SameName == (x1 :> n1) @@ (x2 :> n1)
=============================================================================
