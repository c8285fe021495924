------------------------- MODULE MCTCPRelayHandler -------------------------
(* Instances of TCPRelayHandler for TLC.                                   *)
EXTENDS TCPRelayHandler
=============================================================================
