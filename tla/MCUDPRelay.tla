---------------------------- MODULE MCUDPRelay ----------------------------
(* Three client keys and two descriptors: caches of one entry each can use them up. *)
EXTENDS UDPRelay
=============================================================================
