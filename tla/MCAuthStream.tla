---------------------------- MODULE MCAuthStream ----------------------------
(* A small instance of AuthStream for TLC.                                 *)
EXTENDS AuthStream
=============================================================================
