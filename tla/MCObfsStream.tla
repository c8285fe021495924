---------------------------- MODULE MCObfsStream ----------------------------
(* A small instance of ObfsStream for TLC.                                 *)
EXTENDS ObfsStream
=============================================================================
