------------------------------ MODULE Channel -------------------------------
(***************************************************************************)
(* What a protocol plugin promises the relay about one direction of a      *)
(* connection: the receiver sees a prefix of what the sender was given; at *)
(* any time it may fail for good; and as long as it has seen nothing it    *)
(* may decide that this is no such connection and leave the protocol.      *)
(*                                                                         *)
(*   given   what the sender's application has handed over                 *)
(*   got     what the receiver's application has been handed               *)
(*   mode    "open", "failed" or "left"                                    *)
(***************************************************************************)
EXTENDS Sequences, SequencesExt

VARIABLES given, got, mode

vars == <<given, got, mode>>

Init == given = <<>> /\ got = <<>> /\ mode = "open"

Give ==
  /\ IsStrictPrefix(given, given')
  /\ UNCHANGED <<got, mode>>

Get ==
  /\ mode = "open"
  /\ IsStrictPrefix(got, got')
  /\ IsPrefix(got', given)
  /\ UNCHANGED <<given, mode>>

Fail ==
  /\ mode = "open"
  /\ mode' = "failed"
  /\ UNCHANGED <<given, got>>

Leave ==
  /\ mode = "open"
  /\ got = <<>>
  /\ mode' = "left"
  /\ UNCHANGED <<given, got>>

Next == Give \/ Get \/ Fail \/ Leave

Spec == Init /\ [][Next]_vars
=============================================================================
