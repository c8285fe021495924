----------------------------- MODULE MCAuthData -----------------------------
(* Small instances of AuthData for TLC.                                    *)
EXTENDS AuthData, FiniteSets, TLC

\* Clients are interchangeable: nothing in AuthData compares them.
ClientSymmetry == Permutations(Clients)

\* The loop of client_queue.insert stops, and in one place: Inserted has one
\* element for every window of the size of this instance and every id that it
\* accepts.
ASSUME LoopEnds ==
  \A back \in 0..MaxWindow :
    \A alloc \in SUBSET (1..(back - 1)), id \in 0..MaxJump :
      LET q == [front |-> 0, back |-> back, alloc |-> alloc, age |-> 0,
            ref |-> 0]
      IN Accepts(q, id) => Cardinality(Inserted(q, id)) = 1
=============================================================================
