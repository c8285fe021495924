---------------------------- MODULE ClientQueue ----------------------------
(***************************************************************************)
(* obfsplugin/auth.py and auth_chain.py, class client_queue: the window of *)
(* connection ids one client may still use.  A queue is a value here;      *)
(* AuthData.tla holds one per client.                                      *)
(*                                                                         *)
(*   front  every id below it is refused (used, or too old)                *)
(*   back   one more than the largest id accepted                          *)
(*   alloc  the accepted ids that are at or above front                    *)
(*   age    time.time() - last_update, kept only up to ActiveTime: the     *)
(*          code compares it with ActiveTime and does nothing else with it *)
(*   ref    auth_chain only: the connections that are counted              *)
(*                                                                         *)
(* The attribute enable is set to True and never to anything else, so the  *)
(* queue is always enabled.                                                *)
(***************************************************************************)
EXTENDS Integers

CONSTANTS Lookback,     \* 64: a new window starts this far below its first id
          MaxJump,      \* 0x4000: an id further above front is refused
          MaxWindow,    \* 0x1000: front never trails back by more
          ActiveTime    \* 60 * 3, in auth_chain 60 * 10: a queue not updated
                        \* for so long is inactive

VARIABLE class          \* which file's class it is: "auth" or "chain"

ASSUME WindowAssumption ==
  /\ Lookback \in Nat /\ MaxJump \in Nat /\ MaxWindow \in Nat
  /\ ActiveTime \in Nat \ {0}
  /\ Lookback < MaxWindow
  /\ MaxWindow <= MaxJump

Queues(Ids) ==
  [front : Int, back : Int, alloc : SUBSET Ids, age : 0..ActiveTime,
   ref : Nat]

\* __init__
NewQueue(id) ==
  [front |-> id - Lookback, back |-> id + 1, alloc |-> {}, age |-> 0,
   ref |-> 0]

\* re_enable, and the update() that follows it: ref stays.
Reopened(q, id) == [NewQueue(id) EXCEPT !.ref = q.ref]

IsActive(q) == q.age < ActiveTime /\ (class = "chain" => q.ref > 0)

\* addref, delref
AddRef(q) == IF class = "chain" THEN [q EXCEPT !.ref = @ + 1] ELSE q
DelRef(q) == IF q.ref > 0 THEN [q EXCEPT !.ref = @ - 1] ELSE q

\* Mutant: the duplicate check is missing.
AcceptsDuplicates(q, id) == q.front <= id /\ id <= q.front + MaxJump

Accepts(q, id) ==
  /\ q.front <= id
  /\ id <= q.front + MaxJump
  /\ id \notin q.alloc

\* Mutants: front stays put until its id is used; the window is one short.
MovesOverUsed(f, alloc, back) == f \in alloc
MovesOverEarly(f, alloc, back) == f \in alloc \/ f + MaxWindow <= back

\* The places the while loop of insert moves front over.
MovesOver(f, alloc, back) == f \in alloc \/ f + MaxWindow < back

\* The window insert leaves when it accepts id into q: the loop stops at the
\* first place it does not move over, which is at most back.  (A set of one
\* element, so that a proof need not show the loop ends.)
Inserted(q, id) ==
  LET back  == IF q.back <= id THEN id + 1 ELSE q.back
      alloc == q.alloc \cup {id}
  IN {[front |-> f, back |-> back, age |-> q.age, ref |-> q.ref,
       alloc |-> {x \in alloc : x >= f}] :
        f \in {g \in q.front..back :
                 /\ ~MovesOver(g, alloc, back)
                 /\ \A h \in q.front..(g - 1) : MovesOver(h, alloc, back)}}
=============================================================================
