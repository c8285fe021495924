---------------------------- MODULE DNSResolver ----------------------------
(***************************************************************************)
(* asyncdns.py, class DNSResolver: the names being resolved, who waits for *)
(* them, and the queries and replies, which travel by UDP.                 *)
(*                                                                         *)
(* Two address families are asked for in turn: "first" is AAAA and         *)
(* "second" is A where IPv6 works, else the other way round.               *)
(*   status   _hostname_status: the family a name waits for, or "none"     *)
(*   waiters  _hostname_to_cb: the callbacks that wait for a name          *)
(*   hostOf   _cb_to_hostname: the name a callback is registered for       *)
(*   cached   the names in _cache (the address itself does not matter)     *)
(*   zone     the families each name has an address in                     *)
(*   asked    the queries a name server may still answer, once, often (one *)
(*            query goes to every server), late or never                   *)
(*                                                                         *)
(* The callbacks belong to the modules that use the resolver: an operation *)
(* that calls back says whom (Called), and the caller's action does what   *)
(* these callbacks do.                                                     *)
(***************************************************************************)
EXTENDS OrderedKeys, SequencesExt

CONSTANTS Hosts, Callbacks, NoHost,
          Lossy,     \* can queries be lost?
          Zones      \* the sets of families a name may have an address in

Families == {"first", "second"}

ASSUME ResolverAssumption ==
  NoHost \notin Hosts /\ Lossy \in BOOLEAN /\ Zones \subseteq SUBSET Families

VARIABLES status, waiters, hostOf, cached, zone, asked

dnsVars == <<status, waiters, hostOf, cached, zone, asked>>

DnsInit ==
  /\ status = [n \in Hosts |-> "none"]
  /\ waiters = [n \in Hosts |-> <<>>]
  /\ hostOf = [c \in Callbacks |-> NoHost]
  /\ cached = {}
  /\ zone \in [Hosts -> Zones]
  /\ asked = {}

-----------------------------------------------------------------------------
\* resolve, for a name that is not in the cache: the first to wait starts the
\* query; the next ones are added to the list and the query is sent again.
Enqueue(c, n) ==
  /\ n \notin cached
  /\ asked' = asked \cup {<<n, "first">>}
  /\ waiters' = [waiters EXCEPT ![n] = Append(@, c)]
  /\ IF waiters[n] = <<>>
     THEN /\ status' = [status EXCEPT ![n] = "first"]
          /\ hostOf' = [hostOf EXCEPT ![c] = n]
     ELSE UNCHANGED <<status, hostOf>>
  /\ UNCHANGED <<cached, zone>>

\* Mutants: the status of an abandoned name stays; everybody is removed.
RemoveCallbackOnly(c) ==
  LET n == hostOf[c]
  IN IF n = NoHost
     THEN UNCHANGED <<status, waiters, hostOf>>
     ELSE /\ hostOf' = [hostOf EXCEPT ![c] = NoHost]
          /\ waiters' = [waiters EXCEPT ![n] = Del(@, c)]
          /\ UNCHANGED status
RemoveCallbackName(c) ==
  LET n == hostOf[c]
  IN IF n = NoHost
     THEN UNCHANGED <<status, waiters, hostOf>>
     ELSE /\ hostOf' = [hostOf EXCEPT ![c] = NoHost]
          /\ waiters' = [waiters EXCEPT ![n] = <<>>]
          /\ status' = [status EXCEPT ![n] = "none"]

\* remove_callback: the callback is taken out of the list of its name, which
\* holds it once.
RemoveCallback(c) ==
  LET n    == hostOf[c]
      left == Del(waiters[n], c)
  IN IF n = NoHost
     THEN UNCHANGED <<status, waiters, hostOf>>
     ELSE /\ hostOf' = [hostOf EXCEPT ![c] = NoHost]
          /\ waiters' = [waiters EXCEPT ![n] = left]
          /\ status' = [status EXCEPT ![n] = IF left = <<>> THEN "none" ELSE @]

\* _handle_data: how a reply about family f of n is understood.
HasAddress(n, f) == f \in zone[n]
TriesNextFamily(n, f) == ~HasAddress(n, f) /\ status[n] = "first"

\* Mutant: any empty reply to the second question ends the wait, also a late
\* one to the first question.
EndsWaitForAny(n, f) ==
  \/ HasAddress(n, f)
  \/ ~HasAddress(n, f) /\ status[n] = "second"
\* Mutant: only an address ends it.
EndsWaitOnAddress(n, f) == HasAddress(n, f)

EndsWait(n, f) ==
  \/ HasAddress(n, f)
  \/ ~HasAddress(n, f) /\ status[n] = "second" /\ f = "second"

\* The callbacks a reply calls, in order.
Called(n, f) == IF EndsWait(n, f) THEN waiters[n] ELSE <<>>

\* handle_event, _handle_data and _call_callback, apart from what the
\* callbacks do: an address, or a last empty reply, ends the wait of all
\* waiters; a first empty reply makes the resolver ask for the second family.
Answer(n, f) ==
  /\ <<n, f>> \in asked
  /\ cached' = IF HasAddress(n, f) THEN cached \cup {n} ELSE cached
  /\ IF EndsWait(n, f)
     THEN /\ status' = [status EXCEPT ![n] = "none"]
          /\ waiters' = [waiters EXCEPT ![n] = <<>>]
          /\ hostOf' = [c \in Callbacks |->
                          IF c \in ToSet(waiters[n]) THEN NoHost ELSE hostOf[c]]
          /\ UNCHANGED asked
     ELSE /\ UNCHANGED <<waiters, hostOf>>
          /\ IF TriesNextFamily(n, f)
             THEN /\ status' = [status EXCEPT ![n] = "second"]
                  /\ asked' = asked \cup {<<n, "second">>}
             ELSE UNCHANGED <<status, asked>>
  /\ UNCHANGED zone

\* A query or its replies are lost.
Lose(n, f) ==
  /\ Lossy /\ <<n, f>> \in asked
  /\ asked' = asked \ {<<n, f>>}
  /\ UNCHANGED <<status, waiters, hostOf, cached, zone>>

\* handle_periodic: a name leaves the cache when it is old.
SweepCache(n) ==
  /\ n \in cached
  /\ cached' = cached \ {n}
  /\ UNCHANGED <<status, waiters, hostOf, zone, asked>>

-----------------------------------------------------------------------------
DnsTypeOK ==
  /\ status \in [Hosts -> Families \cup {"none"}]
  /\ waiters \in [Hosts -> Seq(Callbacks)]
  /\ hostOf \in [Callbacks -> Hosts \cup {NoHost}]
  /\ cached \subseteq Hosts
  /\ zone \in [Hosts -> Zones]
  /\ asked \subseteq Hosts \X Families
=============================================================================
