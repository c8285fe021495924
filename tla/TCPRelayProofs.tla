--------------------------- MODULE TCPRelayProofs ---------------------------
(* Theorems about the two modules built on DNSResolver.  DNSClients: the   *)
(* resolver's tables agree, no waiting client is forgotten and no error is *)
(* wrong, for every set of names and of clients and whatever queries are   *)
(* lost.  TCPRelay: its tables agree for every set of connections, of      *)
(* descriptors and of names, and whatever the round has in store.          *)
EXTENDS TCPRelay, DNSClients, SequenceLemmas, FiniteSetTheorems

-----------------------------------------------------------------------------
(* The resolver and its clients.                                           *)

\* The lists: a client stands in none twice, and only in the one of the name
\* it asked for.
ClientListsInv ==
  \A n \in Hosts :
    /\ Ordered(waiters[n])
    /\ \A c \in Keys(waiters[n]) : client[c] # "idle" /\ wanted[c] = n

\* The tables: a name is being resolved while somebody waits for it; who is
\* registered, and who waits, is in the list.
TablesInv ==
  /\ \A n \in Hosts : status[n] = "none" <=> waiters[n] = <<>>
  /\ \A c \in Callbacks :
       /\ hostOf[c] # NoHost => c \in Keys(waiters[hostOf[c]])
       /\ client[c] = "waiting" =>
            wanted[c] \in Hosts /\ c \in Keys(waiters[wanted[c]])

\* The second family is asked for, and waited for, only where the first has
\* no address: also a late reply to an earlier question says so.
FamiliesInv ==
  \A n \in Hosts :
    status[n] = "second" \/ <<n, "second">> \in asked => "first" \notin zone[n]

ClientsInv == ClientsTypeOK /\ ClientListsInv /\ TablesInv /\ FamiliesInv

-----------------------------------------------------------------------------
\* The callbacks in a list are those that stand in it.
LEMMA ToSetIsKeys ==
  ASSUME NEW S, NEW s \in Seq(S) PROVE ToSet(s) = Keys(s)
BY DEF ToSet, Keys

\* An empty list has no members, any other one has.
LEMMA EmptyKeys ==
  ASSUME NEW S, NEW s \in Seq(S)
  PROVE  /\ Keys(s) = {} <=> s = <<>>
         /\ Keys(s) \subseteq S
<1>1. ASSUME s # <<>> PROVE s[1] \in Keys(s)
  BY <1>1 DEF Keys
<1>2. \A i \in 1..Len(s) : s[i] \in S
  OBVIOUS
<1>3. ASSUME s = <<>> PROVE Keys(s) = {}
  BY <1>3 DEF Keys
<1>4. Keys(s) \subseteq S
  BY <1>2 DEF Keys
<1> QED
  BY <1>1, <1>3, <1>4

\* At first nobody waits.
LEMMA ClientsInitInv == ClientsInit => ClientsInv
<1> SUFFICES ASSUME ClientsInit PROVE ClientsInv
  OBVIOUS
<1> USE ResolverAssumption
<1>1. ClientsTypeOK
  <2>1. <<>> \in Seq(Callbacks)
    OBVIOUS
  <2>2. DnsTypeOK
    BY <2>1 DEF ClientsInit, DnsInit, DnsTypeOK
  <2> QED
    BY <2>2 DEF ClientsInit, ClientsTypeOK
<1>2. \A n \in Hosts : waiters[n] = <<>> /\ Keys(waiters[n]) = {}
  BY EmptyKeys DEF ClientsInit, DnsInit, Keys
<1>3. ClientListsInv
  BY <1>2 DEF ClientListsInv, Ordered
<1>4. TablesInv
  BY <1>2 DEF ClientsInit, DnsInit, TablesInv
<1>5. FamiliesInv
  BY DEF ClientsInit, DnsInit, FamiliesInv
<1> QED
  BY <1>1, <1>3, <1>4, <1>5 DEF ClientsInv

\* A client that starts to wait was in no list.
LEMMA ResolveInv ==
  ASSUME ClientsInv, NEW c \in Callbacks, NEW n \in Hosts, Resolve(c, n)
  PROVE  ClientsInv'
<1> USE ResolverAssumption
<1>t. /\ status \in [Hosts -> Families \cup {"none"}]
      /\ waiters \in [Hosts -> Seq(Callbacks)]
      /\ hostOf \in [Callbacks -> Hosts \cup {NoHost}]
      /\ client \in [Callbacks -> {"idle", "waiting", "answered", "left"}]
      /\ wanted \in [Callbacks -> Hosts \cup {NoHost}]
  BY DEF ClientsInv, ClientsTypeOK, DnsTypeOK
<1>0. /\ client[c] = "idle" /\ wanted' = [wanted EXCEPT ![c] = n]
      /\ \A m \in Hosts : c \notin Keys(waiters[m])
      /\ ClientListsInv /\ TablesInv /\ FamiliesInv
  BY DEF Resolve, ClientsInv, ClientListsInv
<1>1. CASE /\ client' = [client EXCEPT ![c] = "answered"]
           /\ UNCHANGED dnsVars
  <2>1. ClientsTypeOK'
    BY <1>1 DEF Resolve, ClientsInv, ClientsTypeOK, DnsTypeOK, dnsVars
  <2>2. ClientListsInv'
    BY <1>t, <1>0, <1>1, EmptyKeys DEF ClientListsInv, dnsVars
  <2>3. TablesInv'
    BY <1>t, <1>0, <1>1 DEF TablesInv, dnsVars
  <2>4. FamiliesInv'
    BY <1>0, <1>1 DEF FamiliesInv, dnsVars
  <2> QED
    BY <2>1, <2>2, <2>3, <2>4 DEF ClientsInv
<1>2. CASE Enqueue(c, n) /\ client' = [client EXCEPT ![c] = "waiting"]
  <2>1. /\ waiters'[n] = Append(waiters[n], c)
        /\ \A m \in Hosts \ {n} : waiters'[m] = waiters[m]
    BY <1>t, <1>2 DEF Enqueue
  <2>2. /\ waiters'[n] \in Seq(Callbacks) /\ Ordered(waiters'[n])
        /\ Keys(waiters'[n]) = Keys(waiters[n]) \cup {c}
        /\ Len(waiters'[n]) = Len(waiters[n]) + 1
    BY <1>t, <1>0, <2>1, AppendKey DEF ClientListsInv
  <2>3. waiters'[n] # <<>>
    BY <1>t, <2>2
  <2>4. ClientsTypeOK'
    <3>1. waiters' \in [Hosts -> Seq(Callbacks)]
      BY <1>t, <1>2, <2>1, <2>2 DEF Enqueue
    <3>2. /\ status' \in [Hosts -> Families \cup {"none"}]
          /\ hostOf' \in [Callbacks -> Hosts \cup {NoHost}]
      <4>1. CASE waiters[n] = <<>>
        <5>1. /\ status' = [status EXCEPT ![n] = "first"]
              /\ hostOf' = [hostOf EXCEPT ![c] = n]
          BY <1>2, <4>1 DEF Enqueue
        <5>2. "first" \in Families
          BY DEF Families
        <5> QED
          BY <1>t, <5>1, <5>2
      <4>2. CASE waiters[n] # <<>>
        BY <1>t, <1>2, <4>2 DEF Enqueue
      <4> QED
        BY <4>1, <4>2
    <3>3. asked' \subseteq Hosts \X Families
      <4>1. asked \subseteq Hosts \X Families /\ <<n, "first">> \in Hosts \X Families
        BY DEF Families, ClientsInv, ClientsTypeOK, DnsTypeOK
      <4> QED
        BY <1>2, <4>1 DEF Enqueue
    <3> QED
      BY <1>t, <1>2, <3>1, <3>2, <3>3
         DEF Resolve, Enqueue, ClientsInv, ClientsTypeOK, DnsTypeOK
  <2>5. ClientListsInv'
    <3>1. ASSUME NEW m \in Hosts
          PROVE  /\ Ordered(waiters'[m])
                 /\ \A d \in Keys(waiters'[m]) : client'[d] # "idle" /\ wanted'[d] = m
      <4>1. Keys(waiters[m]) \subseteq Callbacks
        BY <1>t, EmptyKeys
      <4>2. \A d \in Keys(waiters[m]) : client'[d] # "idle" /\ wanted'[d] = m
        BY <1>t, <1>0, <1>2, <4>1 DEF ClientListsInv
      <4>3. client'[c] # "idle" /\ wanted'[c] = n
        BY <1>t, <1>0, <1>2
      <4>4. CASE m = n
        BY <2>2, <4>2, <4>3, <4>4
      <4>5. CASE m # n
        BY <1>0, <2>1, <4>2, <4>5 DEF ClientListsInv
      <4> QED
        BY <4>4, <4>5
    <3> QED
      BY <3>1 DEF ClientListsInv
  <2>6. \A m \in Hosts : Keys(waiters[m]) \subseteq Keys(waiters'[m])
    BY <2>1, <2>2
  <2>7. TablesInv'
    <3>1. \A m \in Hosts : status'[m] = "none" <=> waiters'[m] = <<>>
      BY <1>t, <1>0, <1>2, <2>1, <2>3 DEF TablesInv, Enqueue
    <3>2. ASSUME NEW d \in Callbacks, hostOf'[d] # NoHost
          PROVE  d \in Keys(waiters'[hostOf'[d]])
      <4>1. hostOf'[d] = hostOf[d] \/ (d = c /\ hostOf'[d] = n)
        BY <1>t, <1>2 DEF Enqueue
      <4> QED
        BY <1>t, <1>0, <2>2, <2>6, <3>2, <4>1 DEF TablesInv
    <3>3. ASSUME NEW d \in Callbacks, client'[d] = "waiting"
          PROVE  wanted'[d] \in Hosts /\ d \in Keys(waiters'[wanted'[d]])
      BY <1>t, <1>0, <1>2, <2>2, <2>6, <3>3 DEF TablesInv
    <3> QED
      BY <3>1, <3>2, <3>3 DEF TablesInv
  <2>8. FamiliesInv'
    BY <1>t, <1>0, <1>2 DEF FamiliesInv, Enqueue
  <2> QED
    BY <2>4, <2>5, <2>7, <2>8 DEF ClientsInv
<1> QED
  BY <1>1, <1>2 DEF Resolve

\* remove_callback takes out one client and leaves the others where they are.
LEMMA LeaveInv ==
  ASSUME ClientsInv, NEW c \in Callbacks, Leave(c)
  PROVE  ClientsInv'
<1> USE ResolverAssumption
<1>t. /\ status \in [Hosts -> Families \cup {"none"}]
      /\ waiters \in [Hosts -> Seq(Callbacks)]
      /\ hostOf \in [Callbacks -> Hosts \cup {NoHost}]
      /\ client \in [Callbacks -> {"idle", "waiting", "answered", "left"}]
      /\ wanted \in [Callbacks -> Hosts \cup {NoHost}]
  BY DEF ClientsInv, ClientsTypeOK, DnsTypeOK
<1>0. /\ client' = [client EXCEPT ![c] = "left"] /\ client[c] = "waiting"
      /\ UNCHANGED <<wanted, zone, asked, cached, lost>>
      /\ ClientListsInv /\ TablesInv /\ FamiliesInv
  BY DEF Leave, ClientsInv
<1>1. CASE hostOf[c] = NoHost
  <2>0. UNCHANGED <<status, waiters, hostOf>>
    BY <1>1 DEF Leave, RemoveCallback
  <2>1. ClientsTypeOK'
    BY <2>0, <1>0 DEF ClientsInv, ClientsTypeOK, DnsTypeOK
  <2>2. ClientListsInv'
    BY <1>t, <1>0, <2>0, EmptyKeys DEF ClientListsInv
  <2>3. TablesInv'
    BY <1>t, <1>0, <2>0 DEF TablesInv
  <2>4. FamiliesInv'
    BY <1>0, <2>0 DEF FamiliesInv
  <2> QED
    BY <2>1, <2>2, <2>3, <2>4 DEF ClientsInv
<1>2. CASE hostOf[c] # NoHost
  <2> DEFINE n == hostOf[c]
  <2>0. /\ n \in Hosts /\ c \in Keys(waiters[n])
        /\ hostOf' = [hostOf EXCEPT ![c] = NoHost]
        /\ waiters' = [waiters EXCEPT ![n] = Del(waiters[n], c)]
        /\ status' = [status EXCEPT ![n] =
                        IF Del(waiters[n], c) = <<>> THEN "none" ELSE @]
    BY <1>t, <1>0, <1>2 DEF Leave, RemoveCallback, TablesInv
  <2> HIDE DEF n
  <2>1. /\ waiters'[n] = Del(waiters[n], c)
        /\ \A m \in Hosts \ {n} : waiters'[m] = waiters[m]
    BY <1>t, <2>0
  <2>2. /\ waiters'[n] \in Seq(Callbacks) /\ Ordered(waiters'[n])
        /\ Keys(waiters'[n]) = Keys(waiters[n]) \ {c}
    BY <1>t, <1>0, <2>0, <2>1, DelKey DEF ClientListsInv
  <2>3. ClientsTypeOK'
    <3>1. waiters' \in [Hosts -> Seq(Callbacks)]
      BY <1>t, <2>0, <2>1, <2>2
    <3>2. /\ status' \in [Hosts -> Families \cup {"none"}]
          /\ hostOf' \in [Callbacks -> Hosts \cup {NoHost}]
      BY <1>t, <2>0
    <3> QED
      BY <1>t, <1>0, <3>1, <3>2 DEF ClientsInv, ClientsTypeOK, DnsTypeOK
  <2>4. ASSUME NEW m \in Hosts
        PROVE  /\ Ordered(waiters'[m])
               /\ Keys(waiters'[m]) \subseteq Keys(waiters[m])
               /\ Keys(waiters[m]) \ {c} \subseteq Keys(waiters'[m])
    BY <1>0, <2>0, <2>1, <2>2 DEF ClientListsInv
  <2>5. ClientListsInv'
    <3>1. ASSUME NEW m \in Hosts, NEW d \in Keys(waiters'[m])
          PROVE  client'[d] # "idle" /\ wanted'[d] = m
      <4>1. d \in Keys(waiters[m]) /\ d \in Callbacks
        BY <1>t, <2>4, EmptyKeys
      <4> QED
        BY <1>t, <1>0, <4>1 DEF ClientListsInv
    <3> QED
      BY <2>4, <3>1 DEF ClientListsInv
  <2>6. TablesInv'
    <3>1. \A m \in Hosts : status'[m] = "none" <=> waiters'[m] = <<>>
      <4>1. waiters[n] # <<>>
        BY <1>t, <2>0, EmptyKeys
      <4>2. status'[n] = "none" <=> waiters'[n] = <<>>
        BY <1>t, <1>0, <2>0, <2>1, <4>1 DEF TablesInv
      <4> QED
        BY <1>t, <1>0, <2>0, <2>1, <4>2 DEF TablesInv
    <3>2. ASSUME NEW d \in Callbacks, hostOf'[d] # NoHost
          PROVE  d \in Keys(waiters'[hostOf'[d]])
      <4>1. d # c /\ hostOf'[d] = hostOf[d] /\ hostOf[d] \in Hosts
        BY <1>t, <2>0, <3>2
      <4> QED
        BY <1>0, <2>4, <3>2, <4>1 DEF TablesInv
    <3>3. ASSUME NEW d \in Callbacks, client'[d] = "waiting"
          PROVE  wanted'[d] \in Hosts /\ d \in Keys(waiters'[wanted'[d]])
      <4>1. d # c /\ client[d] = "waiting"
        BY <1>t, <1>0, <3>3
      <4> QED
        BY <1>0, <2>4, <4>1 DEF TablesInv
    <3> QED
      BY <3>1, <3>2, <3>3 DEF TablesInv
  <2>7. FamiliesInv'
    BY <1>t, <1>0, <2>0 DEF FamiliesInv
  <2> QED
    BY <2>3, <2>5, <2>6, <2>7 DEF ClientsInv
<1> QED
  BY <1>1, <1>2

\* A reply ends the wait of all or of nobody.
LEMMA ClientReplyInv ==
  ASSUME ClientsInv, NEW n \in Hosts, NEW f \in Families, Reply(n, f)
  PROVE  ClientsInv'
<1> USE ResolverAssumption
<1>t. /\ status \in [Hosts -> Families \cup {"none"}]
      /\ waiters \in [Hosts -> Seq(Callbacks)]
      /\ hostOf \in [Callbacks -> Hosts \cup {NoHost}]
      /\ client \in [Callbacks -> {"idle", "waiting", "answered", "left"}]
      /\ wanted \in [Callbacks -> Hosts \cup {NoHost}]
      /\ cached \subseteq Hosts /\ asked \subseteq Hosts \X Families
      /\ zone \in [Hosts -> Zones] /\ lost \in BOOLEAN
  BY DEF ClientsInv, ClientsTypeOK, DnsTypeOK
<1>0. /\ UNCHANGED <<wanted, zone, lost>> /\ <<n, f>> \in asked
      /\ cached' \subseteq Hosts
      /\ ClientListsInv /\ TablesInv /\ FamiliesInv
  BY <1>t DEF Reply, Answer, ClientsInv
<1>1. CASE EndsWait(n, f)
  <2>0. /\ status' = [status EXCEPT ![n] = "none"]
        /\ waiters' = [waiters EXCEPT ![n] = <<>>]
        /\ hostOf' = [c \in Callbacks |->
                        IF c \in Keys(waiters[n]) THEN NoHost ELSE hostOf[c]]
        /\ client' = [c \in Callbacks |->
                        IF c \in Keys(waiters[n]) /\ client[c] = "waiting"
                        THEN "answered" ELSE client[c]]
        /\ asked' = asked
    BY <1>t, <1>1, ToSetIsKeys DEF Reply, Answer, Called
  <2>1. waiters'[n] = <<>> /\ \A m \in Hosts \ {n} : waiters'[m] = waiters[m]
    BY <1>t, <2>0
  <2>2. Keys(waiters'[n]) = {} /\ Ordered(waiters'[n])
    BY <2>1 DEF Keys, Ordered
  <2>3. ClientsTypeOK'
    BY <1>t, <1>0, <2>0 DEF ClientsTypeOK, DnsTypeOK
  <2>4. ClientListsInv'
    <3>1. ASSUME NEW m \in Hosts, NEW d \in Keys(waiters'[m])
          PROVE  client'[d] # "idle" /\ wanted'[d] = m
      <4>1. d \in Keys(waiters[m]) /\ d \in Callbacks
        BY <1>t, <2>1, <2>2, EmptyKeys
      <4> QED
        BY <1>t, <1>0, <2>0, <4>1 DEF ClientListsInv
    <3> QED
      BY <1>0, <2>1, <2>2, <3>1 DEF ClientListsInv
  <2>5. TablesInv'
    <3>1. \A m \in Hosts : status'[m] = "none" <=> waiters'[m] = <<>>
      BY <1>t, <1>0, <2>0, <2>1 DEF TablesInv
    <3>2. ASSUME NEW d \in Callbacks, hostOf'[d] # NoHost
          PROVE  d \in Keys(waiters'[hostOf'[d]])
      <4>1. d \notin Keys(waiters[n]) /\ hostOf'[d] = hostOf[d] /\ hostOf[d] \in Hosts
        BY <1>t, <2>0, <3>2
      <4> QED
        BY <1>0, <2>1, <3>2, <4>1 DEF TablesInv
    <3>3. ASSUME NEW d \in Callbacks, client'[d] = "waiting"
          PROVE  wanted'[d] \in Hosts /\ d \in Keys(waiters'[wanted'[d]])
      <4>1. d \notin Keys(waiters[n]) /\ client[d] = "waiting"
        BY <1>t, <2>0, <3>3
      <4> QED
        BY <1>0, <2>1, <4>1 DEF TablesInv
    <3> QED
      BY <3>1, <3>2, <3>3 DEF TablesInv
  <2>6. FamiliesInv'
    BY <1>t, <1>0, <2>0 DEF FamiliesInv
  <2> QED
    BY <2>3, <2>4, <2>5, <2>6 DEF ClientsInv
<1>2. CASE ~EndsWait(n, f)
  <2>0. /\ UNCHANGED <<waiters, hostOf>>
        /\ \/ UNCHANGED <<status, asked>>
           \/ /\ ~HasAddress(n, f) /\ status[n] = "first"
              /\ status' = [status EXCEPT ![n] = "second"]
              /\ asked' = asked \cup {<<n, "second">>}
    BY <1>2 DEF Reply, Answer, TriesNextFamily
  <2>1. client' = client
    <3>1. \A c \in Callbacks : c \notin ToSet(<<>>)
      BY DEF ToSet
    <3> QED
      BY <1>t, <1>2, <3>1 DEF Reply, Called
  <2>2. ClientsTypeOK'
    BY <1>t, <1>0, <2>0, <2>1 DEF ClientsTypeOK, DnsTypeOK, Families
  <2>3. ClientListsInv'
    BY <1>0, <2>0, <2>1 DEF ClientListsInv
  <2>4. TablesInv'
    BY <1>t, <1>0, <2>0, <2>1 DEF TablesInv
  <2>5. FamiliesInv'
    <3>1. CASE UNCHANGED <<status, asked>>
      BY <1>0, <3>1 DEF FamiliesInv
    <3>2. CASE /\ ~HasAddress(n, f) /\ status[n] = "first"
               /\ status' = [status EXCEPT ![n] = "second"]
               /\ asked' = asked \cup {<<n, "second">>}
      <4>1. "first" \notin zone[n]
        BY <1>0, <3>2 DEF FamiliesInv, HasAddress, Families
      <4> QED
        BY <1>t, <1>0, <3>2, <4>1 DEF FamiliesInv
    <3> QED
      BY <2>0, <3>1, <3>2
  <2> QED
    BY <2>2, <2>3, <2>4, <2>5 DEF ClientsInv
<1> QED
  BY <1>1, <1>2

\* The invariant survives every step.
LEMMA ClientsNextInv == ClientsInv /\ [ClientsNext]_clientsVars => ClientsInv'
<1> SUFFICES ASSUME ClientsInv, [ClientsNext]_clientsVars PROVE ClientsInv'
  OBVIOUS
<1>1. ASSUME NEW n \in Hosts, NEW f \in Families, Lost(n, f) PROVE ClientsInv'
  BY <1>1
     DEF Lost, Lose, ClientsInv, ClientsTypeOK, DnsTypeOK, ClientListsInv, TablesInv,
         FamiliesInv
<1>2. ASSUME NEW n \in Hosts, Sweep(n) PROVE ClientsInv'
  BY <1>2
     DEF Sweep, SweepCache, ClientsInv, ClientsTypeOK, DnsTypeOK, ClientListsInv,
         TablesInv, FamiliesInv
<1>3. CASE UNCHANGED clientsVars
  BY <1>3
     DEF clientsVars, ClientsInv, ClientsTypeOK, DnsTypeOK, ClientListsInv, TablesInv,
         FamiliesInv
<1> QED
  BY <1>1, <1>2, <1>3, ResolveInv, LeaveInv, ClientReplyInv DEF ClientsNext

-----------------------------------------------------------------------------
\* The invariant holds in every state.
LEMMA ClientsInvariant == ClientsSpec => []ClientsInv
BY ClientsInitInv, ClientsNextInv, PTL DEF ClientsSpec

\* Removals (remove_callback) and replies (_call_callback) leave no orphan:
\* a name is being resolved exactly while somebody waits for it, and every
\* registration is of a callback in the list.
THEOREM TablesAgree == ClientsSpec => []Consistent
<1>1. ClientsInv => Consistent
  <2> SUFFICES ASSUME ClientsInv PROVE Consistent
    OBVIOUS
  <2>1. ASSUME NEW c \in Callbacks, hostOf[c] # NoHost
        PROVE  c \in ToSet(waiters[hostOf[c]])
    <3>1. waiters[hostOf[c]] \in Seq(Callbacks) /\ c \in Keys(waiters[hostOf[c]])
      BY <2>1 DEF ClientsInv, TablesInv, ClientsTypeOK, DnsTypeOK
    <3> QED
      BY <3>1, ToSetIsKeys
  <2> QED
    BY <2>1 DEF ClientsInv, TablesInv, Consistent
<1> QED
  BY ClientsInvariant, <1>1, PTL

\* A client that waits is in the list of the name it asked for exactly once,
\* whoever else has left or been answered.
THEOREM WaitersKept == ClientsSpec => []NobodyForgotten
<1>1. ClientsInv => NobodyForgotten
  <2> SUFFICES ASSUME ClientsInv, NEW c \in Callbacks, client[c] = "waiting"
               PROVE  \E i \in 1..Len(waiters[wanted[c]]) :
                        \A j \in 1..Len(waiters[wanted[c]]) :
                          waiters[wanted[c]][j] = c <=> j = i
    BY DEF NobodyForgotten
  <2>1. c \in Keys(waiters[wanted[c]]) /\ Ordered(waiters[wanted[c]])
    BY DEF ClientsInv, TablesInv, ClientListsInv
  <2> QED
    BY <2>1 DEF Keys, Ordered
<1> QED
  BY ClientsInvariant, <1>1, PTL

\* "unable to parse hostname" is told only to those whose name has no
\* address, however late or often the name servers reply.
THEOREM ErrorsTrue == ClientsSpec => OnlyTrueErrors
<1> DEFINE A == \A n \in Hosts, f \in Families :
                  Reply(n, f) /\ Called(n, f) # <<>> /\ zone[n] # {}
                    => n \in cached'
<1>1. ClientsInv => A
  <2> SUFFICES ASSUME ClientsInv, NEW n \in Hosts, NEW f \in Families, Reply(n, f),
                      Called(n, f) # <<>>, zone[n] # {}
               PROVE  n \in cached'
    OBVIOUS
  <2>1. EndsWait(n, f)
    BY DEF Called
  <2>2. zone[n] \subseteq Families
    BY ResolverAssumption DEF ClientsInv, ClientsTypeOK, DnsTypeOK
  <2>3. HasAddress(n, f)
    BY <2>1, <2>2 DEF EndsWait, HasAddress, ClientsInv, FamiliesInv, Families
  <2> QED
    BY <2>3 DEF Reply, Answer
<1>2. ClientsInv => [A]_clientsVars
  BY <1>1
<1> QED
  BY ClientsInvariant, <1>2, PTL DEF OnlyTrueErrors

-----------------------------------------------------------------------------
(* The TCP relay.                                                          *)

\* The handlers in the resolver's lists; those whose callback is due in what
\* is left of the round; those whose destroy() is.
Waiting == {x \in Handlers : \E n \in Hosts : x \in Keys(waiters[n])}
Due(items) == {items[i][2] : i \in {j \in 1..Len(items) : items[j][1] = "dns"}}
Doomed(items) ==
  {items[i][2] : i \in {j \in 1..Len(items) : items[j][1] = "destroy"}}

\* The round: callbacks come before all else, one for each handler.
RoundInv(items) ==
  /\ items \in Seq(Items)
  /\ \A i, j \in 1..Len(items) :
       items[j][1] = "dns" =>
         /\ i < j => items[i][1] = "dns"
         /\ items[i][1] = "dns" /\ items[i][2] = items[j][2] => i = j

\* The types of the tables.
TablesOK ==
  /\ DnsTypeOK
  /\ stage \in [Handlers -> {"none", "INIT", "DNS", "CONNECTING", "STREAM",
                             "DESTROYED"}]
  /\ lfd \in [Handlers -> Fds \cup {NoFd}]
  /\ rfd \in [Handlers -> Fds \cup {NoFd}]
  /\ owner \in [Fds -> Handlers \cup {Nobody, Listener}]
  /\ timed \subseteq Handlers /\ conns \in Int
  /\ ended \in [Handlers -> Nat]

\* The resolver's lists.
ListsInv ==
  /\ \A n \in Hosts : /\ Ordered(waiters[n])
                      /\ \A x \in Keys(waiters[n]) : HostFor[x] = n
  /\ \A x \in Handlers :
       hostOf[x] # NoHost => x \in Keys(waiters[hostOf[x]])

\* The sockets a handler has in each stage.
SocketsInv ==
  /\ DescriptorsAgree
  /\ \A x \in Handlers :
       /\ stage[x] \in {"none", "DESTROYED"} => lfd[x] = NoFd
       /\ stage[x] \in {"none", "INIT", "DNS", "DESTROYED"} => rfd[x] = NoFd
       /\ x \in timed => stage[x] # "none"

\* Who waits for a name, or is about to be called back (D), and for how long.
WaitsInv(D) ==
  /\ D \subseteq Handlers /\ D \cap Waiting = {}
  /\ \A x \in D \cup Waiting : stage[x] \in {"DNS", "DESTROYED"}

\* Where clients ask for different names.
UnsharedInv(D) ==
  NamesNotShared =>
    /\ \A x \in D \cup Waiting : stage[x] = "DNS"
    /\ \A x \in Waiting : hostOf[x] = HostFor[x]
    /\ timed = Alive /\ \A x \in Alive : lfd[x] # NoFd
    /\ IsFiniteSet(Alive) /\ conns = Cardinality(Alive)

\* A handler whose destroy() is due (E) was accepted.
DoomedInv(E) == E \subseteq Handlers /\ \A x \in E : stage[x] # "none"

\* The tables, while callbacks of D and destroy() of E are due.
StateInv(D, E) ==
  /\ TablesOK /\ ListsInv /\ SocketsInv
  /\ WaitsInv(D) /\ UnsharedInv(D) /\ DoomedInv(E)

Inv ==
  /\ port \in {"open", "closing", "closed", "gone"}
  /\ RoundInv(todo) /\ StateInv(Due(todo), Doomed(todo))
-----------------------------------------------------------------------------
\* What a callback that is due looks like.
LEMMA ItemFacts ==
  /\ \A e \in Items : e[1] = "dns" => e[2] \in Handlers
  /\ \A e \in Items : e[1] = "destroy" => e[2] \in Handlers
  /\ \A x \in Handlers, ok \in BOOLEAN :
       <<"dns", x, ok>> \in Items /\ <<"destroy", x>> \in Items
BY DEF Items

\* Numbered items are a sequence.
LEMMA ItemsOf ==
  ASSUME NEW k \in Nat, NEW m \in [1..k -> Items]
  PROVE  m \in Seq(Items) /\ Len(m) = k
OBVIOUS

\* The item that is handled is one of the round's.
LEMMA TakeHead ==
  ASSUME NEW t \in Seq(Items), t # <<>>
  PROVE  /\ Head(t) = t[1] /\ t[1] \in Items /\ 1 \in 1..Len(t)
         /\ Tail(t) \in Seq(Items) /\ Len(Tail(t)) = Len(t) - 1
         /\ \A i \in 1..Len(Tail(t)) : i + 1 \in 1..Len(t) /\ Tail(t)[i] = t[i + 1]
         /\ \A i \in 2..Len(t) : i - 1 \in 1..Len(Tail(t)) /\ t[i] = Tail(t)[i - 1]
<1>1. Head(t) = t[1] /\ t[1] \in Items /\ 1 \in 1..Len(t)
  OBVIOUS
<1>2. Tail(t) \in Seq(Items) /\ Len(Tail(t)) = Len(t) - 1
  OBVIOUS
<1>3. \A i \in 1..Len(Tail(t)) : i + 1 \in 1..Len(t) /\ Tail(t)[i] = t[i + 1]
  OBVIOUS
<1>4. ASSUME NEW i \in 2..Len(t)
      PROVE  i - 1 \in 1..Len(Tail(t)) /\ t[i] = Tail(t)[i - 1]
  <2>1. i - 1 \in 1..Len(Tail(t)) /\ (i - 1) + 1 = i
    BY <1>2
  <2> QED
    BY <1>3, <2>1
<1> QED
  BY <1>1, <1>2, <1>3, <1>4

\* Whatever is taken, the rest of the round is in order; and if it is no
\* callback, no callback was or is due.
LEMMA RoundTaken ==
  ASSUME NEW t, RoundInv(t), t # <<>>
  PROVE  /\ RoundInv(Tail(t))
         /\ Head(t)[1] # "dns" => Due(t) = {} /\ Due(Tail(t)) = {}
         /\ Head(t)[1] = "dns" => /\ Head(t)[2] \in Due(t)
                                  /\ Due(Tail(t)) = Due(t) \ {Head(t)[2]}
<1>1. t \in Seq(Items)
  BY DEF RoundInv
<1>2. /\ Head(t) = t[1] /\ t[1] \in Items /\ 1 \in 1..Len(t)
      /\ Tail(t) \in Seq(Items) /\ Len(Tail(t)) = Len(t) - 1
      /\ \A i \in 1..Len(Tail(t)) : i + 1 \in 1..Len(t) /\ Tail(t)[i] = t[i + 1]
      /\ \A i \in 2..Len(t) : i - 1 \in 1..Len(Tail(t)) /\ t[i] = Tail(t)[i - 1]
  BY <1>1, TakeHead
<1>3. \A i, j \in 1..Len(t) :
        t[j][1] = "dns" =>
          /\ i < j => t[i][1] = "dns"
          /\ t[i][1] = "dns" /\ t[i][2] = t[j][2] => i = j
  BY DEF RoundInv
<1>4. PICK u : u = Tail(t)
  OBVIOUS
<1>5. Len(t) \in Nat /\ Len(u) \in Nat
  BY <1>1, <1>2, <1>4
<1>6. RoundInv(u)
  <2>1. ASSUME NEW i \in 1..Len(u), NEW j \in 1..Len(u), u[j][1] = "dns"
        PROVE  /\ i < j => u[i][1] = "dns"
               /\ u[i][1] = "dns" /\ u[i][2] = u[j][2] => i = j
    <3>1. /\ i + 1 \in 1..Len(t) /\ j + 1 \in 1..Len(t)
          /\ u[i] = t[i + 1] /\ u[j] = t[j + 1]
      BY <1>2, <1>4
    <3>2. /\ i + 1 < j + 1 => t[i + 1][1] = "dns"
          /\ t[i + 1][1] = "dns" /\ t[i + 1][2] = t[j + 1][2] => i + 1 = j + 1
      BY <1>3, <2>1, <3>1
    <3>3. i \in Nat /\ j \in Nat
      BY <1>5
    <3> QED
      BY <3>1, <3>2, <3>3
  <2> QED
    BY <1>2, <1>4, <2>1 DEF RoundInv
<1>7. ASSUME t[1][1] # "dns" PROVE Due(t) = {} /\ Due(u) = {}
  <2>1. ASSUME NEW i \in 1..Len(t) PROVE t[i][1] # "dns"
    <3>1. i = 1 \/ 1 < i
      BY <1>5
    <3> QED
      BY <1>2, <1>3, <1>7, <3>1
  <2>2. \A i \in 1..Len(u) : u[i][1] # "dns"
    BY <1>2, <1>4, <2>1
  <2> QED
    BY <2>1, <2>2 DEF Due
<1>8. ASSUME t[1][1] = "dns"
      PROVE  t[1][2] \in Due(t) /\ Due(u) = Due(t) \ {t[1][2]}
  <2>1. t[1][2] \in Due(t)
    BY <1>2, <1>8 DEF Due
  <2>2. ASSUME NEW y \in Due(u) PROVE y \in Due(t) /\ y # t[1][2]
    <3>1. PICK i \in 1..Len(u) : u[i][1] = "dns" /\ y = u[i][2]
      BY <2>2 DEF Due
    <3>2. i + 1 \in 1..Len(t) /\ u[i] = t[i + 1] /\ i + 1 # 1
      BY <1>2, <1>4, <1>5
    <3>3. t[i + 1][1] = "dns" /\ y = t[i + 1][2]
      BY <3>1, <3>2
    <3>4. t[1][2] # t[i + 1][2]
      BY <1>2, <1>3, <1>8, <3>2, <3>3
    <3> QED
      BY <3>2, <3>3, <3>4 DEF Due
  <2>3. ASSUME NEW y \in Due(t), y # t[1][2] PROVE y \in Due(u)
    <3>1. PICK i \in 1..Len(t) : t[i][1] = "dns" /\ y = t[i][2]
      BY <2>3 DEF Due
    <3>2. i \in 2..Len(t)
      <4>1. i # 1
        BY <2>3, <3>1
      <4> QED
        BY <1>5, <4>1
    <3>3. i - 1 \in 1..Len(u) /\ t[i] = u[i - 1]
      BY <1>2, <1>4, <3>2
    <3> QED
      BY <3>1, <3>3 DEF Due
  <2> QED
    BY <2>1, <2>2, <2>3
<1> QED
  BY <1>2, <1>4, <1>6, <1>7, <1>8

\* Items put in front of a round.
LEMMA JoinItems ==
  ASSUME NEW m \in Seq(Items), NEW t \in Seq(Items)
  PROVE  /\ m \o t \in Seq(Items) /\ Len(m \o t) = Len(m) + Len(t)
         /\ \A i \in 1..(Len(m) + Len(t)) :
              (m \o t)[i] = IF i <= Len(m) THEN m[i] ELSE t[i - Len(m)]
OBVIOUS

\* Callbacks that a step brings are put in front.
LEMMA RoundCalls ==
  ASSUME NEW t, RoundInv(t), Due(t) = {},
         NEW s \in Seq(Handlers), Ordered(s), NEW ok \in BOOLEAN,
         NEW m, m = [i \in 1..Len(s) |-> <<"dns", s[i], ok>>]
  PROVE  RoundInv(m \o t) /\ Due(m \o t) = Keys(s)
<1>1. t \in Seq(Items) /\ Len(t) \in Nat /\ Len(s) \in Nat
  BY DEF RoundInv
<1>2. /\ m \in Seq(Items) /\ Len(m) = Len(s)
      /\ \A i \in 1..Len(s) : m[i][1] = "dns" /\ m[i][2] = s[i]
  <2>1. ASSUME NEW i \in 1..Len(s) PROVE <<"dns", s[i], ok>> \in Items
    <3>1. s[i] \in Handlers
      BY DEF Handlers
    <3> QED
      BY <3>1, ItemFacts
  <2>2. m \in [1..Len(s) -> Items]
    BY <2>1
  <2> QED
    BY <1>1, <2>2
<1>3. \A i \in 1..Len(t) : t[i][1] # "dns"
  BY DEF Due
<1>4. PICK u : u = m \o t
  OBVIOUS
<1>5. /\ u \in Seq(Items) /\ Len(u) = Len(s) + Len(t)
      /\ \A i \in 1..(Len(s) + Len(t)) :
           u[i] = IF i <= Len(s) THEN m[i] ELSE t[i - Len(s)]
  <2>1. /\ m \o t \in Seq(Items) /\ Len(m \o t) = Len(m) + Len(t)
        /\ \A i \in 1..(Len(m) + Len(t)) :
             (m \o t)[i] = IF i <= Len(m) THEN m[i] ELSE t[i - Len(m)]
    BY <1>1, <1>2, JoinItems
  <2> QED
    BY <1>2, <1>4, <2>1
<1>6. ASSUME NEW i \in 1..Len(u)
      PROVE  /\ i <= Len(s) => /\ i \in 1..Len(s)
                               /\ u[i][1] = "dns" /\ u[i][2] = s[i]
             /\ ~(i <= Len(s)) => u[i][1] # "dns"
  <2>1. CASE i <= Len(s)
    <3>1. i \in 1..Len(s) /\ u[i] = m[i]
      BY <1>1, <1>5, <2>1
    <3> QED
      BY <1>2, <2>1, <3>1
  <2>2. CASE ~(i <= Len(s))
    <3>1. i - Len(s) \in 1..Len(t) /\ u[i] = t[i - Len(s)]
      BY <1>1, <1>5, <2>2
    <3> QED
      BY <1>3, <2>2, <3>1
  <2> QED
    BY <2>1, <2>2
<1>7. RoundInv(u)
  <2>1. ASSUME NEW i \in 1..Len(u), NEW j \in 1..Len(u), u[j][1] = "dns"
        PROVE  /\ i < j => u[i][1] = "dns"
               /\ u[i][1] = "dns" /\ u[i][2] = u[j][2] => i = j
    <3>1. j <= Len(s) /\ j \in 1..Len(s) /\ u[j][2] = s[j]
      BY <1>6, <2>1
    <3>2. i < j => i <= Len(s)
      BY <1>1, <1>5, <3>1
    <3>3. ASSUME u[i][1] = "dns", u[i][2] = u[j][2] PROVE i = j
      <4>1. i \in 1..Len(s) /\ u[i][2] = s[i]
        BY <1>6, <3>3
      <4> QED
        BY <3>1, <3>3, <4>1 DEF Ordered
    <3> QED
      BY <1>6, <3>2, <3>3
  <2> QED
    BY <1>5, <2>1 DEF RoundInv
<1>8. ASSUME NEW y \in Due(u) PROVE y \in Keys(s)
  <2>1. PICK i \in 1..Len(u) : u[i][1] = "dns" /\ y = u[i][2]
    BY <1>8 DEF Due
  <2> QED
    BY <1>6, <2>1 DEF Keys
<1>9. ASSUME NEW y \in Keys(s) PROVE y \in Due(u)
  <2>1. PICK i \in 1..Len(s) : y = s[i]
    BY <1>9 DEF Keys
  <2>2. i \in 1..Len(u) /\ i <= Len(s)
    BY <1>1, <1>5
  <2> QED
    BY <1>6, <2>1, <2>2 DEF Due
<1> QED
  BY <1>4, <1>7, <1>8, <1>9

\* The destroy() calls that are due after an item is taken.
LEMMA DoomedTail ==
  ASSUME NEW t \in Seq(Items), t # <<>>
  PROVE  /\ Doomed(Tail(t)) \subseteq Doomed(t)
         /\ Head(t)[1] = "destroy" => Head(t)[2] \in Doomed(t)
<1>1. /\ Head(t) = t[1] /\ 1 \in 1..Len(t)
      /\ \A i \in 1..Len(Tail(t)) : i + 1 \in 1..Len(t) /\ Tail(t)[i] = t[i + 1]
  BY TakeHead
<1>2. ASSUME NEW y \in Doomed(Tail(t)) PROVE y \in Doomed(t)
  <2>1. PICK i \in 1..Len(Tail(t)) : Tail(t)[i][1] = "destroy" /\ y = Tail(t)[i][2]
    BY DEF Doomed
  <2>2. i + 1 \in 1..Len(t) /\ t[i + 1][1] = "destroy" /\ y = t[i + 1][2]
    BY <1>1, <2>1
  <2> QED
    BY <2>2 DEF Doomed
<1> QED
  BY <1>1, <1>2 DEF Doomed

\* The destroy() calls due after items are put in front.
LEMMA DoomedJoin ==
  ASSUME NEW m \in Seq(Items), NEW t \in Seq(Items)
  PROVE  Doomed(m \o t) \subseteq Doomed(m) \cup Doomed(t)
<1>1. /\ Len(m \o t) = Len(m) + Len(t) /\ Len(m) \in Nat /\ Len(t) \in Nat
      /\ \A i \in 1..(Len(m) + Len(t)) :
           (m \o t)[i] = IF i <= Len(m) THEN m[i] ELSE t[i - Len(m)]
  BY JoinItems
<1>2. PICK u : u = m \o t
  OBVIOUS
<1>3. ASSUME NEW y \in Doomed(u) PROVE y \in Doomed(m) \cup Doomed(t)
  <2>1. PICK i \in 1..Len(u) : u[i][1] = "destroy" /\ y = u[i][2]
    BY DEF Doomed
  <2>2. CASE i <= Len(m)
    <3>1. i \in 1..Len(m) /\ u[i] = m[i]
      BY <1>1, <1>2, <2>2
    <3> QED
      BY <2>1, <3>1 DEF Doomed
  <2>3. CASE ~(i <= Len(m))
    <3>1. i - Len(m) \in 1..Len(t) /\ u[i] = t[i - Len(m)]
      BY <1>1, <1>2, <2>3
    <3> QED
      BY <2>1, <3>1 DEF Doomed
  <2> QED
    BY <2>2, <2>3
<1> QED
  BY <1>2, <1>3

\* Of a closing port, destroy() calls are put in front while no callback is
\* due.
LEMMA RoundDestroys ==
  ASSUME NEW t, RoundInv(t), Due(t) = {}, NEW k \in Nat, NEW X, X \subseteq Handlers,
         NEW m, DOMAIN m = 1..k, m \in [1..k -> {<<"destroy", x>> : x \in X}]
  PROVE  /\ RoundInv(m \o t) /\ Due(m \o t) = {}
         /\ Doomed(m \o t) \subseteq Doomed(t) \cup X
<1>1. t \in Seq(Items) /\ Len(t) \in Nat
  BY DEF RoundInv
<1>2. ASSUME NEW i \in 1..k
      PROVE  m[i] \in Items /\ m[i][1] = "destroy" /\ m[i][2] \in X
  <2>1. PICK x \in X : m[i] = <<"destroy", x>>
    OBVIOUS
  <2>2. x \in Handlers
    OBVIOUS
  <2>3. <<"destroy", x>> \in Items
    BY <2>2 DEF Items
  <2>4. <<"destroy", x>>[1] = "destroy" /\ <<"destroy", x>>[2] = x
    OBVIOUS
  <2> QED
    BY <2>1, <2>3, <2>4
<1>3. m \in Seq(Items) /\ Len(m) = k
  <2>1. m \in [1..k -> Items]
    BY <1>2
  <2> QED
    BY <2>1
<1>4. \A i \in 1..Len(t) : t[i][1] # "dns"
  BY DEF Due
<1>5. PICK u : u = m \o t
  OBVIOUS
<1>6. /\ u \in Seq(Items) /\ Len(u) = k + Len(t)
      /\ \A i \in 1..(k + Len(t)) : u[i] = IF i <= k THEN m[i] ELSE t[i - k]
  <2>1. /\ m \o t \in Seq(Items) /\ Len(m \o t) = Len(m) + Len(t)
        /\ \A i \in 1..(Len(m) + Len(t)) :
             (m \o t)[i] = IF i <= Len(m) THEN m[i] ELSE t[i - Len(m)]
    BY <1>1, <1>3, JoinItems
  <2> QED
    BY <1>3, <1>5, <2>1
<1>7. ASSUME NEW i \in 1..Len(u) PROVE u[i][1] # "dns"
  <2>1. CASE i <= k
    <3>1. i \in 1..k /\ u[i] = m[i]
      BY <1>1, <1>6, <2>1
    <3> QED
      BY <1>2, <3>1
  <2>2. CASE ~(i <= k)
    <3>1. i - k \in 1..Len(t) /\ u[i] = t[i - k]
      BY <1>1, <1>6, <2>2
    <3> QED
      BY <1>4, <3>1
  <2> QED
    BY <2>1, <2>2
<1>8. RoundInv(u) /\ Due(u) = {}
  BY <1>6, <1>7 DEF RoundInv, Due
<1>9. Doomed(m) \subseteq X
  BY <1>2, <1>3 DEF Doomed
<1>10. Doomed(u) \subseteq Doomed(m) \cup Doomed(t)
  BY <1>1, <1>3, <1>5, DoomedJoin
<1> QED
  BY <1>5, <1>8, <1>9, <1>10

\* What the loop polls are events and replies.
LEMMA RoundPolled ==
  ASSUME TablesOK, NEW n \in Nat, NEW t \in [1..n -> Ready]
  PROVE  RoundInv(t) /\ Due(t) = {} /\ Doomed(t) = {}
<1>1. ASSUME NEW e \in Ready
      PROVE  e \in Items /\ e[1] # "dns" /\ e[1] # "destroy"
  <2>1. CASE \E f \in Fds, k \in {"IN", "OUT", "ERR"} : e = <<"event", f, k>>
    BY <2>1 DEF Items
  <2>2. CASE \E q \in asked : e = <<"reply", q[1], q[2]>>
    <3>1. PICK q \in asked : e = <<"reply", q[1], q[2]>>
      BY <2>2
    <3>2. q[1] \in Hosts /\ q[2] \in Families
      BY DEF TablesOK, DnsTypeOK
    <3> QED
      BY <3>1, <3>2 DEF Items
  <2> QED
    BY <2>1, <2>2 DEF Ready
<1>2. t \in [1..n -> Items]
  BY <1>1
<1>3. t \in Seq(Items) /\ Len(t) = n
  BY <1>2
<1>4. \A i \in 1..Len(t) : t[i][1] # "dns" /\ t[i][1] # "destroy"
  BY <1>1, <1>3
<1> QED
  BY <1>3, <1>4 DEF RoundInv, Due, Doomed

-----------------------------------------------------------------------------
\* Whoever stands in a list is a handler.
LEMMA WaitingFacts ==
  ASSUME TablesOK
  PROVE  /\ \A n \in Hosts : /\ waiters[n] \in Seq(Handlers)
                            /\ Keys(waiters[n]) \subseteq Waiting
         /\ Waiting \subseteq Handlers
<1>1. ASSUME NEW n \in Hosts
      PROVE  waiters[n] \in Seq(Handlers) /\ Keys(waiters[n]) \subseteq Handlers
  <2>1. waiters[n] \in Seq(Handlers)
    BY DEF TablesOK, DnsTypeOK, Handlers
  <2>2. \A i \in 1..Len(waiters[n]) : waiters[n][i] \in Handlers
    BY <2>1
  <2> QED
    BY <2>1, <2>2 DEF Keys
<1> QED
  BY <1>1 DEF Waiting

\* Fewer callbacks and destroy() calls that are due.
LEMMA FewerDue ==
  ASSUME NEW D, NEW E, NEW D2, NEW E2, D2 \subseteq D, E2 \subseteq E,
         StateInv(D, E)
  PROVE  StateInv(D2, E2)
<1>1. WaitsInv(D2)
  BY DEF StateInv, WaitsInv
<1>2. UnsharedInv(D2)
  BY DEF StateInv, UnsharedInv
<1>3. DoomedInv(E2)
  BY DEF StateInv, DoomedInv
<1> QED
  BY <1>1, <1>2, <1>3 DEF StateInv

\* A step that leaves the tables alone.
LEMMA Untouched ==
  ASSUME NEW D, NEW E, StateInv(D, E),
         UNCHANGED <<status, waiters, hostOf, cached, zone, asked,
                     stage, lfd, rfd, owner, timed, conns, ended>>
  PROVE  StateInv(D, E)'
<1>1. TablesOK'
  BY DEF StateInv, TablesOK, DnsTypeOK
<1>2. Waiting' = Waiting /\ Alive' = Alive
  BY DEF Waiting, Alive
<1>3. ListsInv' /\ SocketsInv'
  BY DEF StateInv, ListsInv, SocketsInv, DescriptorsAgree
<1>4. WaitsInv(D)' /\ UnsharedInv(D)' /\ DoomedInv(E)'
  BY <1>2 DEF StateInv, WaitsInv, UnsharedInv, DoomedInv
<1> QED
  BY <1>1, <1>3, <1>4 DEF StateInv

\* remove_callback leaves the lists in order.  It takes x out of its list if x
\* is registered; nobody else leaves, and nobody comes.
LEMMA RemoveCallbackLists ==
  ASSUME TablesOK, ListsInv, NEW x \in Handlers, RemoveCallback(x)
  PROVE  /\ status' \in [Hosts -> Families \cup {"none"}]
         /\ waiters' \in [Hosts -> Seq(Callbacks)]
         /\ hostOf' \in [Callbacks -> Hosts \cup {NoHost}]
         /\ ListsInv' /\ Waiting' \subseteq Waiting
         /\ hostOf[x] # NoHost => x \notin Waiting'
         /\ \A y \in Handlers \ {x} : hostOf'[y] = hostOf[y]
<1> USE ResolverAssumption
<1>t. /\ status \in [Hosts -> Families \cup {"none"}]
      /\ waiters \in [Hosts -> Seq(Callbacks)]
      /\ hostOf \in [Callbacks -> Hosts \cup {NoHost}]
      /\ Handlers = Callbacks
  BY DEF TablesOK, DnsTypeOK, Handlers
<1>1. CASE hostOf[x] = NoHost
  <2>1. UNCHANGED <<status, waiters, hostOf>>
    BY <1>1 DEF RemoveCallback
  <2>2. Waiting' = Waiting
    BY <2>1 DEF Waiting
  <2>3. ListsInv'
    BY <2>1 DEF ListsInv
  <2> QED
    BY <1>1, <1>t, <2>1, <2>2, <2>3
<1>2. CASE hostOf[x] # NoHost
  <2>1. PICK n : n = hostOf[x]
    OBVIOUS
  <2>2. n \in Hosts /\ n # NoHost
    BY <1>t, <1>2, <2>1
  <2>3. PICK left : left = Del(waiters[n], x)
    OBVIOUS
  <2>4. /\ hostOf' = [hostOf EXCEPT ![x] = NoHost]
        /\ waiters' = [waiters EXCEPT ![n] = left]
        /\ status' = [status EXCEPT ![n] = IF left = <<>> THEN "none" ELSE @]
    BY <2>1, <2>2, <2>3 DEF RemoveCallback
  <2>5. x \in Keys(waiters[n]) /\ Ordered(waiters[n]) /\ waiters[n] \in Seq(Callbacks)
    BY <1>t, <2>1, <2>2 DEF ListsInv
  <2>6. /\ left \in Seq(Callbacks) /\ Ordered(left)
        /\ Keys(left) = Keys(waiters[n]) \ {x}
    BY <2>3, <2>5, DelKey
  <2>7. waiters'[n] = left /\ \A m \in Hosts \ {n} : waiters'[m] = waiters[m]
    BY <1>t, <2>2, <2>4
  <2>8. /\ hostOf'[x] = NoHost /\ \A y \in Handlers \ {x} : hostOf'[y] = hostOf[y]
        /\ hostOf' \in [Callbacks -> Hosts \cup {NoHost}]
    BY <1>t, <2>4
  <2>9. status' \in [Hosts -> Families \cup {"none"}]
    BY <1>t, <2>2, <2>4
  <2>10. waiters' \in [Hosts -> Seq(Callbacks)]
    BY <1>t, <2>2, <2>4, <2>6
  <2>11. ASSUME NEW m \in Hosts
         PROVE  /\ Ordered(waiters'[m])
                /\ Keys(waiters'[m]) = Keys(waiters[m]) \ {x}
    <3>1. CASE m = n
      BY <2>6, <2>7, <3>1
    <3>2. CASE m # n
      <4>1. waiters'[m] = waiters[m] /\ Ordered(waiters[m])
        BY <2>7, <3>2 DEF ListsInv
      <4>2. HostFor[x] = n /\ \A y \in Keys(waiters[m]) : HostFor[y] = m
        BY <2>2, <2>5 DEF ListsInv
      <4> QED
        BY <3>2, <4>1, <4>2
    <3> QED
      BY <3>1, <3>2
  <2>12. ListsInv'
    <3>1. ASSUME NEW m \in Hosts, NEW y \in Keys(waiters'[m]) PROVE HostFor[y] = m
      BY <2>11 DEF ListsInv
    <3>2. ASSUME NEW y \in Handlers, hostOf'[y] # NoHost
          PROVE  y \in Keys(waiters'[hostOf'[y]])
      <4>1. y # x /\ hostOf'[y] = hostOf[y]
        BY <2>8, <3>2
      <4>2. hostOf[y] \in Hosts /\ y \in Keys(waiters[hostOf[y]])
        BY <1>t, <3>2, <4>1 DEF ListsInv
      <4> QED
        BY <2>11, <4>1, <4>2
    <3> QED
      BY <2>11, <3>1, <3>2 DEF ListsInv
  <2>13. Waiting' \subseteq Waiting /\ x \notin Waiting'
    BY <2>11 DEF Waiting
  <2> QED
    BY <2>8, <2>9, <2>10, <2>12, <2>13
<1> QED
  BY <1>1, <1>2

\* Past its check, destroy keeps the tables in order: of a handler that lives,
\* or, where two clients asked for one name, of one that was destroyed before.
LEMMA TakeDownState ==
  ASSUME NEW D, NEW E, StateInv(D, E), NEW x \in Handlers, x \notin D,
         stage[x] # "none", NamesNotShared => x \in Alive, TakeDown(x)
  PROVE  StateInv(D, E)'
<1> USE RelayAssumption
<1>t. /\ stage \in [Handlers -> {"none", "INIT", "DNS", "CONNECTING", "STREAM",
                                 "DESTROYED"}]
      /\ lfd \in [Handlers -> Fds \cup {NoFd}]
      /\ rfd \in [Handlers -> Fds \cup {NoFd}]
      /\ owner \in [Fds -> Handlers \cup {Nobody, Listener}]
      /\ timed \subseteq Handlers /\ conns \in Int
      /\ ended \in [Handlers -> Nat]
      /\ TablesOK /\ ListsInv /\ SocketsInv
      /\ WaitsInv(D) /\ UnsharedInv(D) /\ DoomedInv(E)
  BY DEF StateInv, TablesOK
<1>0. /\ stage' = [stage EXCEPT ![x] = "DESTROYED"]
      /\ lfd' = [lfd EXCEPT ![x] = NoFd]
      /\ rfd' = [rfd EXCEPT ![x] = NoFd]
      /\ owner' = [f \in Fds |-> IF owner[f] = x THEN Nobody ELSE owner[f]]
      /\ RemoveCallback(x)
      /\ timed' = timed \ {x}
      /\ conns' = conns - 1
      /\ ended' = [ended EXCEPT ![x] = @ + 1]
      /\ UNCHANGED <<cached, zone, asked>>
  BY DEF TakeDown
<1>1. /\ status' \in [Hosts -> Families \cup {"none"}]
      /\ waiters' \in [Hosts -> Seq(Callbacks)]
      /\ hostOf' \in [Callbacks -> Hosts \cup {NoHost}]
      /\ ListsInv' /\ Waiting' \subseteq Waiting
      /\ hostOf[x] # NoHost => x \notin Waiting'
      /\ \A y \in Handlers \ {x} : hostOf'[y] = hostOf[y]
  BY <1>t, <1>0, RemoveCallbackLists
<1>2. TablesOK'
  <2>1. DnsTypeOK'
    BY <1>t, <1>0, <1>1 DEF TablesOK, DnsTypeOK
  <2>2. stage' \in [Handlers -> {"none", "INIT", "DNS", "CONNECTING", "STREAM",
                                "DESTROYED"}]
    BY <1>t, <1>0
  <2>3. /\ lfd' \in [Handlers -> Fds \cup {NoFd}]
        /\ rfd' \in [Handlers -> Fds \cup {NoFd}]
        /\ owner' \in [Fds -> Handlers \cup {Nobody, Listener}]
    BY <1>t, <1>0
  <2>4. timed' \subseteq Handlers /\ conns' \in Int /\ ended' \in [Handlers -> Nat]
    BY <1>t, <1>0
  <2> QED
    BY <2>1, <2>2, <2>3, <2>4 DEF TablesOK
<1>3. /\ stage'[x] = "DESTROYED" /\ lfd'[x] = NoFd /\ rfd'[x] = NoFd
      /\ \A y \in Handlers \ {x} :
           stage'[y] = stage[y] /\ lfd'[y] = lfd[y] /\ rfd'[y] = rfd[y]
  BY <1>t, <1>0
<1>4. SocketsInv'
  <2>1. ASSUME NEW f \in Fds, NEW y \in Handlers
        PROVE  owner'[f] = y <=> (f = lfd'[y] \/ f = rfd'[y])
    <3>1. owner[f] = y <=> (f = lfd[y] \/ f = rfd[y])
      BY <1>t DEF SocketsInv, DescriptorsAgree
    <3>2. owner'[f] = IF owner[f] = x THEN Nobody ELSE owner[f]
      BY <1>0
    <3>3. y # Nobody
      BY DEF Handlers
    <3>4. CASE y = x
      BY <1>3, <3>2, <3>3, <3>4
    <3>5. CASE y # x
      BY <1>3, <3>1, <3>2, <3>3, <3>5
    <3> QED
      BY <3>4, <3>5
  <2>2. ASSUME NEW y \in Handlers
        PROVE  /\ stage'[y] \in {"none", "DESTROYED"} => lfd'[y] = NoFd
               /\ stage'[y] \in {"none", "INIT", "DNS", "DESTROYED"} => rfd'[y] = NoFd
               /\ y \in timed' => stage'[y] # "none"
    BY <1>t, <1>0, <1>3 DEF SocketsInv
  <2> QED
    BY <2>1, <2>2 DEF SocketsInv, DescriptorsAgree
<1>5. WaitsInv(D)'
  <2>1. D \subseteq Handlers /\ D \cap Waiting' = {} /\ Waiting' \subseteq Handlers
    BY <1>t, <1>1 DEF WaitsInv, Waiting
  <2>2. ASSUME NEW y \in D \cup Waiting' PROVE stage'[y] \in {"DNS", "DESTROYED"}
    BY <1>t, <1>1, <1>3, <2>1 DEF WaitsInv
  <2> QED
    BY <2>1, <2>2 DEF WaitsInv
<1>6. UnsharedInv(D)'
  <2> SUFFICES ASSUME NamesNotShared
               PROVE  /\ \A y \in D \cup Waiting' : stage'[y] = "DNS"
                      /\ \A y \in Waiting' : hostOf'[y] = HostFor[y]
                      /\ timed' = Alive' /\ \A y \in Alive' : lfd'[y] # NoFd
                      /\ IsFiniteSet(Alive') /\ conns' = Cardinality(Alive')
    BY DEF UnsharedInv, NamesNotShared
  <2>1. /\ \A y \in D \cup Waiting : stage[y] = "DNS"
        /\ \A y \in Waiting : hostOf[y] = HostFor[y]
        /\ timed = Alive /\ \A y \in Alive : lfd[y] # NoFd
        /\ IsFiniteSet(Alive) /\ conns = Cardinality(Alive)
        /\ x \in Alive
    BY <1>t DEF UnsharedInv
  <2>2. x \notin Waiting'
    <3>1. ASSUME x \in Waiting PROVE hostOf[x] # NoHost
      BY <2>1, <3>1, ResolverAssumption DEF Handlers
    <3> QED
      BY <1>1, <3>1
  <2>3. D \subseteq Handlers /\ Waiting' \subseteq Handlers
    BY <1>t DEF WaitsInv, Waiting
  <2>4. Alive' = Alive \ {x}
    BY <1>3 DEF Alive
  <2>5. IsFiniteSet(Alive \ {x}) /\ Cardinality(Alive \ {x}) = Cardinality(Alive) - 1
    BY <2>1, FS_RemoveElement
  <2>6. \A y \in D \cup Waiting' : stage'[y] = "DNS"
    BY <1>1, <1>3, <2>1, <2>2, <2>3
  <2>7. \A y \in Waiting' : hostOf'[y] = HostFor[y]
    BY <1>1, <2>1, <2>2, <2>3
  <2>8. \A y \in Alive' : lfd'[y] # NoFd
    BY <1>3, <2>1, <2>4 DEF Alive
  <2> QED
    BY <1>0, <2>1, <2>4, <2>5, <2>6, <2>7, <2>8
<1>7. DoomedInv(E)'
  BY <1>t, <1>3 DEF DoomedInv
<1> QED
  BY <1>1, <1>2, <1>4, <1>5, <1>6, <1>7 DEF StateInv

\* destroy of a handler that was accepted.
LEMMA DestroyState ==
  ASSUME NEW D, NEW E, StateInv(D, E), NEW x \in Handlers, x \notin D,
         stage[x] # "none", Destroy(x)
  PROVE  StateInv(D, E)'
<1>1. CASE stage[x] = "DESTROYED"
  BY <1>1, Untouched DEF Destroy
<1>2. CASE stage[x] # "DESTROYED"
  <2>1. TakeDown(x) /\ x \in Alive
    BY <1>2 DEF Destroy, Alive
  <2> QED
    BY <2>1, TakeDownState
<1> QED
  BY <1>1, <1>2

\* The owner of a descriptor lives.
LEMMA OwnerLives ==
  ASSUME NEW D, NEW E, StateInv(D, E), NEW f \in Fds, NEW x \in Handlers, owner[f] = x
  PROVE  stage[x] \notin {"none", "DESTROYED"}
<1>1. (f = lfd[x] \/ f = rfd[x]) /\ f # NoFd
  BY RelayAssumption DEF StateInv, SocketsInv, DescriptorsAgree
<1> QED
  BY <1>1 DEF StateInv, SocketsInv

\* accept: a new handler with one socket.
LEMMA AcceptState ==
  ASSUME NEW D, NEW E, StateInv(D, E), NEW x \in Handlers, stage[x] = "none",
         NEW g \in Fds, owner[g] = Nobody,
         stage' = [stage EXCEPT ![x] = "INIT"], lfd' = [lfd EXCEPT ![x] = g],
         owner' = [owner EXCEPT ![g] = x],
         timed' = timed \cup {x}, conns' = conns + 1,
         UNCHANGED <<status, waiters, hostOf, cached, zone, asked, rfd, ended>>
  PROVE  StateInv(D, E)'
<1> USE RelayAssumption
<1>t. /\ stage \in [Handlers -> {"none", "INIT", "DNS", "CONNECTING", "STREAM",
                                 "DESTROYED"}]
      /\ lfd \in [Handlers -> Fds \cup {NoFd}]
      /\ rfd \in [Handlers -> Fds \cup {NoFd}]
      /\ owner \in [Fds -> Handlers \cup {Nobody, Listener}]
      /\ timed \subseteq Handlers /\ conns \in Int
      /\ TablesOK /\ ListsInv /\ SocketsInv
      /\ WaitsInv(D) /\ UnsharedInv(D) /\ DoomedInv(E)
  BY DEF StateInv, TablesOK
<1>1. TablesOK'
  <2>1. stage' \in [Handlers -> {"none", "INIT", "DNS", "CONNECTING", "STREAM",
                                "DESTROYED"}]
    BY <1>t
  <2>2. /\ lfd' \in [Handlers -> Fds \cup {NoFd}]
        /\ owner' \in [Fds -> Handlers \cup {Nobody, Listener}]
    BY <1>t
  <2>3. timed' \subseteq Handlers /\ conns' \in Int
    BY <1>t
  <2> QED
    BY <1>t, <2>1, <2>2, <2>3 DEF TablesOK, DnsTypeOK
<1>2. /\ stage'[x] = "INIT" /\ lfd'[x] = g
      /\ \A y \in Handlers \ {x} : stage'[y] = stage[y] /\ lfd'[y] = lfd[y]
      /\ owner'[g] = x /\ \A f \in Fds \ {g} : owner'[f] = owner[f]
  BY <1>t
<1>3. lfd[x] = NoFd /\ rfd[x] = NoFd /\ x \notin D /\ x \notin Waiting
  BY <1>t DEF SocketsInv, WaitsInv
<1>4. Waiting' = Waiting /\ Waiting \subseteq Handlers /\ D \subseteq Handlers
  BY <1>t DEF Waiting, WaitsInv
<1>5. ListsInv'
  BY <1>t DEF ListsInv
<1>6. SocketsInv'
  <2>1. ASSUME NEW f \in Fds, NEW y \in Handlers
        PROVE  owner'[f] = y <=> (f = lfd'[y] \/ f = rfd'[y])
    <3>1. /\ owner[f] = y <=> (f = lfd[y] \/ f = rfd[y])
          /\ owner[g] = y <=> (g = lfd[y] \/ g = rfd[y])
      BY <1>t DEF SocketsInv, DescriptorsAgree
    <3>2. y # Nobody /\ f # NoFd
      BY DEF Handlers
    <3>3. CASE y = x
      BY <1>2, <1>3, <3>1, <3>2, <3>3
    <3>4. CASE y # x
      BY <1>2, <3>1, <3>2, <3>4
    <3> QED
      BY <3>3, <3>4
  <2>2. ASSUME NEW y \in Handlers
        PROVE  /\ stage'[y] \in {"none", "DESTROYED"} => lfd'[y] = NoFd
               /\ stage'[y] \in {"none", "INIT", "DNS", "DESTROYED"} => rfd'[y] = NoFd
               /\ y \in timed' => stage'[y] # "none"
    BY <1>t, <1>2, <1>3 DEF SocketsInv
  <2> QED
    BY <2>1, <2>2 DEF SocketsInv, DescriptorsAgree
<1>7. WaitsInv(D)'
  BY <1>t, <1>2, <1>3, <1>4 DEF WaitsInv
<1>8. UnsharedInv(D)'
  <2> SUFFICES ASSUME NamesNotShared
               PROVE  /\ \A y \in D \cup Waiting' : stage'[y] = "DNS"
                      /\ \A y \in Waiting' : hostOf'[y] = HostFor[y]
                      /\ timed' = Alive' /\ \A y \in Alive' : lfd'[y] # NoFd
                      /\ IsFiniteSet(Alive') /\ conns' = Cardinality(Alive')
    BY DEF UnsharedInv, NamesNotShared
  <2>1. /\ \A y \in D \cup Waiting : stage[y] = "DNS"
        /\ \A y \in Waiting : hostOf[y] = HostFor[y]
        /\ timed = Alive /\ \A y \in Alive : lfd[y] # NoFd
        /\ IsFiniteSet(Alive) /\ conns = Cardinality(Alive)
    BY <1>t DEF UnsharedInv
  <2>2. Alive' = Alive \cup {x} /\ x \notin Alive
    BY <1>2 DEF Alive
  <2>3. /\ IsFiniteSet(Alive \cup {x})
        /\ Cardinality(Alive \cup {x}) = Cardinality(Alive) + 1
    BY <2>1, <2>2, FS_AddElement
  <2>4. \A y \in D \cup Waiting' : stage'[y] = "DNS"
    BY <1>2, <1>3, <1>4, <2>1
  <2>5. \A y \in Alive' : lfd'[y] # NoFd
    BY <1>2, <2>1, <2>2 DEF Alive
  <2> QED
    BY <1>4, <2>1, <2>2, <2>3, <2>4, <2>5
<1>9. DoomedInv(E)'
  BY <1>t, <1>2 DEF DoomedInv
<1> QED
  BY <1>1, <1>5, <1>6, <1>7, <1>8, <1>9 DEF StateInv

\* A connection to the server: the second socket of a handler that had no
\* remote one.
LEMMA ConnectState ==
  ASSUME NEW D, NEW E, StateInv(D, E), NEW x \in Handlers, x \notin D,
         x \notin Waiting, stage[x] \in {"DNS", "DESTROYED"},
         NamesNotShared => stage[x] = "DNS",
         NEW g \in Fds, owner[g] = Nobody,
         stage' = [stage EXCEPT ![x] = "CONNECTING"],
         rfd' = [rfd EXCEPT ![x] = g], owner' = [owner EXCEPT ![g] = x],
         UNCHANGED <<status, waiters, hostOf, cached, zone, asked,
                     lfd, timed, conns, ended>>
  PROVE  StateInv(D, E)'
<1> USE RelayAssumption
<1>t. /\ stage \in [Handlers -> {"none", "INIT", "DNS", "CONNECTING", "STREAM",
                                 "DESTROYED"}]
      /\ lfd \in [Handlers -> Fds \cup {NoFd}]
      /\ rfd \in [Handlers -> Fds \cup {NoFd}]
      /\ owner \in [Fds -> Handlers \cup {Nobody, Listener}]
      /\ timed \subseteq Handlers /\ conns \in Int
      /\ TablesOK /\ ListsInv /\ SocketsInv
      /\ WaitsInv(D) /\ UnsharedInv(D) /\ DoomedInv(E)
  BY DEF StateInv, TablesOK
<1>1. TablesOK'
  <2>1. stage' \in [Handlers -> {"none", "INIT", "DNS", "CONNECTING", "STREAM",
                                "DESTROYED"}]
    BY <1>t
  <2>2. /\ rfd' \in [Handlers -> Fds \cup {NoFd}]
        /\ owner' \in [Fds -> Handlers \cup {Nobody, Listener}]
    BY <1>t
  <2> QED
    BY <1>t, <2>1, <2>2 DEF TablesOK, DnsTypeOK
<1>2. /\ stage'[x] = "CONNECTING" /\ rfd'[x] = g
      /\ \A y \in Handlers \ {x} : stage'[y] = stage[y] /\ rfd'[y] = rfd[y]
      /\ owner'[g] = x /\ \A f \in Fds \ {g} : owner'[f] = owner[f]
  BY <1>t
<1>3. rfd[x] = NoFd
  BY <1>t DEF SocketsInv
<1>4. Waiting' = Waiting /\ Waiting \subseteq Handlers /\ D \subseteq Handlers
  BY <1>t DEF Waiting, WaitsInv
<1>5. ListsInv'
  BY <1>t DEF ListsInv
<1>6. SocketsInv'
  <2>1. ASSUME NEW f \in Fds, NEW y \in Handlers
        PROVE  owner'[f] = y <=> (f = lfd'[y] \/ f = rfd'[y])
    <3>1. /\ owner[f] = y <=> (f = lfd[y] \/ f = rfd[y])
          /\ owner[g] = y <=> (g = lfd[y] \/ g = rfd[y])
      BY <1>t DEF SocketsInv, DescriptorsAgree
    <3>2. y # Nobody /\ f # NoFd
      BY DEF Handlers
    <3>3. CASE y = x
      BY <1>2, <1>3, <3>1, <3>2, <3>3
    <3>4. CASE y # x
      BY <1>2, <3>1, <3>2, <3>4
    <3> QED
      BY <3>3, <3>4
  <2>2. ASSUME NEW y \in Handlers
        PROVE  /\ stage'[y] \in {"none", "DESTROYED"} => lfd'[y] = NoFd
               /\ stage'[y] \in {"none", "INIT", "DNS", "DESTROYED"} => rfd'[y] = NoFd
               /\ y \in timed' => stage'[y] # "none"
    BY <1>t, <1>2 DEF SocketsInv
  <2> QED
    BY <2>1, <2>2 DEF SocketsInv, DescriptorsAgree
<1>7. WaitsInv(D)'
  BY <1>t, <1>2, <1>4 DEF WaitsInv
<1>8. UnsharedInv(D)'
  <2>1. ASSUME NamesNotShared PROVE Alive' = Alive
    BY <1>2, <2>1 DEF Alive
  <2> QED
    BY <1>t, <1>2, <1>4, <2>1 DEF UnsharedInv, NamesNotShared
<1>9. DoomedInv(E)'
  BY <1>t, <1>2 DEF DoomedInv
<1> QED
  BY <1>1, <1>5, <1>6, <1>7, <1>8, <1>9 DEF StateInv

\* Data: the stage may become STREAM, and the handler is put (back) in the
\* timeout cache.
LEMMA DataState ==
  ASSUME NEW D, NEW E, StateInv(D, E), NEW x \in Handlers, NEW f \in Fds, NEW e,
         owner[f] = x,
         stage' = [stage EXCEPT ![x] =
                     IF f = rfd[x] /\ e = "OUT" THEN "STREAM" ELSE @],
         NEW active \in BOOLEAN, Activity(x, active)
  PROVE  StateInv(D, E)'
<1> USE RelayAssumption
<1>t. /\ stage \in [Handlers -> {"none", "INIT", "DNS", "CONNECTING", "STREAM",
                                 "DESTROYED"}]
      /\ lfd \in [Handlers -> Fds \cup {NoFd}]
      /\ rfd \in [Handlers -> Fds \cup {NoFd}]
      /\ owner \in [Fds -> Handlers \cup {Nobody, Listener}]
      /\ timed \subseteq Handlers /\ conns \in Int
      /\ TablesOK /\ ListsInv /\ SocketsInv
      /\ WaitsInv(D) /\ UnsharedInv(D) /\ DoomedInv(E)
  BY DEF StateInv, TablesOK
<1>0. /\ timed' = IF active THEN timed \cup {x} ELSE timed
      /\ UNCHANGED <<status, waiters, hostOf, cached, zone, asked,
                     lfd, rfd, owner, conns, ended>>
  BY DEF Activity
<1>1. stage[x] \notin {"none", "DESTROYED"}
  BY OwnerLives
<1>2. f # NoFd
  OBVIOUS
<1>3. /\ \A y \in Handlers \ {x} : stage'[y] = stage[y]
      /\ stage'[x] = stage[x]
         \/ (stage'[x] = "STREAM" /\ stage[x] \in {"CONNECTING", "STREAM"})
  <2>1. ASSUME f = rfd[x] PROVE stage[x] \in {"CONNECTING", "STREAM"}
    BY <1>t, <1>1, <1>2, <2>1 DEF SocketsInv
  <2> QED
    BY <1>t, <2>1
<1>4. TablesOK'
  <2>1. stage' \in [Handlers -> {"none", "INIT", "DNS", "CONNECTING", "STREAM",
                                "DESTROYED"}]
    BY <1>t
  <2>2. timed' \subseteq Handlers
    BY <1>t, <1>0
  <2> QED
    BY <1>t, <1>0, <2>1, <2>2 DEF TablesOK, DnsTypeOK
<1>5. ListsInv' /\ Waiting' = Waiting /\ Waiting \subseteq Handlers
  BY <1>t, <1>0 DEF ListsInv, Waiting
<1>6. SocketsInv'
  <2>1. DescriptorsAgree'
    BY <1>t, <1>0 DEF SocketsInv, DescriptorsAgree
  <2>2. ASSUME NEW y \in Handlers
        PROVE  /\ stage'[y] \in {"none", "DESTROYED"} => lfd'[y] = NoFd
               /\ stage'[y] \in {"none", "INIT", "DNS", "DESTROYED"} => rfd'[y] = NoFd
               /\ y \in timed' => stage'[y] # "none"
    BY <1>t, <1>0, <1>1, <1>3 DEF SocketsInv
  <2> QED
    BY <2>1, <2>2 DEF SocketsInv
<1>7. WaitsInv(D)'
  BY <1>t, <1>3, <1>5 DEF WaitsInv
<1>8. UnsharedInv(D)'
  <2>1. Alive' = Alive /\ x \in Alive
    BY <1>1, <1>3 DEF Alive
  <2>2. ASSUME NamesNotShared PROVE timed' = timed
    BY <1>t, <1>0, <2>1, <2>2 DEF UnsharedInv
  <2>3. ASSUME NamesNotShared, NEW y \in D \cup Waiting PROVE stage'[y] = "DNS"
    BY <1>t, <1>3, <1>5, <2>3 DEF UnsharedInv, WaitsInv
  <2> QED
    BY <1>t, <1>0, <1>5, <2>1, <2>2, <2>3 DEF UnsharedInv, NamesNotShared
<1>9. DoomedInv(E)'
  BY <1>t, <1>1, <1>3 DEF DoomedInv
<1> QED
  BY <1>4, <1>5, <1>6, <1>7, <1>8, <1>9 DEF StateInv

\* A request for a name that is known: the callback comes at once.
LEMMA KnownState ==
  ASSUME NEW D, NEW E, StateInv(D, E), NEW x \in Handlers, stage[x] = "INIT",
         stage' = [stage EXCEPT ![x] = "DNS"],
         UNCHANGED <<status, waiters, hostOf, cached, zone, asked,
                     lfd, rfd, owner, timed, conns, ended>>
  PROVE  StateInv(D \cup {x}, E)'
<1>t. /\ stage \in [Handlers -> {"none", "INIT", "DNS", "CONNECTING", "STREAM",
                                 "DESTROYED"}]
      /\ TablesOK /\ ListsInv /\ SocketsInv
      /\ WaitsInv(D) /\ UnsharedInv(D) /\ DoomedInv(E)
  BY DEF StateInv, TablesOK
<1>u. /\ status \in [Hosts -> Families \cup {"none"}]
      /\ waiters \in [Hosts -> Seq(Callbacks)]
      /\ hostOf \in [Callbacks -> Hosts \cup {NoHost}]
      /\ cached \subseteq Hosts /\ asked \subseteq Hosts \X Families
      /\ zone \in [Hosts -> Zones] /\ Handlers = Callbacks
  BY DEF StateInv, TablesOK, DnsTypeOK, Handlers
<1>1. stage'[x] = "DNS" /\ \A y \in Handlers \ {x} : stage'[y] = stage[y]
  BY <1>t
<1>2. TablesOK'
  <2>1. stage' \in [Handlers -> {"none", "INIT", "DNS", "CONNECTING", "STREAM",
                                "DESTROYED"}]
    BY <1>t
  <2> QED
    BY <1>t, <2>1 DEF TablesOK, DnsTypeOK
<1>3. ListsInv' /\ Waiting' = Waiting /\ Waiting \subseteq Handlers
  BY <1>t DEF ListsInv, Waiting
<1>4. SocketsInv'
  <2>1. DescriptorsAgree'
    BY <1>t DEF SocketsInv, DescriptorsAgree
  <2>2. ASSUME NEW y \in Handlers
        PROVE  /\ stage'[y] \in {"none", "DESTROYED"} => lfd'[y] = NoFd
               /\ stage'[y] \in {"none", "INIT", "DNS", "DESTROYED"} => rfd'[y] = NoFd
               /\ y \in timed' => stage'[y] # "none"
    BY <1>t, <1>1 DEF SocketsInv
  <2> QED
    BY <2>1, <2>2 DEF SocketsInv
<1>5. x \notin D /\ x \notin Waiting /\ D \subseteq Handlers
  BY <1>t DEF WaitsInv
<1>6. WaitsInv(D \cup {x})'
  BY <1>t, <1>1, <1>3, <1>5 DEF WaitsInv
<1>7. UnsharedInv(D \cup {x})'
  <2>1. Alive' = Alive
    BY <1>1 DEF Alive
  <2>2. ASSUME NamesNotShared, NEW y \in (D \cup {x}) \cup Waiting
        PROVE  stage'[y] = "DNS"
    BY <1>t, <1>1, <1>3, <1>5, <2>2 DEF UnsharedInv
  <2> QED
    BY <1>t, <1>3, <2>1, <2>2 DEF UnsharedInv, NamesNotShared
<1>8. DoomedInv(E)'
  BY <1>t, <1>1 DEF DoomedInv
<1> QED
  BY <1>2, <1>3, <1>4, <1>6, <1>7, <1>8 DEF StateInv

\* A request for a name that is not known: the handler, which stood in no
\* list, waits in the one of its name.
LEMMA WaitState ==
  ASSUME NEW D, NEW E, StateInv(D, E), NEW x \in Handlers, stage[x] = "INIT",
         stage' = [stage EXCEPT ![x] = "DNS"], Enqueue(x, HostFor[x]),
         UNCHANGED <<lfd, rfd, owner, timed, conns, ended>>
  PROVE  StateInv(D, E)'
<1> USE ResolverAssumption
<1>t. /\ stage \in [Handlers -> {"none", "INIT", "DNS", "CONNECTING", "STREAM",
                                 "DESTROYED"}]
      /\ TablesOK /\ ListsInv /\ SocketsInv
      /\ WaitsInv(D) /\ UnsharedInv(D) /\ DoomedInv(E)
  BY DEF StateInv, TablesOK
<1>u. /\ status \in [Hosts -> Families \cup {"none"}]
      /\ waiters \in [Hosts -> Seq(Callbacks)]
      /\ hostOf \in [Callbacks -> Hosts \cup {NoHost}]
      /\ cached \subseteq Hosts /\ asked \subseteq Hosts \X Families
      /\ zone \in [Hosts -> Zones] /\ Handlers = Callbacks
  BY DEF StateInv, TablesOK, DnsTypeOK, Handlers
<1>1. stage'[x] = "DNS" /\ \A y \in Handlers \ {x} : stage'[y] = stage[y]
  BY <1>t
<1>2. PICK n : n = HostFor[x]
  OBVIOUS
<1>3. n \in Hosts /\ n # NoHost
  BY <1>2, RelayAssumption DEF Handlers
<1>4. /\ asked' = asked \cup {<<n, "first">>}
      /\ waiters' = [waiters EXCEPT ![n] = Append(@, x)]
      /\ IF waiters[n] = <<>>
         THEN /\ status' = [status EXCEPT ![n] = "first"]
              /\ hostOf' = [hostOf EXCEPT ![x] = n]
         ELSE UNCHANGED <<status, hostOf>>
      /\ UNCHANGED <<cached, zone>>
  BY <1>2 DEF Enqueue
<1>5. x \notin D /\ x \notin Waiting /\ D \subseteq Handlers
  BY <1>t DEF WaitsInv
<1>6. \A m \in Hosts : x \notin Keys(waiters[m])
  BY <1>5 DEF Waiting
<1>7. /\ waiters'[n] = Append(waiters[n], x)
      /\ \A m \in Hosts \ {n} : waiters'[m] = waiters[m]
  BY <1>u, <1>3, <1>4
<1>8. /\ waiters'[n] \in Seq(Callbacks) /\ Ordered(waiters'[n])
      /\ Keys(waiters'[n]) = Keys(waiters[n]) \cup {x}
  <2>1. waiters[n] \in Seq(Callbacks) /\ Ordered(waiters[n]) /\ x \in Callbacks
    BY <1>t, <1>u, <1>3 DEF ListsInv
  <2> QED
    BY <1>3, <1>6, <1>7, <2>1, AppendKey
<1>9. TablesOK'
  <2>1. stage' \in [Handlers -> {"none", "INIT", "DNS", "CONNECTING", "STREAM",
                                "DESTROYED"}]
    BY <1>t
  <2>2. waiters' \in [Hosts -> Seq(Callbacks)]
    BY <1>u, <1>3, <1>4, <1>7, <1>8
  <2>3. /\ status' \in [Hosts -> Families \cup {"none"}]
        /\ hostOf' \in [Callbacks -> Hosts \cup {NoHost}]
    <3>1. CASE waiters[n] = <<>>
      <4>1. "first" \in Families
        BY DEF Families
      <4>2. status' \in [Hosts -> Families \cup {"none"}]
        BY <1>u, <1>3, <1>4, <3>1, <4>1
      <4>3. hostOf' \in [Callbacks -> Hosts \cup {NoHost}]
        BY <1>u, <1>3, <1>4, <3>1
      <4> QED
        BY <4>2, <4>3
    <3>2. CASE waiters[n] # <<>>
      BY <1>u, <1>4, <3>2
    <3> QED
      BY <3>1, <3>2
  <2>4. asked' \subseteq Hosts \X Families
    <3>1. <<n, "first">> \in Hosts \X Families
      BY <1>3 DEF Families
    <3> QED
      BY <1>u, <1>4, <3>1
  <2>5. DnsTypeOK'
    BY <1>u, <1>4, <2>2, <2>3, <2>4 DEF DnsTypeOK
  <2> QED
    BY <1>t, <2>1, <2>5 DEF TablesOK
<1>10. \A y \in Handlers \ {x} : hostOf'[y] = hostOf[y]
  BY <1>u, <1>4
<1>11. hostOf[x] = NoHost
  <2>1. ASSUME hostOf[x] # NoHost PROVE FALSE
    <3>1. hostOf[x] \in Hosts /\ x \in Keys(waiters[hostOf[x]])
      BY <1>t, <1>u, <2>1 DEF ListsInv
    <3> QED
      BY <1>6, <3>1
  <2> QED
    BY <2>1
<1>12. hostOf'[x] \in {n, NoHost} /\ (waiters[n] = <<>> => hostOf'[x] = n)
  BY <1>u, <1>3, <1>4, <1>11
<1>13. ASSUME NEW m \in Hosts
       PROVE  /\ Ordered(waiters'[m])
              /\ Keys(waiters'[m]) = Keys(waiters[m]) \cup (IF m = n THEN {x} ELSE {})
  <2>1. CASE m = n
    BY <1>8, <2>1
  <2>2. CASE m # n
    BY <1>t, <1>7, <2>2 DEF ListsInv
  <2> QED
    BY <2>1, <2>2
<1>14. ListsInv'
  <2>1. ASSUME NEW m \in Hosts, NEW y \in Keys(waiters'[m]) PROVE HostFor[y] = m
    BY <1>t, <1>2, <1>13 DEF ListsInv
  <2>2. ASSUME NEW y \in Handlers, hostOf'[y] # NoHost
        PROVE  y \in Keys(waiters'[hostOf'[y]])
    <3>1. CASE y = x
      BY <1>3, <1>12, <1>13, <2>2, <3>1
    <3>2. CASE y # x
      <4>1. hostOf'[y] = hostOf[y] /\ hostOf[y] \in Hosts
        BY <1>u, <1>10, <2>2, <3>2
      <4>2. y \in Keys(waiters[hostOf[y]])
        BY <1>t, <2>2, <4>1 DEF ListsInv
      <4> QED
        BY <1>13, <4>1, <4>2
    <3> QED
      BY <3>1, <3>2
  <2> QED
    BY <1>13, <2>1, <2>2 DEF ListsInv
<1>15. Waiting' = Waiting \cup {x} /\ Waiting \subseteq Handlers
  <2>1. ASSUME NEW y \in Handlers
        PROVE  (\E m \in Hosts : y \in Keys(waiters'[m]))
               <=> ((\E m \in Hosts : y \in Keys(waiters[m])) \/ y = x)
    BY <1>3, <1>13
  <2> QED
    BY <2>1 DEF Waiting
<1>16. SocketsInv'
  <2>1. DescriptorsAgree'
    BY <1>t DEF SocketsInv, DescriptorsAgree
  <2>2. ASSUME NEW y \in Handlers
        PROVE  /\ stage'[y] \in {"none", "DESTROYED"} => lfd'[y] = NoFd
               /\ stage'[y] \in {"none", "INIT", "DNS", "DESTROYED"} => rfd'[y] = NoFd
               /\ y \in timed' => stage'[y] # "none"
    BY <1>t, <1>1 DEF SocketsInv
  <2> QED
    BY <2>1, <2>2 DEF SocketsInv
<1>17. WaitsInv(D)'
  BY <1>t, <1>1, <1>5, <1>15 DEF WaitsInv
<1>18. UnsharedInv(D)'
  <2>1. Alive' = Alive
    BY <1>1 DEF Alive
  <2>2. ASSUME NamesNotShared, NEW y \in D \cup Waiting' PROVE stage'[y] = "DNS"
    BY <1>t, <1>1, <1>5, <1>15, <2>2 DEF UnsharedInv
  <2>3. ASSUME NamesNotShared, NEW y \in Waiting' PROVE hostOf'[y] = HostFor[y]
    <3>1. CASE y = x
      <4>1. Keys(waiters[n]) = {}
        <5>1. ASSUME NEW z \in Keys(waiters[n]) PROVE FALSE
          <6>1. z \in Waiting /\ HostFor[z] = HostFor[x]
            BY <1>t, <1>2, <1>3, WaitingFacts DEF ListsInv
          <6>2. z = x
            BY <1>15, <2>3, <6>1 DEF NamesNotShared
          <6> QED
            BY <1>5, <6>1, <6>2
        <5> QED
          BY <5>1
      <4>2. waiters[n] = <<>>
        <5>1. waiters[n] \in Seq(Callbacks)
          BY <1>u, <1>3
        <5>2. ASSUME waiters[n] # <<>> PROVE waiters[n][1] \in Keys(waiters[n])
          BY <5>1, <5>2 DEF Keys
        <5> QED
          BY <4>1, <5>2
      <4> QED
        BY <1>2, <1>12, <3>1, <4>2
    <3>2. CASE y # x
      BY <1>t, <1>10, <1>15, <2>3, <3>2 DEF UnsharedInv
    <3> QED
      BY <3>1, <3>2
  <2> QED
    BY <1>t, <2>1, <2>2, <2>3 DEF UnsharedInv, NamesNotShared
<1>19. DoomedInv(E)'
  BY <1>t, <1>1 DEF DoomedInv
<1> QED
  BY <1>9, <1>14, <1>16, <1>17, <1>18, <1>19 DEF StateInv

\* A name server's reply: those it calls leave the lists, and their callbacks
\* are due.
LEMMA ReplyState ==
  ASSUME NEW E, StateInv({}, E), NEW n \in Hosts, NEW f \in Families,
         Answer(n, f), UNCHANGED <<stage, lfd, rfd, owner, timed, conns, ended>>,
         NEW K, K = Keys(Called(n, f))
  PROVE  StateInv(K, E)'
<1> USE ResolverAssumption
<1> DEFINE D == {}
<1>t. /\ stage \in [Handlers -> {"none", "INIT", "DNS", "CONNECTING", "STREAM",
                                 "DESTROYED"}]
      /\ TablesOK /\ ListsInv /\ SocketsInv
      /\ WaitsInv(D) /\ UnsharedInv(D) /\ DoomedInv(E)
  BY DEF StateInv, TablesOK
<1>u. /\ status \in [Hosts -> Families \cup {"none"}]
      /\ waiters \in [Hosts -> Seq(Callbacks)]
      /\ hostOf \in [Callbacks -> Hosts \cup {NoHost}]
      /\ cached \subseteq Hosts /\ asked \subseteq Hosts \X Families
      /\ zone \in [Hosts -> Zones] /\ Handlers = Callbacks
  BY DEF StateInv, TablesOK, DnsTypeOK, Handlers
<1>1. /\ cached' = (IF HasAddress(n, f) THEN cached \cup {n} ELSE cached)
      /\ UNCHANGED zone
  BY DEF Answer
<1>2. cached' \subseteq Hosts
  BY <1>u, <1>1
<1>3. SocketsInv' /\ DoomedInv(E)' /\ Alive' = Alive
  BY <1>t DEF SocketsInv, DescriptorsAgree, DoomedInv, Alive
<1>4. CASE EndsWait(n, f)
  <2>1. /\ status' = [status EXCEPT ![n] = "none"]
        /\ waiters' = [waiters EXCEPT ![n] = <<>>]
        /\ hostOf' = [c \in Callbacks |->
                        IF c \in ToSet(waiters[n]) THEN NoHost ELSE hostOf[c]]
        /\ UNCHANGED asked
        /\ Called(n, f) = waiters[n]
    BY <1>4 DEF Answer, Called
  <2>2. K = Keys(waiters[n])
    BY <2>1
  <2>3. ToSet(waiters[n]) = K
    BY <1>u, <2>2, ToSetIsKeys
  <2>4. K \subseteq Waiting /\ Waiting \subseteq Handlers
    BY <1>t, <2>2, WaitingFacts
  <2>5. <<>> \in Seq(Callbacks) /\ Keys(<<>>) = {} /\ Ordered(<<>>)
    BY DEF Keys, Ordered
  <2>6. waiters'[n] = <<>> /\ \A m \in Hosts \ {n} : waiters'[m] = waiters[m]
    BY <1>u, <2>1
  <2>7. TablesOK'
    <3>1. waiters' \in [Hosts -> Seq(Callbacks)]
      BY <1>u, <2>1, <2>5
    <3>2. status' \in [Hosts -> Families \cup {"none"}]
      BY <1>u, <2>1
    <3>3. hostOf' \in [Callbacks -> Hosts \cup {NoHost}]
      BY <1>u, <2>1
    <3> QED
      BY <1>t, <1>u, <1>1, <1>2, <2>1, <3>1, <3>2, <3>3 DEF TablesOK, DnsTypeOK
  <2>8. ASSUME NEW m \in Hosts
        PROVE  Ordered(waiters'[m]) /\ Keys(waiters'[m]) = Keys(waiters[m]) \ K
    <3>1. CASE m = n
      BY <2>2, <2>5, <2>6, <3>1
    <3>2. CASE m # n
      <4>1. /\ waiters'[m] = waiters[m] /\ Ordered(waiters[m])
            /\ \A y \in Keys(waiters[m]) : HostFor[y] = m
            /\ \A y \in K : HostFor[y] = n
        BY <1>t, <2>2, <2>6, <3>2 DEF ListsInv
      <4> QED
        BY <3>2, <4>1
    <3> QED
      BY <3>1, <3>2
  <2>9. \A y \in Handlers : hostOf'[y] = IF y \in K THEN NoHost ELSE hostOf[y]
    BY <1>u, <2>1, <2>3
  <2>10. ListsInv'
    <3>1. ASSUME NEW m \in Hosts, NEW y \in Keys(waiters'[m]) PROVE HostFor[y] = m
      BY <1>t, <2>8 DEF ListsInv
    <3>2. ASSUME NEW y \in Handlers, hostOf'[y] # NoHost
          PROVE  y \in Keys(waiters'[hostOf'[y]])
      <4>1. y \notin K /\ hostOf'[y] = hostOf[y] /\ hostOf[y] \in Hosts
        BY <1>u, <2>9, <3>2
      <4>2. y \in Keys(waiters[hostOf[y]])
        BY <1>t, <3>2, <4>1 DEF ListsInv
      <4> QED
        BY <2>8, <4>1, <4>2
    <3> QED
      BY <2>8, <3>1, <3>2 DEF ListsInv
  <2>11. Waiting' = Waiting \ K
    <3>1. ASSUME NEW y \in Handlers
          PROVE  (\E m \in Hosts : y \in Keys(waiters'[m]))
                 <=> ((\E m \in Hosts : y \in Keys(waiters[m])) /\ y \notin K)
      BY <2>8
    <3> QED
      BY <3>1 DEF Waiting
  <2>12. WaitsInv(K)'
    BY <1>t, <2>4, <2>11 DEF WaitsInv
  <2>13. UnsharedInv(K)'
    <3>1. ASSUME NamesNotShared, NEW y \in K \cup Waiting' PROVE stage'[y] = "DNS"
      BY <1>t, <2>4, <2>11, <3>1 DEF UnsharedInv
    <3>2. ASSUME NamesNotShared, NEW y \in Waiting' PROVE hostOf'[y] = HostFor[y]
      BY <1>t, <2>4, <2>9, <2>11, <3>2 DEF UnsharedInv
    <3> QED
      BY <1>t, <1>3, <3>1, <3>2 DEF UnsharedInv, NamesNotShared
  <2> QED
    BY <1>3, <2>7, <2>10, <2>12, <2>13 DEF StateInv
<1>5. CASE ~EndsWait(n, f)
  <2>1. /\ UNCHANGED <<waiters, hostOf>> /\ Called(n, f) = <<>>
        /\ IF TriesNextFamily(n, f)
           THEN /\ status' = [status EXCEPT ![n] = "second"]
                /\ asked' = asked \cup {<<n, "second">>}
           ELSE UNCHANGED <<status, asked>>
    BY <1>5 DEF Answer, Called
  <2>2. "second" \in Families /\ <<n, "second">> \in Hosts \X Families
    BY DEF Families
  <2>3. /\ status' \in [Hosts -> Families \cup {"none"}]
        /\ asked' \subseteq Hosts \X Families
    <3>1. CASE TriesNextFamily(n, f)
      <4>1. asked' \subseteq Hosts \X Families
        BY <1>u, <2>1, <2>2, <3>1
      <4>2. status' \in [Hosts -> Families \cup {"none"}]
        BY <1>u, <2>1, <2>2, <3>1
      <4> QED
        BY <4>1, <4>2
    <3>2. CASE ~TriesNextFamily(n, f)
      BY <1>u, <2>1, <3>2
    <3> QED
      BY <3>1, <3>2
  <2>4. TablesOK'
    BY <1>t, <1>u, <1>1, <1>2, <2>1, <2>3 DEF TablesOK, DnsTypeOK
  <2>5. ListsInv' /\ Waiting' = Waiting
    BY <1>t, <2>1 DEF ListsInv, Waiting
  <2>6. WaitsInv({})' /\ UnsharedInv({})'
    BY <1>t, <1>3, <2>1, <2>5 DEF WaitsInv, UnsharedInv, NamesNotShared
  <2>7. StateInv({}, E)'
    BY <1>3, <2>4, <2>5, <2>6 DEF StateInv
  <2>8. K = {}
    BY <2>1 DEF Keys
  <2> QED
    BY <2>7, <2>8
<1> QED
  BY <1>4, <1>5

\* The listening socket is taken out of the map.
LEMMA ListenerGone ==
  ASSUME NEW D, NEW E, StateInv(D, E), owner' = WithoutListener,
         UNCHANGED <<status, waiters, hostOf, cached, zone, asked,
                     stage, lfd, rfd, timed, conns, ended>>
  PROVE  StateInv(D, E)'
<1>1. owner \in [Fds -> Handlers \cup {Nobody, Listener}]
  BY DEF StateInv, TablesOK
<1>2. owner' = [f \in Fds |-> IF owner[f] = Listener THEN Nobody ELSE owner[f]]
  BY DEF WithoutListener
<1>3. TablesOK'
  <2>1. owner' \in [Fds -> Handlers \cup {Nobody, Listener}]
    BY <1>1, <1>2
  <2> QED
    BY <2>1 DEF StateInv, TablesOK, DnsTypeOK
<1>4. Waiting' = Waiting /\ Alive' = Alive
  BY DEF Waiting, Alive
<1>5. ListsInv'
  BY DEF StateInv, ListsInv
<1>6. SocketsInv'
  <2>1. ASSUME NEW f \in Fds, NEW y \in Handlers PROVE owner'[f] = y <=> owner[f] = y
    BY <1>1, <1>2, RelayAssumption DEF Handlers
  <2> QED
    BY <2>1 DEF StateInv, SocketsInv, DescriptorsAgree
<1>7. WaitsInv(D)' /\ UnsharedInv(D)' /\ DoomedInv(E)'
  BY <1>4 DEF StateInv, WaitsInv, UnsharedInv, DoomedInv, NamesNotShared
<1> QED
  BY <1>3, <1>5, <1>6, <1>7 DEF StateInv
-----------------------------------------------------------------------------
\* The invariant, from the round and the tables.
LEMMA Gather ==
  ASSUME NEW D, NEW E, Due(todo') \subseteq D, Doomed(todo') \subseteq E,
         StateInv(D, E)', RoundInv(todo'),
         port' \in {"open", "closing", "closed", "gone"}
  PROVE  Inv'
<1>1. PICK D2 : D2 = Due(todo')
  OBVIOUS
<1>2. PICK E2 : E2 = Doomed(todo')
  OBVIOUS
<1>3. StateInv(D2, E2)'
  <2>1. TablesOK' /\ ListsInv' /\ SocketsInv'
    BY DEF StateInv
  <2>2. WaitsInv(D)' /\ UnsharedInv(D)' /\ DoomedInv(E)'
    BY DEF StateInv
  <2>3. WaitsInv(D2)'
    BY <1>1, <2>2 DEF WaitsInv
  <2>4. UnsharedInv(D2)'
    BY <1>1, <2>2 DEF UnsharedInv
  <2>5. DoomedInv(E2)'
    BY <1>2, <2>2 DEF DoomedInv
  <2> QED
    BY <2>1, <2>3, <2>4, <2>5 DEF StateInv
<1>4. StateInv(Due(todo), Doomed(todo))'
  BY <1>1, <1>2, <1>3 DEF StateInv, WaitsInv, UnsharedInv, DoomedInv
<1> QED
  BY <1>4 DEF Inv

\* At first nobody is connected.
LEMMA InitInv == Init => Inv
<1> SUFFICES ASSUME Init PROVE Inv
  OBVIOUS
<1> USE ResolverAssumption, RelayAssumption
<1>1. TablesOK
  <2>1. <<>> \in Seq(Callbacks)
    OBVIOUS
  <2>2. DnsTypeOK
    BY <2>1 DEF Init, DnsInit, DnsTypeOK
  <2>3. owner \in [Fds -> Handlers \cup {Nobody, Listener}]
    BY DEF Init
  <2> QED
    BY <2>2, <2>3 DEF Init, TablesOK
<1>2. \A n \in Hosts : waiters[n] = <<>> /\ Keys(waiters[n]) = {}
  BY DEF Init, DnsInit, Keys
<1>3. Waiting = {} /\ Alive = {}
  BY <1>2 DEF Waiting, Alive, Init
<1>4. ListsInv
  BY <1>2 DEF ListsInv, Ordered, Init, DnsInit, Handlers
<1>5. SocketsInv
  <2>1. ASSUME NEW f \in Fds, NEW x \in Handlers PROVE owner[f] # x
    <3>1. x # Nobody /\ x # Listener
      BY DEF Handlers
    <3>2. owner[f] \in {Nobody, Listener}
      BY DEF Init
    <3> QED
      BY <3>1, <3>2
  <2>2. ASSUME NEW x \in Handlers
        PROVE  lfd[x] = NoFd /\ rfd[x] = NoFd /\ x \notin timed
    BY DEF Init
  <2> QED
    BY <2>1, <2>2 DEF SocketsInv, DescriptorsAgree
<1>6. RoundInv(todo) /\ Due(todo) = {} /\ Doomed(todo) = {}
  <2>1. todo = <<>> /\ <<>> \in Seq(Items) /\ Len(<<>>) = 0
    BY DEF Init
  <2> QED
    BY <2>1 DEF RoundInv, Due, Doomed
<1>7. WaitsInv({}) /\ DoomedInv({})
  BY <1>3 DEF WaitsInv, DoomedInv
<1>8. UnsharedInv({})
  BY <1>3, FS_EmptySet DEF UnsharedInv, Init
<1> QED
  BY <1>1, <1>4, <1>5, <1>6, <1>7, <1>8 DEF Inv, StateInv, Init

\* An item that is no callback is taken: none is due before or after.
LEMMA TakenOther ==
  ASSUME Inv, NEW item, item[1] # "dns", Take(item, <<>>)
  PROVE  /\ Due(todo) = {} /\ Due(todo') = {} /\ RoundInv(todo')
         /\ Doomed(todo') \subseteq Doomed(todo)
         /\ item[1] = "destroy" => item[2] \in Doomed(todo)
         /\ port' \in {"open", "closing", "closed", "gone"}
<1>1. /\ RoundInv(todo) /\ todo \in Seq(Items) /\ todo # <<>> /\ Head(todo) = item
      /\ todo' = <<>> \o Tail(todo) /\ port' = port
      /\ port \in {"open", "closing", "closed", "gone"}
  BY DEF Inv, RoundInv, Take
<1>2. Tail(todo) \in Seq(Items)
  BY <1>1, TakeHead
<1>3. <<>> \o Tail(todo) = Tail(todo)
  BY <1>2
<1>4. todo' = Tail(todo)
  BY <1>1, <1>3
<1>5. /\ RoundInv(Tail(todo)) /\ Due(todo) = {} /\ Due(Tail(todo)) = {}
  BY <1>1, RoundTaken
<1>6. /\ Doomed(Tail(todo)) \subseteq Doomed(todo)
      /\ item[1] = "destroy" => item[2] \in Doomed(todo)
  BY <1>1, DoomedTail
<1> QED
  BY <1>1, <1>4, <1>5, <1>6

\* A callback is taken: it is the last one of its handler.
LEMMA TakenCall ==
  ASSUME Inv, NEW x \in Handlers, NEW ok, Take(<<"dns", x, ok>>, <<>>)
  PROVE  /\ x \in Due(todo) /\ Due(todo') = Due(todo) \ {x} /\ RoundInv(todo')
         /\ Doomed(todo') \subseteq Doomed(todo)
         /\ port' \in {"open", "closing", "closed", "gone"}
<1>0. <<"dns", x, ok>>[1] = "dns" /\ <<"dns", x, ok>>[2] = x
  OBVIOUS
<1>1. /\ RoundInv(todo) /\ todo \in Seq(Items) /\ todo # <<>>
      /\ Head(todo)[1] = "dns" /\ Head(todo)[2] = x
      /\ todo' = <<>> \o Tail(todo) /\ port' = port
      /\ port \in {"open", "closing", "closed", "gone"}
  BY <1>0 DEF Inv, RoundInv, Take
<1>2. Tail(todo) \in Seq(Items)
  BY <1>1, TakeHead
<1>3. <<>> \o Tail(todo) = Tail(todo)
  BY <1>2
<1>4. todo' = Tail(todo)
  BY <1>1, <1>3
<1>5. /\ RoundInv(Tail(todo)) /\ x \in Due(todo)
      /\ Due(Tail(todo)) = Due(todo) \ {x}
  BY <1>1, RoundTaken
<1>6. Doomed(Tail(todo)) \subseteq Doomed(todo)
  BY <1>1, DoomedTail
<1> QED
  BY <1>1, <1>4, <1>5, <1>6

\* An item is taken that brings callbacks of s.
LEMMA TakenBrings ==
  ASSUME Inv, NEW item, item[1] \notin {"dns", "destroy"},
         NEW s \in Seq(Handlers), Ordered(s), NEW ok \in BOOLEAN,
         NEW m, m = [i \in 1..Len(s) |-> <<"dns", s[i], ok>>], Take(item, m)
  PROVE  /\ Due(todo) = {} /\ Due(todo') = Keys(s) /\ RoundInv(todo')
         /\ Doomed(todo') \subseteq Doomed(todo)
         /\ port' \in {"open", "closing", "closed", "gone"}
<1>1. /\ RoundInv(todo) /\ todo \in Seq(Items) /\ todo # <<>> /\ Head(todo) = item
      /\ todo' = m \o Tail(todo) /\ port' = port
      /\ port \in {"open", "closing", "closed", "gone"}
  BY DEF Inv, RoundInv, Take
<1>2. /\ RoundInv(Tail(todo)) /\ Due(todo) = {} /\ Due(Tail(todo)) = {}
  BY <1>1, RoundTaken
<1>3. RoundInv(todo') /\ Due(todo') = Keys(s)
  BY <1>1, <1>2, RoundCalls
<1>4. Doomed(Tail(todo)) \subseteq Doomed(todo)
  BY <1>1, DoomedTail
<1>5. m \in Seq(Items) /\ Doomed(m) = {}
  <2>1. ASSUME NEW i \in 1..Len(s)
        PROVE  /\ <<"dns", s[i], ok>> \in Items
               /\ m[i][1] # "destroy"
    <3>1. s[i] \in Handlers
      BY DEF Handlers
    <3> QED
      BY <3>1, ItemFacts
  <2>2. m \in [1..Len(s) -> Items] /\ Len(s) \in Nat
    BY <2>1
  <2>3. m \in Seq(Items) /\ Len(m) = Len(s)
    BY <2>2, ItemsOf
  <2> QED
    BY <2>1, <2>3 DEF Doomed
<1>6. Doomed(m \o Tail(todo)) \subseteq Doomed(m) \cup Doomed(Tail(todo))
  <2>1. Tail(todo) \in Seq(Items)
    BY <1>1, TakeHead
  <2> QED
    BY <1>5, <2>1, DoomedJoin
<1> QED
  BY <1>1, <1>2, <1>3, <1>4, <1>5, <1>6

\* The destroy() calls of a port that closes.
LEMMA BringsDestroys ==
  ASSUME Inv, Due(todo) = {}, DestroyAll
  PROVE  \E X \in SUBSET Handlers :
           /\ RoundInv(todo') /\ Due(todo') = {}
           /\ Doomed(todo') \subseteq Doomed(todo) \cup X
           /\ \A x \in X : stage[x] # "none"
<1>1. PICK fs \in SetToSeqs(ToDestroy) :
        todo' = [i \in DOMAIN fs |-> <<"destroy", owner[fs[i]]>>] \o todo
  BY DEF DestroyAll
<1>2. PICK X : X = {owner[f] : f \in ToDestroy}
  OBVIOUS
<1>3. ToDestroy \subseteq Fds /\ \A f \in ToDestroy : owner[f] \in Handlers
  BY DEF ToDestroy
<1>4. X \subseteq Handlers /\ \A f \in ToDestroy : owner[f] \in X
  BY <1>2, <1>3
<1>5. ASSUME NEW x \in X PROVE stage[x] # "none"
  <2>1. PICK f \in ToDestroy : owner[f] = x
    BY <1>2
  <2>2. StateInv(Due(todo), Doomed(todo)) /\ f \in Fds /\ x \in Handlers
    BY <1>3, <2>1 DEF Inv
  <2> QED
    BY <2>1, <2>2, OwnerLives
<1>6. PICK k : k = Cardinality(ToDestroy)
  OBVIOUS
<1>7. k \in Nat
  <2>1. IsFiniteSet(ToDestroy)
    BY <1>3, RelayAssumption, FS_Subset
  <2> QED
    BY <1>6, <2>1, FS_CardinalityType
<1>8. fs \in [1..k -> ToDestroy]
  BY <1>1, <1>6 DEF SetToSeqs
<1>9. PICK m : m = [i \in DOMAIN fs |-> <<"destroy", owner[fs[i]]>>]
  OBVIOUS
<1>10. DOMAIN m = 1..k /\ m \in [1..k -> {<<"destroy", x>> : x \in X}]
  <2>1. m = [i \in 1..k |-> <<"destroy", owner[fs[i]]>>]
    BY <1>8, <1>9
  <2>2. \A i \in 1..k : owner[fs[i]] \in X
    BY <1>4, <1>8
  <2>3. ASSUME NEW i \in 1..k
        PROVE  <<"destroy", owner[fs[i]]>> \in {<<"destroy", x>> : x \in X}
    BY <2>2
  <2> QED
    BY <2>1, <2>3
<1>11. RoundInv(todo)
  BY DEF Inv
<1>12. /\ RoundInv(m \o todo) /\ Due(m \o todo) = {}
       /\ Doomed(m \o todo) \subseteq Doomed(todo) \cup X
  BY <1>4, <1>7, <1>10, <1>11, RoundDestroys
<1> QED
  BY <1>1, <1>4, <1>5, <1>9, <1>12

\* An event that ends the handler.
LEMMA EndInv ==
  ASSUME Inv, NEW f \in Fds, NEW e, NEW x \in Handlers, OnEnd(f, e, x)
  PROVE  Inv'
<1>1. <<"event", f, e>>[1] = "event"
  OBVIOUS
<1>2. /\ Due(todo) = {} /\ Due(todo') = {} /\ RoundInv(todo')
      /\ Doomed(todo') \subseteq Doomed(todo)
      /\ port' \in {"open", "closing", "closed", "gone"}
  BY <1>1, TakenOther DEF OnEnd
<1>3. PICK E : E = Doomed(todo)
  OBVIOUS
<1>4. StateInv({}, E)
  BY <1>2, <1>3 DEF Inv
<1>5. StateInv({}, E)'
  <2>1. stage[x] # "none"
    BY <1>4, OwnerLives DEF OnEnd
  <2> QED
    BY <1>4, <2>1, DestroyState DEF OnEnd
<1> QED
  BY <1>2, <1>3, <1>5, Gather

\* An event of a descriptor that is closed, or a client that is not there.
LEMMA NothingInv ==
  ASSUME Inv, NEW f, NEW e, Take(<<"event", f, e>>, <<>>),
         UNCHANGED <<status, waiters, hostOf, cached, zone, asked,
                     stage, lfd, rfd, owner, timed, conns, ended>>
  PROVE  Inv'
<1>1. <<"event", f, e>>[1] = "event"
  OBVIOUS
<1>2. /\ Due(todo) = {} /\ Due(todo') = {} /\ RoundInv(todo')
      /\ Doomed(todo') \subseteq Doomed(todo)
      /\ port' \in {"open", "closing", "closed", "gone"}
  BY <1>1, TakenOther
<1>3. PICK E : E = Doomed(todo)
  OBVIOUS
<1>4. StateInv({}, E)
  BY <1>2, <1>3 DEF Inv
<1>5. StateInv({}, E)'
  BY <1>4, Untouched
<1> QED
  BY <1>2, <1>3, <1>5, Gather

\* An event of the listening socket.
LEMMA AcceptInv ==
  ASSUME Inv, NEW f \in Fds, NEW x \in Handlers, OnAccept(f, x)
  PROVE  Inv'
<1>1. <<"event", f, "IN">>[1] = "event"
  OBVIOUS
<1>2. /\ Due(todo) = {} /\ Due(todo') = {} /\ RoundInv(todo')
      /\ Doomed(todo') \subseteq Doomed(todo)
      /\ port' \in {"open", "closing", "closed", "gone"}
  BY <1>1, TakenOther DEF OnAccept
<1>3. PICK E : E = Doomed(todo)
  OBVIOUS
<1>4. StateInv({}, E)
  BY <1>2, <1>3 DEF Inv
<1>5. CASE UNCHANGED <<stage, lfd, owner, timed, conns>>
  <2>1. StateInv({}, E)'
    BY <1>4, <1>5, Untouched DEF OnAccept
  <2> QED
    BY <1>2, <1>3, <2>1, Gather
<1>6. CASE /\ stage' = [stage EXCEPT ![x] = "INIT"]
           /\ \E g \in Fds : /\ LowestFree(g)
                             /\ lfd' = [lfd EXCEPT ![x] = g]
                             /\ owner' = [owner EXCEPT ![g] = x]
           /\ timed' = timed \cup {x}
           /\ conns' = conns + 1
  <2>1. PICK g \in Fds : /\ owner[g] = Nobody
                         /\ lfd' = [lfd EXCEPT ![x] = g]
                         /\ owner' = [owner EXCEPT ![g] = x]
    BY <1>6 DEF LowestFree, FreeFds
  <2>2. /\ stage[x] = "none"
        /\ UNCHANGED <<status, waiters, hostOf, cached, zone, asked, rfd, ended>>
    BY DEF OnAccept
  <2>3. StateInv({}, E)'
    BY <1>4, <1>6, <2>1, <2>2, AcceptState
  <2> QED
    BY <1>2, <1>3, <2>3, Gather
<1> QED
  BY <1>5, <1>6 DEF OnAccept

\* An event that brings data, or room for it.
LEMMA DataInv ==
  ASSUME Inv, NEW f \in Fds, NEW e, NEW x \in Handlers, OnData(f, e, x)
  PROVE  Inv'
<1>1. <<"event", f, e>>[1] = "event"
  OBVIOUS
<1>2. /\ Due(todo) = {} /\ Due(todo') = {} /\ RoundInv(todo')
      /\ Doomed(todo') \subseteq Doomed(todo)
      /\ port' \in {"open", "closing", "closed", "gone"}
  BY <1>1, TakenOther DEF OnData
<1>3. PICK E : E = Doomed(todo)
  OBVIOUS
<1>4. StateInv({}, E)
  BY <1>2, <1>3 DEF Inv
<1>5. PICK active \in BOOLEAN : Activity(x, active)
  BY DEF OnData
<1>6. StateInv({}, E)'
  BY <1>4, <1>5, DataState DEF OnData
<1> QED
  BY <1>2, <1>3, <1>6, Gather

\* The request of a client.
LEMMA RequestInv ==
  ASSUME Inv, NEW f \in Fds, NEW x \in Handlers, OnRequest(f, x)
  PROVE  Inv'
<1>1. <<"event", f, "IN">>[1] = "event"
  OBVIOUS
<1>2. /\ stage[x] = "INIT" /\ stage' = [stage EXCEPT ![x] = "DNS"]
      /\ UNCHANGED <<lfd, rfd, owner, timed, conns, ended>>
  BY DEF OnRequest
<1>3. CASE HostFor[x] \in cached
  <2>1. /\ Take(<<"event", f, "IN">>, << <<"dns", x, TRUE>> >>)
        /\ UNCHANGED <<status, waiters, hostOf, cached, zone, asked>>
    BY <1>3 DEF OnRequest
  <2>2. PICK s : s = <<x>>
    OBVIOUS
  <2>3. /\ s \in Seq(Handlers) /\ Len(s) = 1 /\ s[1] = x /\ Ordered(s)
        /\ Keys(s) = {x}
    <3>1. s \in Seq(Handlers) /\ Len(s) = 1 /\ s[1] = x
      BY <2>2
    <3> QED
      BY <3>1 DEF Ordered, Keys
  <2>4. << <<"dns", x, TRUE>> >> = [i \in 1..Len(s) |-> <<"dns", s[i], TRUE>>]
    <3>1. PICK e : e = <<"dns", x, TRUE>>
      OBVIOUS
    <3>2. <<e>> = [i \in 1..1 |-> e]
      OBVIOUS
    <3>3. \A i \in 1..1 : <<"dns", s[i], TRUE>> = e
      BY <2>3, <3>1
    <3>4. [i \in 1..Len(s) |-> <<"dns", s[i], TRUE>>] = [i \in 1..1 |-> e]
      BY <2>3, <3>3
    <3> QED
      BY <3>1, <3>2, <3>4
  <2>5. PICK m : m = << <<"dns", x, TRUE>> >>
    OBVIOUS
  <2>6. /\ Due(todo) = {} /\ Due(todo') = {x} /\ RoundInv(todo')
        /\ Doomed(todo') \subseteq Doomed(todo)
        /\ port' \in {"open", "closing", "closed", "gone"}
    BY <1>1, <2>1, <2>3, <2>4, <2>5, TakenBrings
  <2>7. PICK E : E = Doomed(todo)
    OBVIOUS
  <2>8. StateInv({}, E)
    BY <2>6, <2>7 DEF Inv
  <2>9. StateInv({} \cup {x}, E)'
    BY <1>2, <2>1, <2>8, KnownState
  <2> QED
    BY <2>6, <2>7, <2>9, Gather
<1>4. CASE HostFor[x] \notin cached
  <2>1. Take(<<"event", f, "IN">>, <<>>) /\ Enqueue(x, HostFor[x])
    BY <1>4 DEF OnRequest
  <2>2. /\ Due(todo) = {} /\ Due(todo') = {} /\ RoundInv(todo')
        /\ Doomed(todo') \subseteq Doomed(todo)
        /\ port' \in {"open", "closing", "closed", "gone"}
    BY <1>1, <2>1, TakenOther
  <2>3. PICK E : E = Doomed(todo)
    OBVIOUS
  <2>4. StateInv({}, E)
    BY <2>2, <2>3 DEF Inv
  <2>5. StateInv({}, E)'
    BY <1>2, <2>1, <2>4, WaitState
  <2> QED
    BY <2>2, <2>3, <2>5, Gather
<1> QED
  BY <1>3, <1>4

\* A name server's reply.
LEMMA ReplyInv ==
  ASSUME Inv, NEW n \in Hosts, NEW f \in Families, OnReply(n, f)
  PROVE  Inv'
<1>1. <<"reply", n, f>>[1] = "reply"
  OBVIOUS
<1>2. PICK s : s = Called(n, f)
  OBVIOUS
<1>3. PICK ok : ok = HasAddress(n, f)
  OBVIOUS
<1>4. ok \in BOOLEAN
  BY <1>3 DEF HasAddress
<1>5. s \in Seq(Handlers) /\ Ordered(s)
  <2>1. waiters[n] \in Seq(Handlers) /\ Ordered(waiters[n])
    BY DEF Inv, StateInv, TablesOK, DnsTypeOK, ListsInv, Handlers
  <2>2. <<>> \in Seq(Handlers) /\ Ordered(<<>>)
    BY DEF Ordered
  <2> QED
    BY <1>2, <2>1, <2>2 DEF Called
<1>6. PICK m : m = [i \in 1..Len(s) |-> <<"dns", s[i], ok>>]
  OBVIOUS
<1>7. /\ Take(<<"reply", n, f>>, m) /\ Answer(n, f)
      /\ UNCHANGED <<stage, lfd, rfd, owner, timed, conns, ended>>
  BY <1>2, <1>3, <1>6 DEF OnReply
<1>8. /\ Due(todo) = {} /\ Due(todo') = Keys(s) /\ RoundInv(todo')
      /\ Doomed(todo') \subseteq Doomed(todo)
      /\ port' \in {"open", "closing", "closed", "gone"}
  BY <1>1, <1>4, <1>5, <1>6, <1>7, TakenBrings
<1>9. PICK E : E = Doomed(todo)
  OBVIOUS
<1>10. StateInv({}, E)
  BY <1>8, <1>9 DEF Inv
<1>11. PICK K : K = Keys(s)
  OBVIOUS
<1>12. StateInv(K, E)'
  <2>1. K = Keys(Called(n, f))
    BY <1>2, <1>11
  <2> QED
    BY <1>7, <1>10, <2>1, ReplyState
<1> QED
  BY <1>8, <1>9, <1>11, <1>12, Gather

\* A callback with an address.
LEMMA ResolvedInv ==
  ASSUME Inv, NEW x \in Handlers, OnResolved(x)
  PROVE  Inv'
<1>1. /\ x \in Due(todo) /\ Due(todo') = Due(todo) \ {x} /\ RoundInv(todo')
      /\ Doomed(todo') \subseteq Doomed(todo)
      /\ port' \in {"open", "closing", "closed", "gone"}
  BY TakenCall DEF OnResolved
<1>2. PICK E : E = Doomed(todo)
  OBVIOUS
<1>3. PICK D : D = Due(todo) \ {x}
  OBVIOUS
<1>4. StateInv(Due(todo), E)
  BY <1>2 DEF Inv
<1>5. StateInv(D, E) /\ x \notin D
  BY <1>3, <1>4, FewerDue
<1>6. x \notin Waiting /\ stage[x] \in {"DNS", "DESTROYED"}
  BY <1>1, <1>4 DEF StateInv, WaitsInv
<1>7. NamesNotShared => stage[x] = "DNS"
  BY <1>1, <1>4 DEF StateInv, UnsharedInv
<1>8. StateInv(D, E)'
  <2>1. CASE TakeDown(x)
    <3>1. stage[x] # "none" /\ (NamesNotShared => x \in Alive)
      BY <1>6, <1>7 DEF Alive
    <3> QED
      BY <1>5, <2>1, <3>1, TakeDownState
  <2>2. CASE /\ stage' = [stage EXCEPT ![x] = "CONNECTING"]
             /\ \E g \in Fds : /\ LowestFree(g)
                               /\ rfd' = [rfd EXCEPT ![x] = g]
                               /\ owner' = [owner EXCEPT ![g] = x]
             /\ UNCHANGED <<status, waiters, hostOf, cached, zone, asked,
                            lfd, timed, conns, ended>>
    <3>1. PICK g \in Fds : /\ owner[g] = Nobody
                           /\ rfd' = [rfd EXCEPT ![x] = g]
                           /\ owner' = [owner EXCEPT ![g] = x]
      BY <2>2 DEF LowestFree, FreeFds
    <3> QED
      BY <1>5, <1>6, <1>7, <2>2, <3>1, ConnectState
  <2> QED
    BY <2>1, <2>2 DEF OnResolved
<1> QED
  BY <1>1, <1>2, <1>3, <1>8, Gather

\* A callback with an error.
LEMMA UnresolvedInv ==
  ASSUME Inv, NEW x \in Handlers, OnUnresolved(x)
  PROVE  Inv'
<1>1. /\ x \in Due(todo) /\ Due(todo') = Due(todo) \ {x} /\ RoundInv(todo')
      /\ Doomed(todo') \subseteq Doomed(todo)
      /\ port' \in {"open", "closing", "closed", "gone"}
  BY TakenCall DEF OnUnresolved
<1>2. PICK E : E = Doomed(todo)
  OBVIOUS
<1>3. PICK D : D = Due(todo) \ {x}
  OBVIOUS
<1>4. StateInv(Due(todo), E)
  BY <1>2 DEF Inv
<1>5. StateInv(D, E) /\ x \notin D
  BY <1>3, <1>4, FewerDue
<1>6. stage[x] # "none"
  BY <1>1, <1>4 DEF StateInv, WaitsInv
<1>7. StateInv(D, E)'
  BY <1>5, <1>6, DestroyState DEF OnUnresolved
<1> QED
  BY <1>1, <1>2, <1>3, <1>7, Gather

\* A destroy() of a closing port.
LEMMA DoomedTaken ==
  ASSUME Inv, NEW x \in Handlers, OnDestroy(x)
  PROVE  Inv'
<1>1. <<"destroy", x>>[1] = "destroy" /\ <<"destroy", x>>[2] = x
  OBVIOUS
<1>2. /\ Due(todo) = {} /\ Due(todo') = {} /\ RoundInv(todo')
      /\ Doomed(todo') \subseteq Doomed(todo) /\ x \in Doomed(todo)
      /\ port' \in {"open", "closing", "closed", "gone"}
  BY <1>1, TakenOther DEF OnDestroy
<1>3. PICK E : E = Doomed(todo)
  OBVIOUS
<1>4. StateInv({}, E)
  BY <1>2, <1>3 DEF Inv
<1>5. stage[x] # "none"
  BY <1>2, <1>3, <1>4 DEF StateInv, DoomedInv
<1>6. StateInv({}, E)'
  BY <1>4, <1>5, DestroyState DEF OnDestroy
<1> QED
  BY <1>2, <1>3, <1>6, Gather

\* The sweep.
LEMMA TimeOutInv ==
  ASSUME Inv, NEW x \in Handlers, TimeOut(x)
  PROVE  Inv'
<1>1. todo = <<>> /\ x \in timed /\ TakeDown(x) /\ UNCHANGED <<todo, port>>
  BY DEF TimeOut
<1>2. Due(todo) = {} /\ RoundInv(todo')
  BY <1>1 DEF Due, Inv
<1>3. PICK E : E = Doomed(todo)
  OBVIOUS
<1>4. StateInv({}, E)
  BY <1>2, <1>3 DEF Inv
<1>5. stage[x] # "none" /\ (NamesNotShared => x \in Alive)
  BY <1>1, <1>4 DEF StateInv, SocketsInv, UnsharedInv
<1>6. StateInv({}, E)'
  BY <1>1, <1>4, <1>5, TakeDownState
<1>7. Due(todo') = {} /\ Doomed(todo') = E
  BY <1>1, <1>2, <1>3
<1>8. port' \in {"open", "closing", "closed", "gone"}
  BY <1>1 DEF Inv
<1> QED
  BY <1>2, <1>6, <1>7, <1>8, Gather

\* The port is closed: by the sweep that sees the flag, or at once.
LEMMA ClosedInv ==
  ASSUME Inv, Due(todo) = {}, owner' = WithoutListener, DestroyAll,
         port' \in {"open", "closing", "closed", "gone"},
         UNCHANGED <<status, waiters, hostOf, cached, zone, asked,
                     stage, lfd, rfd, timed, conns, ended>>
  PROVE  Inv'
<1>1. PICK X \in SUBSET Handlers :
        /\ RoundInv(todo') /\ Due(todo') = {}
        /\ Doomed(todo') \subseteq Doomed(todo) \cup X
        /\ \A x \in X : stage[x] # "none"
  BY BringsDestroys
<1>2. PICK E : E = Doomed(todo) \cup X
  OBVIOUS
<1>3. StateInv({}, E)
  <2>1. StateInv({}, Doomed(todo))
    BY DEF Inv
  <2>2. DoomedInv(E)
    BY <1>1, <1>2, <2>1 DEF StateInv, DoomedInv
  <2> QED
    BY <2>1, <2>2 DEF StateInv
<1>4. StateInv({}, E)'
  BY <1>3, ListenerGone
<1> QED
  BY <1>1, <1>2, <1>4, Gather

\* Every step keeps the invariant.
LEMMA NextInv == Inv /\ [Next]_vars => Inv'
<1> SUFFICES ASSUME Inv, [Next]_vars PROVE Inv'
  OBVIOUS
<1>0. RoundInv(todo) /\ todo \in Seq(Items)
  BY DEF Inv, RoundInv
<1>1. CASE Poll
  <2>1. PICK n \in 1..MaxBatch : todo' \in [1..n -> Ready]
    BY <1>1 DEF Poll
  <2>2. n \in Nat /\ TablesOK
    BY RelayAssumption DEF Inv, StateInv
  <2>3. PICK t : t = todo'
    OBVIOUS
  <2>4. RoundInv(t) /\ Due(t) = {} /\ Doomed(t) = {}
    BY <2>1, <2>2, <2>3, RoundPolled
  <2>5. PICK E : E = Doomed(todo)
    OBVIOUS
  <2>6. todo = <<>> /\ Due(todo) = {}
    BY <1>1 DEF Poll, Due
  <2>7. StateInv({}, E)
    BY <2>5, <2>6 DEF Inv
  <2>8. StateInv({}, E)'
    BY <1>1, <2>7, Untouched DEF Poll
  <2>9. port' \in {"open", "closing", "closed", "gone"}
    BY <1>1 DEF Poll, Inv
  <2> QED
    BY <2>3, <2>4, <2>8, <2>9, Gather
<1>2. CASE Step
  <2>1. ASSUME NEW f \in Fds, NEW e \in {"IN", "OUT", "ERR"}, OnStale(f, e)
        PROVE  Inv'
    BY <2>1, NothingInv DEF OnStale
  <2>2. ASSUME NEW f \in Fds, OnAcceptNothing(f) PROVE Inv'
    BY <2>2, NothingInv DEF OnAcceptNothing
  <2> QED
    BY <1>2, <2>1, <2>2, EndInv, DataInv, AcceptInv, RequestInv, ReplyInv,
       ResolvedInv, UnresolvedInv, DoomedTaken DEF Step
<1>3. ASSUME NEW x \in Handlers, TimeOut(x) PROVE Inv'
  BY <1>3, TimeOutInv
<1>4. CASE Close \/ UNCHANGED vars
  <2>1. PICK D : D = Due(todo)
    OBVIOUS
  <2>2. PICK E : E = Doomed(todo)
    OBVIOUS
  <2>3. /\ StateInv(D, E)
        /\ UNCHANGED <<status, waiters, hostOf, cached, zone, asked,
                       stage, lfd, rfd, owner, timed, conns, ended>>
        /\ todo' = todo
    BY <1>4, <2>1, <2>2 DEF Inv, Close, vars
  <2>4. StateInv(D, E)'
    BY <2>3, Untouched
  <2>5. port' \in {"open", "closing", "closed", "gone"}
    BY <1>4 DEF Inv, Close, vars
  <2>6. Due(todo') = D /\ Doomed(todo') = E /\ RoundInv(todo')
    BY <1>0, <2>1, <2>2, <2>3
  <2> QED
    BY <2>4, <2>5, <2>6, Gather
<1>5. CASE PeriodicClosed
  <2>1. Due(todo) = {}
    BY <1>5 DEF PeriodicClosed, Due
  <2> QED
    BY <1>5, <2>1, ClosedInv DEF PeriodicClosed
<1>6. CASE CloseNow
  <2>1. Due(todo) = {}
    <3>1. CASE todo = <<>>
      BY <3>1 DEF Due
    <3>2. CASE todo # <<>>
      <4>1. Head(todo)[1] # "dns"
        BY <1>6, <3>2 DEF CloseNow
      <4> QED
        BY <1>0, <3>2, <4>1, RoundTaken
    <3> QED
      BY <3>1, <3>2
  <2> QED
    BY <1>6, <2>1, ClosedInv DEF CloseNow
<1> QED
  BY <1>1, <1>2, <1>3, <1>4, <1>5, <1>6 DEF Next

\* The invariant holds all the time.
LEMMA Invariant == Spec => []Inv
BY InitInv, NextInv, PTL DEF Spec

\* Every variable keeps its type.
THEOREM TypeCorrect == Spec => []TypeOK
<1>1. Inv => TypeOK
  BY DEF Inv, RoundInv, StateInv, TablesOK, TypeOK
<1> QED
  BY <1>1, Invariant, PTL

\* _fd_to_handlers and the handlers' sockets agree, whatever events, replies,
\* timeouts and closings come in between, and also where a handler is connected
\* after its destroy: no descriptor is left to a handler that does not have it.
THEOREM MapAgrees == Spec => []DescriptorsAgree
<1>1. Inv => DescriptorsAgree
  BY DEF Inv, StateInv, SocketsInv
<1> QED
  BY <1>1, Invariant, PTL

\* server_connections, kept by += 1 and -= 1, is the number of connections that
\* live, as long as clients ask for different names.
THEOREM CountRight == Spec => []ConnectionsCounted
<1>1. Inv => ConnectionsCounted
  BY DEF Inv, StateInv, UnsharedInv, ConnectionsCounted
<1> QED
  BY <1>1, Invariant, PTL

\* As long as clients ask for different names, a handler that is destroyed is
\* in no table any more: no event, sweep or reply reaches it.
THEOREM DestroyedIsGone == Spec => []NothingLeaks
<1>1. Inv => NothingLeaks
  <2> SUFFICES ASSUME Inv, NamesNotShared, NEW x \in Handlers, stage[x] = "DESTROYED"
               PROVE  /\ lfd[x] = NoFd /\ rfd[x] = NoFd
                      /\ x \notin timed
                      /\ \A n \in Hosts : x \notin ToSet(waiters[n])
    BY DEF NothingLeaks
  <2>1. lfd[x] = NoFd /\ rfd[x] = NoFd
    BY DEF Inv, StateInv, SocketsInv
  <2>2. x \notin timed /\ x \notin Waiting
    BY DEF Inv, StateInv, UnsharedInv, Alive
  <2>3. ASSUME NEW n \in Hosts PROVE x \notin ToSet(waiters[n])
    <3>1. waiters[n] \in Seq(Handlers) /\ Keys(waiters[n]) \subseteq Waiting
      BY WaitingFacts DEF Inv, StateInv
    <3> QED
      BY <2>2, <3>1, ToSetIsKeys
  <2> QED
    BY <2>1, <2>2, <2>3
<1> QED
  BY <1>1, Invariant, PTL

\* As long as clients ask for different names, a connection that lives is in
\* the timeout cache and in the map: the sweep and a closing port find it.
THEOREM AliveIsFound == Spec => []Reclaimable
<1>1. Inv => Reclaimable
  <2> SUFFICES ASSUME Inv, NamesNotShared, NEW x \in Alive
               PROVE  x \in timed /\ owner[lfd[x]] = x
    BY DEF Reclaimable
  <2>1. x \in timed /\ lfd[x] # NoFd /\ x \in Handlers
    BY DEF Inv, StateInv, UnsharedInv, Alive
  <2>2. lfd[x] \in Fds
    BY <2>1 DEF Inv, StateInv, TablesOK
  <2>3. owner[lfd[x]] = x
    BY <2>1, <2>2 DEF Inv, StateInv, SocketsInv, DescriptorsAgree
  <2> QED
    BY <2>1, <2>3
<1> QED
  BY <1>1, Invariant, PTL
=============================================================================
