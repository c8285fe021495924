--------------------------- MODULE UDPRelayProofs ---------------------------
(* Theorems about UDPRelay: its tables agree for every set of clients and  *)
(* of descriptors and for caches of every size.                            *)
EXTENDS UDPRelay, SequenceLemmas

\* Two orders without repetitions that share no key.
Orders(ca, dn) ==
  /\ ca \in Seq(ClientKeys) /\ Ordered(ca)
  /\ dn \in Seq(ClientKeys) /\ Ordered(dn)
  /\ Keys(ca) \cap Keys(dn) = {}

\* The tables of sockets, as they are when K are the keys of both caches: one
\* descriptor for each key, and the key under the descriptor.
Agreed(K, so, ho, ss, op) ==
  /\ so \in [ClientKeys -> Fds \cup {NoFd}]
  /\ ho \in [Fds -> ClientKeys \cup {NoKey}]
  /\ ss = op /\ op = {so[k] : k \in K}
  /\ \A f \in Fds : f \in op <=> ho[f] # NoKey
  /\ \A k \in ClientKeys : k \in K <=> so[k] # NoFd
  /\ \A k \in K : ho[so[k]] = k

\* The rest of the state.
RestTypes ==
  /\ pending \subseteq ClientKeys \X BOOLEAN /\ todo \in Seq(Events)
  /\ port \in {"open", "closing", "closed", "shut"}
  /\ loop \in {"running", "dead"} /\ late \subseteq ClientKeys

Bounded == Len(cache) <= CacheSize /\ Len(dns) <= DnsSize

Inv ==
  /\ Orders(cache, dns) /\ Agreed(Known, sock, home, sockets, open)
  /\ Bounded /\ RestTypes /\ ClosedReleases

-----------------------------------------------------------------------------
\* The keys of an order are keys.
LEMMA KeysOf ==
  ASSUME NEW S, NEW s \in Seq(S) PROVE Keys(s) \subseteq S
BY DEF Keys

\* An event whose socket was closed is still an event.
LEMMA StaleEvent ==
  ASSUME NEW e \in Events, e[1] = "client" PROVE <<"stale", e[2]>> \in Events
BY DEF Events

\* _close_client for keys that have entries leaves the tables of the others.
LEMMA CloseAgreed ==
  ASSUME NEW N \in SUBSET ClientKeys, NEW K \in SUBSET N,
         NEW so, NEW ho, NEW ss, NEW op, NEW rest \in Seq(Events),
         Agreed(N, so, ho, ss, op), CloseClients(K, so, ho, ss, op, rest)
  PROVE  /\ Agreed(N \ K, sock', home', sockets', open')
         /\ todo' \in Seq(Events)
<1> USE UDPAssumption
<1> DEFINE F == {so[k] : k \in K}
<1>1. /\ sock' = [k \in ClientKeys |-> IF k \in K THEN NoFd ELSE so[k]]
      /\ home' = [f \in Fds |-> IF f \in F THEN NoKey ELSE ho[f]]
      /\ sockets' = ss \ F /\ open' = op \ F
      /\ todo' = [i \in DOMAIN rest |->
                    IF rest[i][1] = "client" /\ rest[i][2] \in F
                    THEN <<"stale", rest[i][2]>> ELSE rest[i]]
  BY DEF CloseClients
<1>2. /\ so \in [ClientKeys -> Fds \cup {NoFd}]
      /\ ho \in [Fds -> ClientKeys \cup {NoKey}]
      /\ ss = op /\ op = {so[k] : k \in N}
      /\ \A f \in Fds : f \in op <=> ho[f] # NoKey
      /\ \A k \in ClientKeys : k \in N <=> so[k] # NoFd
      /\ \A k \in N : ho[so[k]] = k
  BY DEF Agreed
<1>3. \A k \in N : so[k] \in Fds /\ (so[k] \in F <=> k \in K)
  BY <1>2
<1> HIDE DEF F
<1>4. /\ sock' \in [ClientKeys -> Fds \cup {NoFd}]
      /\ home' \in [Fds -> ClientKeys \cup {NoKey}]
  BY <1>1, <1>2
<1>5. \A k \in N \ K : sock'[k] = so[k] /\ sock'[k] \in Fds /\ sock'[k] \notin F
  BY <1>1, <1>2, <1>3
<1>6. open' = {sock'[k] : k \in N \ K} /\ sockets' = open'
  <2>1. ASSUME NEW f \in open' PROVE f \in {sock'[k] : k \in N \ K}
    <3>1. PICK k \in N : f = so[k]
      BY <1>1, <1>2
    <3>2. k \in N \ K
      BY <1>1, <1>3, <3>1
    <3> QED
      BY <1>5, <3>1, <3>2
  <2>2. ASSUME NEW k \in N \ K PROVE sock'[k] \in open'
    BY <1>1, <1>2, <1>5
  <2> QED
    BY <1>1, <1>2, <2>1, <2>2
<1>7. \A f \in Fds : f \in open' <=> home'[f] # NoKey
  BY <1>1, <1>2
<1>8. \A k \in ClientKeys : k \in N \ K <=> sock'[k] # NoFd
  BY <1>1, <1>2
<1>9. \A k \in N \ K : home'[sock'[k]] = k
  BY <1>1, <1>2, <1>5
<1>10. todo' \in Seq(Events)
  <2>1. DOMAIN rest = 1..Len(rest) /\ Len(rest) \in Nat
        /\ \A i \in 1..Len(rest) : rest[i] \in Events
    OBVIOUS
  <2>2. \A i \in 1..Len(rest) : rest[i][1] = "client" => <<"stale", rest[i][2]>> \in Events
    BY <2>1, StaleEvent
  <2>3. todo' \in [1..Len(rest) -> Events]
    BY <1>1, <2>1, <2>2
  <2> QED
    BY <2>1, <2>3
<1> QED
  BY <1>4, <1>6, <1>7, <1>8, <1>9, <1>10 DEF Agreed

\* A new socket for a key that has none.
LEMMA OpenAgreed ==
  ASSUME NEW N \in SUBSET ClientKeys, NEW so, NEW ho, NEW ss, NEW op,
         Agreed(N, so, ho, ss, op),
         NEW k \in ClientKeys, k \notin N, NEW f \in Fds, f \notin op
  PROVE  Agreed(N \cup {k}, [so EXCEPT ![k] = f], [ho EXCEPT ![f] = k],
                ss \cup {f}, op \cup {f})
<1> USE UDPAssumption
<1>1. /\ so \in [ClientKeys -> Fds \cup {NoFd}]
      /\ ho \in [Fds -> ClientKeys \cup {NoKey}]
      /\ ss = op /\ op = {so[j] : j \in N}
      /\ \A g \in Fds : g \in op <=> ho[g] # NoKey
      /\ \A j \in ClientKeys : j \in N <=> so[j] # NoFd
      /\ \A j \in N : ho[so[j]] = j
  BY DEF Agreed
<1> DEFINE so2 == [so EXCEPT ![k] = f]
           ho2 == [ho EXCEPT ![f] = k]
<1>2. /\ so2 \in [ClientKeys -> Fds \cup {NoFd}]
      /\ ho2 \in [Fds -> ClientKeys \cup {NoKey}]
      /\ so2[k] = f /\ \A j \in ClientKeys \ {k} : so2[j] = so[j]
      /\ ho2[f] = k /\ \A g \in Fds \ {f} : ho2[g] = ho[g]
  BY <1>1
<1> HIDE DEF so2, ho2
<1>3. \A j \in N : so[j] \in Fds /\ so[j] # f /\ so2[j] = so[j]
  BY <1>1, <1>2
<1>4. op \cup {f} = {so2[j] : j \in N \cup {k}}
  BY <1>1, <1>2, <1>3
<1>5. \A g \in Fds : g \in op \cup {f} <=> ho2[g] # NoKey
  BY <1>1, <1>2
<1>6. \A j \in ClientKeys : j \in N \cup {k} <=> so2[j] # NoFd
  BY <1>1, <1>2
<1>7. \A j \in N \cup {k} : ho2[so2[j]] = j
  <2>1. ASSUME NEW j \in N PROVE ho2[so2[j]] = j
    <3>1. so2[j] \in Fds \ {f} /\ ho[so2[j]] = j
      BY <1>1, <1>3
    <3> QED
      BY <1>2, <3>1
  <2>2. ho2[so2[k]] = k
    BY <1>2
  <2> QED
    BY <2>1, <2>2
<1>8. Agreed(N \cup {k}, so2, ho2, ss \cup {f}, op \cup {f})
  BY <1>1, <1>2, <1>4, <1>5, <1>6, <1>7 DEF Agreed
<1> QED
  BY <1>8 DEF so2, ho2

\* What LRUCache.clear(keep) takes off an order, and what it leaves.
LEMMA ExcessKeys ==
  ASSUME NEW order \in Seq(ClientKeys), Ordered(order), NEW keep \in Nat
  PROVE  LET e == Excess(order, keep)
             t == SubSeq(order, Len(e) + 1, Len(order))
         IN /\ t \in Seq(ClientKeys) /\ Ordered(t) /\ Len(t) <= keep
            /\ Keys(e) \subseteq Keys(order) /\ Keys(t) = Keys(order) \ Keys(e)
<1> DEFINE m == IF Len(order) > keep THEN Len(order) - keep ELSE 0
           e == Excess(order, keep)
           t == SubSeq(order, Len(e) + 1, Len(order))
<1>1. m \in 0..Len(order) /\ Len(order) \in Nat /\ Len(order) - m <= keep
  OBVIOUS
<1>2. SubSeq(order, 1, 0) = <<>>
  OBVIOUS
<1>3. e = SubSeq(order, 1, m)
  BY <1>2 DEF Excess
<1>4. Len(e) = m
  BY <1>1, <1>3, CutKeys
<1>5. t = SubSeq(order, m + 1, Len(order))
  BY <1>4
<1> HIDE DEF m, e, t
<1>6. /\ t \in Seq(ClientKeys) /\ Ordered(t) /\ Len(t) = Len(order) - m
      /\ Keys(e) \subseteq Keys(order) /\ Keys(t) = Keys(order) \ Keys(e)
  BY <1>1, <1>3, <1>5, CutKeys
<1>7. Len(t) <= keep
  BY <1>1, <1>6
<1> QED
  BY <1>6, <1>7 DEF e, t

\* Cutting both caches to size.
LEMMA TrimAgreed ==
  ASSUME NEW ca, NEW dn, NEW so, NEW ho, NEW ss, NEW op, NEW rest \in Seq(Events),
         Orders(ca, dn), Agreed(Keys(ca) \cup Keys(dn), so, ho, ss, op),
         Trim(ca, dn, so, ho, ss, op, rest)
  PROVE  /\ Orders(cache', dns') /\ Agreed(Known', sock', home', sockets', open')
         /\ Bounded' /\ todo' \in Seq(Events)
         /\ Known' \subseteq Keys(ca) \cup Keys(dn)
<1> DEFINE c == Excess(ca, CacheSize)
           d == Excess(dn, DnsSize)
           N == Keys(ca) \cup Keys(dn)
           K == Keys(c) \cup Keys(d)
<1>1. /\ cache' = SubSeq(ca, Len(c) + 1, Len(ca))
      /\ dns' = SubSeq(dn, Len(d) + 1, Len(dn))
      /\ CloseClients(K, so, ho, ss, op, rest)
  BY DEF Trim
<1>2. CacheSize \in Nat /\ DnsSize \in Nat
  BY UDPAssumption
<1>3. /\ ca \in Seq(ClientKeys) /\ Ordered(ca)
      /\ dn \in Seq(ClientKeys) /\ Ordered(dn) /\ Keys(ca) \cap Keys(dn) = {}
  BY DEF Orders
<1>4. /\ cache' \in Seq(ClientKeys) /\ Ordered(cache') /\ Len(cache') <= CacheSize
      /\ Keys(c) \subseteq Keys(ca) /\ Keys(cache') = Keys(ca) \ Keys(c)
  BY <1>1, <1>2, <1>3, ExcessKeys
<1>5. /\ dns' \in Seq(ClientKeys) /\ Ordered(dns') /\ Len(dns') <= DnsSize
      /\ Keys(d) \subseteq Keys(dn) /\ Keys(dns') = Keys(dn) \ Keys(d)
  BY <1>1, <1>2, <1>3, ExcessKeys
<1>6. Known' = N \ K /\ N \in SUBSET ClientKeys /\ K \in SUBSET N
  BY <1>3, <1>4, <1>5, KeysOf DEF Known
<1> HIDE DEF c, d, N, K
<1>7. Agreed(N \ K, sock', home', sockets', open') /\ todo' \in Seq(Events)
  BY <1>1, <1>6, CloseAgreed DEF N
<1> QED
  BY <1>3, <1>4, <1>5, <1>6, <1>7 DEF Orders, Bounded, N

-----------------------------------------------------------------------------
\* At first there are no sockets.
LEMMA InitInv == Init => Inv
<1> SUFFICES ASSUME Init PROVE Inv
  OBVIOUS
<1> USE UDPAssumption
<1>1. /\ cache = <<>> /\ dns = <<>> /\ Keys(cache) = {} /\ Keys(dns) = {}
      /\ Known = {} /\ <<>> \in Seq(ClientKeys) /\ <<>> \in Seq(Events)
  BY DEF Init, Keys, Known
<1>2. Orders(cache, dns)
  BY <1>1 DEF Orders, Ordered
<1>3. Agreed(Known, sock, home, sockets, open)
  BY <1>1 DEF Init, Agreed
<1>4. Bounded
  BY <1>1 DEF Bounded
<1>5. RestTypes
  BY <1>1 DEF Init, RestTypes
<1>6. ClosedReleases
  BY <1>1 DEF ClosedReleases
<1> QED
  BY <1>2, <1>3, <1>4, <1>5, <1>6 DEF Inv

\* _handle_server_dns_resolved: with a socket that is there, or with a new one.
LEMMA DeliverInv ==
  ASSUME Inv, NEW k \in ClientKeys, NEW isDns \in BOOLEAN,
         NEW rest \in Seq(Events), Deliver(k, isDns, rest), UNCHANGED port,
         pending' \subseteq ClientKeys \X BOOLEAN
  PROVE  Inv'
<1>0. /\ Orders(cache, dns) /\ Agreed(Known, sock, home, sockets, open)
      /\ cache \in Seq(ClientKeys) /\ Ordered(cache)
      /\ dns \in Seq(ClientKeys) /\ Ordered(dns)
      /\ Keys(cache) \cap Keys(dns) = {}
      /\ RestTypes /\ ClosedReleases /\ Known \in SUBSET ClientKeys
  BY KeysOf DEF Inv, Orders, Known
<1>1. SUFFICES /\ Orders(cache', dns')
               /\ Agreed(Known', sock', home', sockets', open')
               /\ Bounded' /\ todo' \in Seq(Events)
               /\ late' \subseteq ClientKeys /\ loop' = loop
               /\ Closed => Known' \subseteq late'
  BY <1>0 DEF Inv, RestTypes, ClosedReleases, Closed
<1>2. CASE k \in Known /\ UNCHANGED <<loop, late>>
  <2> DEFINE ca == IF k \in Keys(cache) THEN Touch(cache, k) ELSE cache
             dn == IF k \notin Keys(cache) THEN Touch(dns, k) ELSE dns
  <2>1. CASE Trim(ca, dn, sock, home, sockets, open, rest)
    <3>1. ca \in Seq(ClientKeys) /\ Ordered(ca) /\ Keys(ca) = Keys(cache)
      BY <1>0, TouchKey
    <3>2. dn \in Seq(ClientKeys) /\ Ordered(dn) /\ Keys(dn) = Keys(dns)
      BY <1>0, <1>2, TouchKey DEF Known
    <3> HIDE DEF ca, dn
    <3>3. Orders(ca, dn) /\ Agreed(Keys(ca) \cup Keys(dn), sock, home, sockets, open)
      BY <1>0, <3>1, <3>2 DEF Orders, Known
    <3>4. /\ Orders(cache', dns') /\ Agreed(Known', sock', home', sockets', open')
          /\ Bounded' /\ todo' \in Seq(Events) /\ Known' \subseteq Known
      BY <2>1, <3>1, <3>2, <3>3, TrimAgreed DEF Known
    <3> QED
      BY <1>0, <1>2, <3>4 DEF RestTypes, ClosedReleases
  <2> QED
    BY <1>2, <2>1 DEF Deliver, Reuses
<1>3. CASE k \notin Known
  <2> DEFINE ca == IF isDns THEN cache ELSE Append(cache, k)
             dn == IF isDns THEN Append(dns, k) ELSE dns
  <2>1. PICK f \in Fds :
          /\ LowestFree(f)
          /\ Trim(ca, dn, [sock EXCEPT ![k] = f], [home EXCEPT ![f] = k],
                  sockets \cup {f}, open \cup {f}, rest)
    BY <1>3 DEF Deliver, Reuses
  <2>2. late' = (IF Closed THEN late \cup {k} ELSE late) /\ loop' = loop
    BY <1>3 DEF Deliver, Reuses
  <2>3. k \notin Keys(cache) /\ k \notin Keys(dns) /\ f \notin open
    BY <1>3, <2>1 DEF Known, LowestFree, FreeFds
  <2>4. /\ ca \in Seq(ClientKeys) /\ Ordered(ca)
        /\ Keys(ca) = IF isDns THEN Keys(cache) ELSE Keys(cache) \cup {k}
    BY <1>0, <2>3, AppendKey
  <2>5. /\ dn \in Seq(ClientKeys) /\ Ordered(dn)
        /\ Keys(dn) = IF isDns THEN Keys(dns) \cup {k} ELSE Keys(dns)
    BY <1>0, <2>3, AppendKey
  <2> HIDE DEF ca, dn
  <2>6. Orders(ca, dn) /\ Keys(ca) \cup Keys(dn) = Known \cup {k}
    BY <1>0, <2>3, <2>4, <2>5 DEF Orders, Known
  <2>7. Agreed(Known \cup {k}, [sock EXCEPT ![k] = f], [home EXCEPT ![f] = k],
               sockets \cup {f}, open \cup {f})
    BY <1>0, <1>3, <2>3, OpenAgreed
  <2>8. /\ Orders(cache', dns') /\ Agreed(Known', sock', home', sockets', open')
        /\ Bounded' /\ todo' \in Seq(Events) /\ Known' \subseteq Known \cup {k}
    BY <2>1, <2>6, <2>7, TrimAgreed
  <2> QED
    BY <1>0, <2>2, <2>8 DEF RestTypes, ClosedReleases
<1> QED
  BY <1>2, <1>3 DEF Deliver, Reuses

\* A datagram that goes nowhere leaves the tables as they are.
LEMMA DropInv ==
  ASSUME Inv, NEW rest \in Seq(Events), Drop(rest), UNCHANGED port,
         pending' \subseteq ClientKeys \X BOOLEAN
  PROVE  Inv'
<1>1. UNCHANGED <<cache, dns, sock, home, sockets, open, loop, late, port>>
  BY DEF Drop, tables
<1>2. RestTypes'
  BY <1>1 DEF Drop, Inv, RestTypes
<1> QED
  BY <1>1, <1>2 DEF Inv, Orders, Agreed, Bounded, ClosedReleases, Closed, Known

\* A reply: a DNS client's socket is closed, any other one is moved to the end
\* of its cache.
LEMMA OnClientInv ==
  ASSUME Inv, NEW f \in Fds, OnClient(f)
  PROVE  Inv'
<1>0. /\ Orders(cache, dns) /\ Agreed(Known, sock, home, sockets, open)
      /\ cache \in Seq(ClientKeys) /\ Ordered(cache)
      /\ dns \in Seq(ClientKeys) /\ Ordered(dns)
      /\ Keys(cache) \cap Keys(dns) = {} /\ Bounded
      /\ RestTypes /\ ClosedReleases /\ Known \in SUBSET ClientKeys
      /\ UNCHANGED <<pending, port>>
  BY KeysOf DEF Inv, Orders, Known, OnClient
<1>1. Tail(todo) \in Seq(Events) /\ pending \subseteq ClientKeys \X BOOLEAN
  BY <1>0 DEF OnClient, Take, RestTypes
<1>2. CASE Drop(Tail(todo))
  BY <1>0, <1>1, <1>2, DropInv
<1> DEFINE k == home[f]
<1>3. CASE ~Drop(Tail(todo))
  <2>1. /\ cache' = IF k \in Keys(cache) THEN Touch(cache, k) ELSE cache
        /\ \/ /\ k \in Keys(dns) /\ dns' = Del(dns, k)
              /\ CloseClients({k}, sock, home, sockets, open, Tail(todo))
           \/ /\ dns' = IF k \in Keys(dns) THEN Touch(dns, k) ELSE dns
              /\ todo' = Tail(todo)
              /\ UNCHANGED <<sock, home, sockets, open>>
        /\ UNCHANGED <<loop, late>>
    BY <1>3 DEF OnClient
  <2> HIDE DEF k
  <2>2. /\ cache' \in Seq(ClientKeys) /\ Ordered(cache')
        /\ Keys(cache') = Keys(cache) /\ Len(cache') = Len(cache)
    BY <1>0, <2>1, TouchKey
  <2>3. CASE /\ k \in Keys(dns) /\ dns' = Del(dns, k)
             /\ CloseClients({k}, sock, home, sockets, open, Tail(todo))
    <3>1. /\ dns' \in Seq(ClientKeys) /\ Ordered(dns')
          /\ Keys(dns') = Keys(dns) \ {k} /\ Len(dns') = Len(dns) - 1
      BY <1>0, <2>3, DelKey
    <3>2. Known' = Known \ {k} /\ {k} \in SUBSET Known
      BY <1>0, <2>2, <2>3, <3>1 DEF Known
    <3>3. /\ Agreed(Known \ {k}, sock', home', sockets', open')
          /\ todo' \in Seq(Events)
      BY <1>0, <1>1, <2>3, <3>2, CloseAgreed
    <3>4. Orders(cache', dns')
      BY <1>0, <2>2, <3>1 DEF Orders
    <3>5. Bounded'
      BY <1>0, <2>2, <3>1, UDPAssumption DEF Bounded
    <3>6. RestTypes'
      BY <1>0, <2>1, <3>3 DEF RestTypes
    <3>7. ClosedReleases'
      BY <1>0, <2>1, <3>2 DEF ClosedReleases, Closed
    <3> QED
      BY <3>2, <3>3, <3>4, <3>5, <3>6, <3>7 DEF Inv
  <2>4. CASE /\ dns' = IF k \in Keys(dns) THEN Touch(dns, k) ELSE dns
             /\ todo' = Tail(todo)
             /\ UNCHANGED <<sock, home, sockets, open>>
    <3>1. /\ dns' \in Seq(ClientKeys) /\ Ordered(dns')
          /\ Keys(dns') = Keys(dns) /\ Len(dns') = Len(dns)
      BY <1>0, <2>4, TouchKey
    <3>2. Known' = Known
      BY <2>2, <3>1 DEF Known
    <3>3. Orders(cache', dns')
      BY <1>0, <2>2, <3>1 DEF Orders
    <3>4. Agreed(Known', sock', home', sockets', open')
      BY <1>0, <2>4, <3>2
    <3>5. Bounded' /\ RestTypes' /\ ClosedReleases'
      BY <1>0, <1>1, <2>1, <2>2, <2>4, <3>1, <3>2
         DEF Bounded, RestTypes, ClosedReleases, Closed
    <3> QED
      BY <3>3, <3>4, <3>5 DEF Inv
  <2> QED
    BY <2>1, <2>3, <2>4
<1> QED
  BY <1>2, <1>3

\* LRUCache.sweep of both caches.
LEMMA SweepInv ==
  ASSUME Inv, NEW m \in 0..Len(cache), NEW n \in 0..Len(dns), Sweep(m, n)
  PROVE  Inv'
<1>0. /\ Agreed(Known, sock, home, sockets, open)
      /\ cache \in Seq(ClientKeys) /\ Ordered(cache)
      /\ dns \in Seq(ClientKeys) /\ Ordered(dns)
      /\ Keys(cache) \cap Keys(dns) = {} /\ Bounded
      /\ RestTypes /\ ClosedReleases /\ Known \in SUBSET ClientKeys
      /\ UNCHANGED <<pending, port, loop, late>> /\ port = "open"
  BY KeysOf DEF Inv, Orders, Known, Sweep
<1> DEFINE h == SubSeq(cache, 1, m)
           g == SubSeq(dns, 1, n)
           K == Keys(h) \cup Keys(g)
<1>1. /\ cache' = SubSeq(cache, m + 1, Len(cache))
      /\ dns' = SubSeq(dns, n + 1, Len(dns))
      /\ CloseClients(K, sock, home, sockets, open, todo)
  BY DEF Sweep
<1>2. /\ cache' \in Seq(ClientKeys) /\ Ordered(cache')
      /\ Len(cache') = Len(cache) - m
      /\ Keys(h) \subseteq Keys(cache) /\ Keys(cache') = Keys(cache) \ Keys(h)
  BY <1>0, <1>1, CutKeys
<1>3. /\ dns' \in Seq(ClientKeys) /\ Ordered(dns')
      /\ Len(dns') = Len(dns) - n
      /\ Keys(g) \subseteq Keys(dns) /\ Keys(dns') = Keys(dns) \ Keys(g)
  BY <1>0, <1>1, CutKeys
<1>4. Known' = Known \ K /\ K \in SUBSET Known /\ todo \in Seq(Events)
  BY <1>0, <1>2, <1>3 DEF Known, RestTypes
<1> HIDE DEF K, h, g
<1>5. Agreed(Known \ K, sock', home', sockets', open') /\ todo' \in Seq(Events)
  BY <1>0, <1>1, <1>4, CloseAgreed
<1>6. Orders(cache', dns')
  BY <1>0, <1>2, <1>3 DEF Orders
<1>7. Bounded'
  BY <1>0, <1>2, <1>3, UDPAssumption DEF Bounded
<1>8. RestTypes' /\ ClosedReleases'
  BY <1>0, <1>5 DEF RestTypes, ClosedReleases, Closed
<1> QED
  BY <1>4, <1>5, <1>6, <1>7, <1>8 DEF Inv

\* Clearing both caches closes every socket.
LEMMA ClearInv ==
  ASSUME Inv, ClearAll, port' \in {"closed", "shut"},
         UNCHANGED <<pending, loop, late>>
  PROVE  Inv'
<1>0. /\ Agreed(Known, sock, home, sockets, open) /\ RestTypes
      /\ Known \in SUBSET ClientKeys /\ Known \in SUBSET Known
      /\ todo \in Seq(Events)
  BY KeysOf DEF Inv, Orders, Known, RestTypes
<1>1. /\ cache' = <<>> /\ dns' = <<>>
      /\ CloseClients(Known, sock, home, sockets, open, todo)
  BY DEF ClearAll
<1>2. /\ Keys(cache') = {} /\ Keys(dns') = {} /\ Known' = Known \ Known
      /\ cache' \in Seq(ClientKeys) /\ dns' \in Seq(ClientKeys)
  BY <1>1 DEF Keys, Known
<1>3. Agreed(Known \ Known, sock', home', sockets', open') /\ todo' \in Seq(Events)
  BY <1>0, <1>1, CloseAgreed
<1>4. Orders(cache', dns')
  BY <1>1, <1>2 DEF Orders, Ordered
<1>5. Bounded'
  BY <1>1, UDPAssumption DEF Bounded
<1>6. RestTypes' /\ ClosedReleases'
  BY <1>0, <1>2, <1>3 DEF RestTypes, ClosedReleases
<1> QED
  BY <1>2, <1>3, <1>4, <1>5, <1>6 DEF Inv

\* The events of a round are events.
LEMMA PollInv ==
  ASSUME Inv, Poll
  PROVE  Inv'
<1>1. UNCHANGED <<cache, dns, sock, home, sockets, open, pending, port, loop, late>>
  BY DEF Poll, tables
<1>2. todo' \in Seq(Events)
  <2> DEFINE ready == {<<"client", f>> : f \in open} \cup
                      (IF Closed THEN {} ELSE {<<"server", 0>>})
  <2>1. open \subseteq Fds
    <3>1. \A k \in Known : sock[k] \in Fds
      BY KeysOf DEF Inv, Orders, Agreed, Known
    <3> QED
      BY <3>1 DEF Inv, Agreed
  <2>2. ready \subseteq Events
    BY <2>1 DEF Events
  <2>3. PICK n \in 1..MaxBatch : todo' \in {b \in [1..n -> ready] : Ordered(b)}
    BY DEF Poll
  <2>4. todo' \in [1..n -> Events] /\ n \in Nat
    BY <2>2, <2>3, UDPAssumption
  <2> QED
    BY <2>4
<1>3. RestTypes'
  BY <1>1, <1>2 DEF Inv, RestTypes
<1> QED
  BY <1>1, <1>3 DEF Inv, Orders, Agreed, Bounded, ClosedReleases, Closed, Known

\* The invariant survives every step.
LEMMA NextInv == Inv /\ [Next]_vars => Inv'
<1> SUFFICES ASSUME Inv, [Next]_vars PROVE Inv'
  OBVIOUS
<1>0. /\ todo \in Seq(Events) /\ pending \subseteq ClientKeys \X BOOLEAN
      /\ todo # <<>> => Tail(todo) \in Seq(Events)
  BY DEF Inv, RestTypes
<1>1. ASSUME NEW k \in ClientKeys, NEW d \in BOOLEAN, OnServer(k, d) PROVE Inv'
  <2>1. /\ Tail(todo) \in Seq(Events) /\ UNCHANGED port
        /\ pending' \subseteq ClientKeys \X BOOLEAN
        /\ Deliver(k, d, Tail(todo)) \/ Drop(Tail(todo))
    <3>1. pending' = pending \/ pending' = pending \cup {<<k, d>>}
      BY <1>1 DEF OnServer
    <3>2. pending' \subseteq ClientKeys \X BOOLEAN
      BY <1>0, <3>1
    <3> QED
      BY <1>0, <1>1, <3>2 DEF OnServer, Take
  <2> QED
    BY <2>1, DeliverInv, DropInv
<1>2. ASSUME NEW k \in ClientKeys, NEW d \in BOOLEAN, OnResolved(k, d) PROVE Inv'
  <2>1. UNCHANGED port /\ pending' \subseteq ClientKeys \X BOOLEAN
    BY <1>0, <1>2 DEF OnResolved
  <2>2. CASE Deliver(k, d, todo) \/ Drop(todo)
    BY <1>0, <2>1, <2>2, DeliverInv, DropInv
  <2>3. CASE loop' = "dead" /\ UNCHANGED <<tables, todo, late>>
    BY <2>1, <2>3
       DEF tables, Inv, Orders, Agreed, Bounded, RestTypes, ClosedReleases, Closed,
           Known
  <2> QED
    BY <1>2, <2>2, <2>3 DEF OnResolved
<1>3. ASSUME NEW f \in Fds, OnStale(f) PROVE Inv'
  BY <1>0, <1>3, DropInv DEF OnStale, Take
<1>4. CASE OnServerGone
  BY <1>0, <1>4, DropInv DEF OnServerGone, Take
<1>5. CASE Close
  <2>1. UNCHANGED <<cache, dns, sock, home, sockets, open, pending, todo, loop, late>>
        /\ port = "open" /\ port' = "closing"
    BY <1>5 DEF Close, tables
  <2> QED
    BY <2>1
       DEF Inv, Orders, Agreed, Bounded, RestTypes, ClosedReleases, Closed, Known
<1>6. CASE PeriodicClosed \/ CloseNow
  BY <1>6, ClearInv DEF PeriodicClosed, CloseNow
<1>7. CASE UNCHANGED vars
  BY <1>7
     DEF vars, Inv, Orders, Agreed, Bounded, RestTypes, ClosedReleases, Closed, Known
<1> QED
  BY <1>1, <1>2, <1>3, <1>4, <1>5, <1>6, <1>7, PollInv, OnClientInv, SweepInv
     DEF Next

-----------------------------------------------------------------------------
\* The invariant holds in every state.
LEMMA Invariant == Spec => []Inv
BY InitInv, NextInv, PTL DEF Spec

\* Types, and the bounds of the caches: LRUCache.clear keeps both within their
\* sizes, also when the resolver answers late or the port is closed.
THEOREM TypeCorrect == Spec => []TypeOK
<1>1. Inv => TypeOK
  <2> SUFFICES ASSUME Inv PROVE TypeOK
    OBVIOUS
  <2>1. open \subseteq Fds /\ sockets = open
    <3>1. \A k \in Known : sock[k] \in Fds
      BY KeysOf DEF Inv, Orders, Agreed, Known
    <3> QED
      BY <3>1 DEF Inv, Agreed
  <2> QED
    BY <2>1 DEF Inv, Orders, Agreed, Bounded, RestTypes, TypeOK
<1> QED
  BY Invariant, <1>1, PTL

\* _sockets, _client_fd_to_server_addr and the caches agree whatever is
\* displaced, swept, answered or closed, and a descriptor that has had another
\* owner leads to the client it is for now.
THEOREM TablesAgree == Spec => []SocketsAgree
<1>1. Inv => SocketsAgree
  BY DEF Inv, Agreed, SocketsAgree
<1> QED
  BY Invariant, <1>1, PTL

\* A key has one entry at most in the two caches together, so _handle_client
\* closes the socket the reply came from.
THEOREM EntryInOneCache == Spec => []OneCache
<1>1. Inv => OneCache
  BY DEF Inv, Orders, OneCache
<1> QED
  BY Invariant, <1>1, PTL

\* After close every client socket is closed, except those that answers of the
\* resolver have opened since.
THEOREM CloseReleases == Spec => []ClosedReleases
<1>1. Inv => ClosedReleases
  BY DEF Inv
<1> QED
  BY Invariant, <1>1, PTL

=============================================================================
