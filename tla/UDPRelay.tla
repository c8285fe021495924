------------------------------ MODULE UDPRelay ------------------------------
(***************************************************************************)
(* udprelay.py, class UDPRelay, on the server side: datagrams of clients   *)
(* go out through a socket for each key (client address and address family *)
(* of the destination), which lives in one of two LRU caches until it is   *)
(* idle, displaced, or, for DNS queries, answered.                         *)
(*                                                                         *)
(*   cache, dns   key order of _cache and _cache_dns_client, oldest first  *)
(*   sock         the descriptor in the pair of a key, in either cache     *)
(*   home         _client_fd_to_server_addr: the key a descriptor is for   *)
(*   sockets      _sockets                                                 *)
(*   open         the client sockets that are open and in the loop         *)
(*   pending      datagrams <<key, isDns>> whose destination the resolver  *)
(*                has been asked for; nothing withdraws them               *)
(*   todo         events of this round: <<"server", 0>> is the listening   *)
(*                socket, <<"client", f>> the socket with descriptor f,    *)
(*                <<"stale", f>> one that was closed after the poll (its   *)
(*                descriptor may have been given to another socket)        *)
(*   port         open; closing: close(True) was called; closed: by        *)
(*                handle_periodic; shut: by close(False)                   *)
(*   loop         running, or dead: an exception has left EventLoop.run    *)
(*   late         the keys that got a socket after the port was closed     *)
(*                (history)                                                *)
(***************************************************************************)
EXTENDS OrderedKeys

CONSTANTS ClientKeys, Fds,
          CacheSize,    \* udp_cache
          DnsSize,      \* 16
          NoKey, NoFd,
          MaxBatch      \* most events of one poll

ASSUME UDPAssumption ==
  /\ Fds \subseteq Nat /\ NoFd \notin Fds /\ NoKey \notin ClientKeys
  /\ {CacheSize, DnsSize, MaxBatch} \subseteq Nat \ {0}

VARIABLES cache, dns, sock, home, sockets, open, pending, todo, port, loop,
          late

vars == <<cache, dns, sock, home, sockets, open, pending, todo, port, loop,
          late>>
tables == <<cache, dns, sock, home, sockets, open>>

Known == Keys(cache) \cup Keys(dns)
Closed == port \in {"closed", "shut"}
FreeFds == Fds \ open

\* The kernel gives out the lowest free descriptor.
LowestFree(f) == f \in FreeFds /\ \A g \in FreeFds : f <= g

Init ==
  /\ cache = <<>> /\ dns = <<>>
  /\ sock = [k \in ClientKeys |-> NoFd] /\ home = [f \in Fds |-> NoKey]
  /\ sockets = {} /\ open = {}
  /\ pending = {} /\ todo = <<>>
  /\ port = "open" /\ loop = "running" /\ late = {}

-----------------------------------------------------------------------------
\* Mutant: the address of a closed socket is kept.
CloseClientsKeepingHome(K, so, ho, ss, op, rest) ==
  LET F == {so[k] : k \in K}
  IN /\ sock' = [k \in ClientKeys |-> IF k \in K THEN NoFd ELSE so[k]]
     /\ home' = ho
     /\ sockets' = ss \ F
     /\ open' = op \ F
     /\ todo' = [i \in DOMAIN rest |->
                   IF rest[i][1] = "client" /\ rest[i][2] \in F
                   THEN <<"stale", rest[i][2]>> ELSE rest[i]]

\* _close_client for the keys K, whose entries have left (or are about to
\* leave) the caches; rest is what remains of the round.
CloseClients(K, so, ho, ss, op, rest) ==
  LET F == {so[k] : k \in K}
  IN /\ sock' = [k \in ClientKeys |-> IF k \in K THEN NoFd ELSE so[k]]
     /\ home' = [f \in Fds |-> IF f \in F THEN NoKey ELSE ho[f]]
     /\ sockets' = ss \ F
     /\ open' = op \ F
     /\ todo' = [i \in DOMAIN rest |->
                   IF rest[i][1] = "client" /\ rest[i][2] \in F
                   THEN <<"stale", rest[i][2]>> ELSE rest[i]]

\* Mutant: one more may stay.
ExcessLate(order, keep) ==
  IF Len(order) > keep + 1 THEN SubSeq(order, 1, Len(order) - keep) ELSE <<>>

\* LRUCache.clear(keep): the oldest keys that are too many.
Excess(order, keep) ==
  IF Len(order) > keep THEN SubSeq(order, 1, Len(order) - keep) ELSE <<>>

\* Both caches are cut to size.
Trim(ca, dn, so, ho, ss, op, rest) ==
  LET c == Excess(ca, CacheSize)
      d == Excess(dn, DnsSize)
  IN /\ cache' = SubSeq(ca, Len(c) + 1, Len(ca))
     /\ dns' = SubSeq(dn, Len(d) + 1, Len(dn))
     /\ CloseClients(Keys(c) \cup Keys(d), so, ho, ss, op, rest)

\* Mutant: only _cache is looked up.
ReusesFrom(k) == k \in Keys(cache)

\* The key has a socket, which is used again.
Reuses(k) == k \in Known

\* _handle_server_dns_resolved with an address
Deliver(k, isDns, rest) ==
  \/ /\ Reuses(k)
     /\ Trim(IF k \in Keys(cache) THEN Touch(cache, k) ELSE cache,
             IF k \notin Keys(cache) THEN Touch(dns, k) ELSE dns,
             sock, home, sockets, open, rest)
     /\ UNCHANGED <<loop, late>>
  \/ /\ ~Reuses(k)
     /\ \E f \in Fds :
          /\ LowestFree(f)
          /\ Trim(IF isDns THEN cache ELSE Append(cache, k),
                  IF isDns THEN Append(dns, k) ELSE dns,
                  [sock EXCEPT ![k] = f], [home EXCEPT ![f] = k],
                  sockets \cup {f}, open \cup {f}, rest)
     /\ late' = IF Closed THEN late \cup {k} ELSE late
     /\ UNCHANGED loop

\* The datagram goes nowhere: no address, or a forbidden one.
Drop(rest) ==
  /\ todo' = rest
  /\ UNCHANGED <<tables, loop, late>>

-----------------------------------------------------------------------------
\* EventLoop.poll
Poll ==
  /\ loop = "running" /\ todo = <<>>
  /\ LET ready == {<<"client", f>> : f \in open} \cup
                  (IF Closed THEN {} ELSE {<<"server", 0>>})
     IN \E n \in 1..MaxBatch :
          todo' \in {batch \in [1..n -> ready] : Ordered(batch)}
  /\ UNCHANGED <<tables, pending, port, loop, late>>

Take(item) == loop = "running" /\ todo # <<>> /\ Head(todo) = item

\* _handle_server: the destination is an address, or a name to be resolved,
\* or the datagram is no good.  An exception (no descriptor) stays in
\* handle_event.
OnServer(k, isDns) ==
  /\ Take(<<"server", 0>>) /\ ~Closed
  /\ \/ Deliver(k, isDns, Tail(todo)) /\ UNCHANGED pending
     \/ /\ pending' = pending \cup {<<k, isDns>>}
        /\ Drop(Tail(todo))
     \/ Drop(Tail(todo)) /\ UNCHANGED pending
  /\ UNCHANGED port

\* The listening socket has been closed in this round.
OnServerGone ==
  /\ Take(<<"server", 0>>) /\ Closed
  /\ Drop(Tail(todo)) /\ UNCHANGED <<pending, port>>

\* The resolver calls back, in its own event of the loop, for a relay that may
\* have been closed.  If no socket can be had, `client` is used before it is
\* assigned, and the exception leaves the loop.
OnResolved(k, isDns) ==
  /\ loop = "running" /\ <<k, isDns>> \in pending
  /\ pending' = pending \ {<<k, isDns>>}
  /\ \/ Deliver(k, isDns, todo)
     \/ Drop(todo)
     \/ /\ ~Reuses(k) /\ FreeFds = {}
        /\ loop' = "dead"
        /\ UNCHANGED <<tables, todo, late>>
  /\ UNCHANGED port

\* _handle_client: a reply.  It is passed on to the client the socket is for;
\* a DNS client is done with then, unless handle_periodic has already set
\* _server_socket to None and the exception keeps the code from getting there.
OnClient(f) ==
  /\ Take(<<"client", f>>)
  /\ LET k == home[f]
     IN \/ Drop(Tail(todo))                  \* EAGAIN, or an empty datagram
        \/ /\ cache' = IF k \in Keys(cache) THEN Touch(cache, k) ELSE cache
           /\ \/ /\ k \in Keys(dns) /\ port # "closed"
                 /\ dns' = Del(dns, k)
                 /\ CloseClients({k}, sock, home, sockets, open, Tail(todo))
              \/ /\ k \notin Keys(dns) \/ port = "closed"
                 /\ dns' = IF k \in Keys(dns) THEN Touch(dns, k) ELSE dns
                 /\ todo' = Tail(todo)
                 /\ UNCHANGED <<sock, home, sockets, open>>
           /\ UNCHANGED <<loop, late>>
  /\ UNCHANGED <<pending, port>>

\* The socket object of the event is closed: recvfrom raises, nothing happens.
OnStale(f) ==
  /\ Take(<<"stale", f>>)
  /\ Drop(Tail(todo)) /\ UNCHANGED <<pending, port>>

-----------------------------------------------------------------------------
\* handle_periodic between two rounds: LRUCache.sweep closes the oldest m of
\* one cache and n of the other, those that have timed out.
Sweep(m, n) ==
  /\ loop = "running" /\ todo = <<>> /\ port = "open"
  /\ m + n > 0
  /\ cache' = SubSeq(cache, m + 1, Len(cache))
  /\ dns' = SubSeq(dns, n + 1, Len(dns))
  /\ CloseClients(Keys(SubSeq(cache, 1, m)) \cup Keys(SubSeq(dns, 1, n)),
                  sock, home, sockets, open, todo)
  /\ UNCHANGED <<pending, port, loop, late>>

\* close(True), from the database thread: only a flag.
Close ==
  /\ port = "open" /\ port' = "closing"
  /\ UNCHANGED <<tables, pending, todo, loop, late>>

\* Mutant: only the first one.
ClearCacheOnly ==
  /\ cache' = <<>> /\ UNCHANGED dns
  /\ CloseClients(Keys(cache), sock, home, sockets, open, todo)

\* clear(0) of both caches
ClearAll ==
  /\ cache' = <<>> /\ dns' = <<>>
  /\ CloseClients(Known, sock, home, sockets, open, todo)

\* Mutant: the caches are cleared and the listening socket stays.
PeriodicClosedForgets ==
  /\ loop = "running" /\ todo = <<>> /\ port = "closing"
  /\ ClearAll
  /\ UNCHANGED <<pending, port, loop, late>>

\* handle_periodic of a relay that was closed; it is not called again.
PeriodicClosed ==
  /\ loop = "running" /\ todo = <<>> /\ port = "closing"
  /\ ClearAll
  /\ port' = "closed"
  /\ UNCHANGED <<pending, loop, late>>

\* close(False), from an event of the manager in this round.
CloseNow ==
  /\ loop = "running" /\ port = "open"
  /\ ClearAll
  /\ port' = "shut"
  /\ UNCHANGED <<pending, loop, late>>

Next ==
  \/ Poll
  \/ \E k \in ClientKeys, d \in BOOLEAN : OnServer(k, d) \/ OnResolved(k, d)
  \/ OnServerGone
  \/ \E f \in Fds : OnClient(f) \/ OnStale(f)
  \/ \E m \in 0..Len(cache), n \in 0..Len(dns) : Sweep(m, n)
  \/ Close \/ PeriodicClosed \/ CloseNow

\* The loop takes the events of a round one after the other.
Step ==
  \/ \E k \in ClientKeys, d \in BOOLEAN : OnServer(k, d)
  \/ OnServerGone
  \/ \E f \in Fds : OnClient(f) \/ OnStale(f)

\* Rounds end, and the periodic callbacks run again and again, 10 s apart.
Spec ==
  /\ Init /\ [][Next]_vars
  /\ WF_vars(Step) /\ SF_vars(PeriodicClosed)

-----------------------------------------------------------------------------
Events == {"server"} \X {0} \cup {"client", "stale"} \X Fds

\* Types, and the bounds of the caches: they never outgrow udp_cache and 16
\* between two events, late answers of the resolver included.
TypeOK ==
  /\ cache \in Seq(ClientKeys) /\ dns \in Seq(ClientKeys)
  /\ Len(cache) <= CacheSize /\ Len(dns) <= DnsSize
  /\ sock \in [ClientKeys -> Fds \cup {NoFd}]
  /\ home \in [Fds -> ClientKeys \cup {NoKey}]
  /\ sockets \subseteq Fds /\ open \subseteq Fds
  /\ pending \subseteq ClientKeys \X BOOLEAN
  /\ todo \in Seq(Events)
  /\ port \in {"open", "closing", "closed", "shut"}
  /\ loop \in {"running", "dead"} /\ late \subseteq ClientKeys

\* _sockets, _client_fd_to_server_addr and the two caches agree at all times,
\* whatever is displaced, swept, answered or closed in the middle of a round:
\* _close_client never fails on a missing entry, no socket is left without an
\* owner that will close it, and a reply goes to the client whose datagram
\* opened the socket, even when the descriptor has had another owner.
SocketsAgree ==
  /\ sockets = open
  /\ open = {sock[k] : k \in Known}
  /\ \A f \in Fds : f \in open <=> home[f] # NoKey
  /\ \A k \in ClientKeys : k \in Known <=> sock[k] # NoFd
  /\ \A k \in Known : home[sock[k]] = k

\* A key never has two entries, in one cache or in both: _handle_client, which
\* looks in _cache first but closes the pair of _cache_dns_client, closes the
\* socket the reply came from.
OneCache ==
  /\ Keys(cache) \cap Keys(dns) = {}
  /\ Ordered(cache) /\ Ordered(dns)

\* Closing a port closes every client socket, except the ones that answers of
\* the resolver open after that: these belong to keys that were still pending.
ClosedReleases == Closed => Known \subseteq late

\* close(True) closes the port, unless the loop dies first.
ClosingEnds == (port = "closing" /\ loop = "running") ~> (Closed \/ loop = "dead")
=============================================================================
