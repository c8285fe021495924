------------------------------ MODULE TCPRelay ------------------------------
(***************************************************************************)
(* tcprelay.py: the life of the connections of one port.  TCPRelay accepts *)
(* them, keeps them in _fd_to_handlers and _timeout_cache and counts them; *)
(* the event loop hands it batches of events by file descriptor; the       *)
(* DNSResolver calls the handlers back; and the port may be closed.  The   *)
(* data the connections carry is in TCPRelayHandler.tla.                   *)
(*                                                                         *)
(*   stage     stage of each handler ("none": not accepted yet)            *)
(*   lfd, rfd  the descriptors of its open sockets, or NoFd                *)
(*   owner     _fd_to_handlers and the loop's _fdmap: whose socket a       *)
(*             descriptor is                                               *)
(*   timed     the handlers in _timeout_cache                              *)
(*   conns     server_connections                                          *)
(*   todo      what the loop thread has still to do in this round:         *)
(*               <<"event", f, e>>  an event e polled on descriptor f      *)
(*               <<"reply", n, f>>  a name server's reply                  *)
(*               <<"dns", x, ok>>   _handle_dns_resolved of handler x      *)
(*               <<"destroy", x>>   destroy of handler x                   *)
(*             one item is one step, and nothing else happens in between   *)
(*   port      open; closing: close(True) was called, from the database    *)
(*             thread; closed: handle_periodic has seen it; gone: closed   *)
(*             at once, by close(False) from the manager                   *)
(*   ended     how often each handler was taken down (history)             *)
(***************************************************************************)
EXTENDS DNSResolver, Integers, FiniteSets

CONSTANTS Fds,          \* descriptors of the process; it gets the lowest free
          NoFd, Nobody, Listener,
          HostFor,      \* the name each handler's client asks for
          MaxBatch      \* most events of one poll

ASSUME RelayAssumption ==
  /\ Fds \subseteq Nat /\ IsFiniteSet(Fds) /\ NoFd \notin Fds
  /\ MaxBatch \in Nat \ {0}
  /\ {Nobody, Listener} \cap Callbacks = {}
  /\ HostFor \in [Callbacks -> Hosts]

Handlers == Callbacks

VARIABLES stage, lfd, rfd, owner, timed, conns, todo, port, ended

vars == <<status, waiters, hostOf, cached, zone, asked,
          stage, lfd, rfd, owner, timed, conns, todo, port, ended>>

FreeFds == {f \in Fds : owner[f] = Nobody}
LowestFree(f) == f \in FreeFds /\ \A g \in FreeFds : f <= g

Alive == {x \in Handlers : stage[x] \notin {"none", "DESTROYED"}}

Init ==
  /\ DnsInit
  /\ stage = [x \in Handlers |-> "none"]
  /\ lfd = [x \in Handlers |-> NoFd]
  /\ rfd = [x \in Handlers |-> NoFd]
  /\ owner = [f \in Fds |-> IF \A g \in Fds : f <= g THEN Listener ELSE Nobody]
  /\ timed = {}
  /\ conns = 0
  /\ todo = <<>>
  /\ port = "open"
  /\ ended = [x \in Handlers |-> 0]

-----------------------------------------------------------------------------
\* Mutants of TakeDown: the remote socket stays in the map; the resolver is not
\* told.
TakeDownLocal(x) ==
  /\ stage' = [stage EXCEPT ![x] = "DESTROYED"]
  /\ lfd' = [lfd EXCEPT ![x] = NoFd]
  /\ rfd' = [rfd EXCEPT ![x] = NoFd]
  /\ owner' = [f \in Fds |-> IF f = lfd[x] THEN Nobody ELSE owner[f]]
  /\ RemoveCallback(x)
  /\ timed' = timed \ {x}
  /\ conns' = conns - 1
  /\ ended' = [ended EXCEPT ![x] = @ + 1]
  /\ UNCHANGED <<cached, zone, asked>>
TakeDownStillWaiting(x) ==
  /\ stage' = [stage EXCEPT ![x] = "DESTROYED"]
  /\ lfd' = [lfd EXCEPT ![x] = NoFd]
  /\ rfd' = [rfd EXCEPT ![x] = NoFd]
  /\ owner' = [f \in Fds |-> IF owner[f] = x THEN Nobody ELSE owner[f]]
  /\ timed' = timed \ {x}
  /\ conns' = conns - 1
  /\ ended' = [ended EXCEPT ![x] = @ + 1]
  /\ UNCHANGED <<status, waiters, hostOf, cached, zone, asked>>

\* destroy past its check: close the sockets, leave the resolver, the timeout
\* cache and the count.
TakeDown(x) ==
  /\ stage' = [stage EXCEPT ![x] = "DESTROYED"]
  /\ lfd' = [lfd EXCEPT ![x] = NoFd]
  /\ rfd' = [rfd EXCEPT ![x] = NoFd]
  /\ owner' = [f \in Fds |-> IF owner[f] = x THEN Nobody ELSE owner[f]]
  /\ RemoveCallback(x)
  /\ timed' = timed \ {x}
  /\ conns' = conns - 1
  /\ ended' = [ended EXCEPT ![x] = @ + 1]
  /\ UNCHANGED <<cached, zone, asked>>

\* Mutant: no check that the handler is destroyed already.
DestroyAlways(x) == TakeDown(x)

\* destroy
Destroy(x) ==
  IF stage[x] = "DESTROYED"
  THEN UNCHANGED <<status, waiters, hostOf, cached, zone, asked,
                   stage, lfd, rfd, owner, timed, conns, ended>>
  ELSE TakeDown(x)

\* Mutant: a handler without data leaves the timeout cache.
ActivityDropping(x, active) ==
  /\ timed' = IF active THEN timed \cup {x} ELSE timed \ {x}
  /\ UNCHANGED <<status, waiters, hostOf, cached, zone, asked,
                 lfd, rfd, owner, conns, ended>>

\* update_activity: x is the most recent in the timeout cache.  active says
\* whether there was data to write, or to keep.
Activity(x, active) ==
  /\ timed' = IF active THEN timed \cup {x} ELSE timed
  /\ UNCHANGED <<status, waiters, hostOf, cached, zone, asked,
                 lfd, rfd, owner, conns, ended>>

-----------------------------------------------------------------------------
\* EventLoop.poll: some of the events that are ready, in any order, at most
\* one for each socket.  In stage DNS a handler polls its client for errors
\* only.
Ready ==
  {<<"event", f, e>> :
     f \in {g \in Fds : owner[g] # Nobody}, e \in {"IN", "OUT", "ERR"}}
  \cup {<<"reply", q[1], q[2]>> : q \in asked}

MayReport(item) ==
  item[1] = "event" =>
    LET x == owner[item[2]]
    IN IF x = Listener THEN item[3] = "IN"
       ELSE item[3] = "ERR" \/ stage[x] # "DNS"

OncePerSource(items) ==
  \A i, j \in 1..Len(items) :
    items[i][1] = items[j][1] /\ items[i][2] = items[j][2] => i = j

Poll ==
  /\ todo = <<>>
  /\ \E n \in 1..MaxBatch :
       todo' \in {items \in [1..n -> {r \in Ready : MayReport(r)}] :
                   OncePerSource(items)}
  /\ UNCHANGED <<status, waiters, hostOf, cached, zone, asked,
                 stage, lfd, rfd, owner, timed, conns, port, ended>>

\* The loop takes the next item; more is what the item itself brings.
Take(item, more) ==
  /\ todo # <<>> /\ Head(todo) = item
  /\ todo' = more \o Tail(todo)
  /\ UNCHANGED port

\* The descriptor was closed by an earlier item of the round.
OnStale(f, e) ==
  /\ Take(<<"event", f, e>>, <<>>)
  /\ owner[f] = Nobody
  /\ UNCHANGED <<status, waiters, hostOf, cached, zone, asked,
                 stage, lfd, rfd, owner, timed, conns, ended>>

\* TCPRelay.handle_event for the listening socket, and the handler's
\* __init__.  A connection that is gone again, or no free descriptor, has no
\* effect.
OnAccept(f, x) ==
  /\ Take(<<"event", f, "IN">>, <<>>)
  /\ owner[f] = Listener
  /\ stage[x] = "none"
  /\ \/ /\ stage' = [stage EXCEPT ![x] = "INIT"]
        /\ \E g \in Fds : /\ LowestFree(g)
                          /\ lfd' = [lfd EXCEPT ![x] = g]
                          /\ owner' = [owner EXCEPT ![g] = x]
        /\ timed' = timed \cup {x}
        /\ conns' = conns + 1
     \/ UNCHANGED <<stage, lfd, owner, timed, conns>>
  /\ UNCHANGED <<status, waiters, hostOf, cached, zone, asked, rfd, ended>>

\* accept finds no client (EAGAIN).
OnAcceptNothing(f) ==
  /\ Take(<<"event", f, "IN">>, <<>>)
  /\ owner[f] = Listener
  /\ \A x \in Handlers : stage[x] # "none"
  /\ UNCHANGED <<status, waiters, hostOf, cached, zone, asked,
                 stage, lfd, rfd, owner, timed, conns, ended>>

\* handle_event of handler x, when it ends the handler: an error event, the
\* end of a stream, an error of recv or send, data a plugin or the parser
\* rejects, a user that is gone.
OnEnd(f, e, x) ==
  /\ Take(<<"event", f, e>>, <<>>)
  /\ owner[f] = x
  /\ Destroy(x)

\* _on_local_read in INIT: the request arrives, and the name it asks for is
\* known already or has to be resolved.
OnRequest(f, x) ==
  /\ owner[f] = x /\ f = lfd[x] /\ stage[x] = "INIT"
  /\ stage' = [stage EXCEPT ![x] = "DNS"]
  /\ IF HostFor[x] \in cached
     THEN /\ Take(<<"event", f, "IN">>, << <<"dns", x, TRUE>> >>)
          /\ UNCHANGED <<status, waiters, hostOf, cached, zone, asked>>
     ELSE /\ Take(<<"event", f, "IN">>, <<>>)
          /\ Enqueue(x, HostFor[x])
  /\ UNCHANGED <<lfd, rfd, owner, timed, conns, ended>>

\* Any other event of a handler that goes on: data is passed on, or there was
\* none.  While connecting, data from the client only fills a buffer.
OnData(f, e, x) ==
  /\ Take(<<"event", f, e>>, <<>>)
  /\ owner[f] = x /\ e # "ERR"
  /\ stage' = [stage EXCEPT ![x] =
                 IF f = rfd[x] /\ e = "OUT" THEN "STREAM" ELSE @]
  /\ \E active \in BOOLEAN : Activity(x, active)

\* DNSResolver.handle_event: the waiters of the name are called in turn.
OnReply(n, f) ==
  /\ Take(<<"reply", n, f>>,
          [i \in 1..Len(Called(n, f)) |->
             <<"dns", Called(n, f)[i], HasAddress(n, f)>>])
  /\ Answer(n, f)
  /\ UNCHANGED <<stage, lfd, rfd, owner, timed, conns, ended>>

\* _handle_dns_resolved with an address: connect.  The stage is set first, so
\* that a failure (no descriptor, a forbidden address, connect) is followed by
\* destroy whatever the stage was.
OnResolved(x) ==
  /\ Take(<<"dns", x, TRUE>>, <<>>)
  /\ \/ /\ stage' = [stage EXCEPT ![x] = "CONNECTING"]
        /\ \E g \in Fds : /\ LowestFree(g)
                          /\ rfd' = [rfd EXCEPT ![x] = g]
                          /\ owner' = [owner EXCEPT ![g] = x]
        /\ UNCHANGED <<status, waiters, hostOf, cached, zone, asked,
                       lfd, timed, conns, ended>>
     \/ TakeDown(x)

\* _handle_dns_resolved with an error.
OnUnresolved(x) == Take(<<"dns", x, FALSE>>, <<>>) /\ Destroy(x)

\* One of the destroy() calls of a port that closes.
OnDestroy(x) == Take(<<"destroy", x>>, <<>>) /\ Destroy(x)

-----------------------------------------------------------------------------
\* handle_periodic between two rounds: _sweep_timeout finds x too old.
TimeOut(x) ==
  /\ todo = <<>> /\ port # "gone"
  /\ x \in timed
  /\ TakeDown(x)
  /\ UNCHANGED <<todo, port>>

\* Mutant: only handlers that are connected.
ToDestroyConnected ==
  {f \in Fds : owner[f] \in Handlers /\ rfd[owner[f]] = f}

\* The handlers in _fd_to_handlers.values(): one entry for each descriptor.
ToDestroy == {f \in Fds : owner[f] \in Handlers}

DestroyAll ==
  todo' \in {[i \in DOMAIN fs |-> <<"destroy", owner[fs[i]]>>] \o todo :
               fs \in SetToSeqs(ToDestroy)}

\* Mutant: the entry of the listening socket is blanked, not deleted.
WithoutListenerBlank ==
  [f \in Fds |-> IF owner[f] = Listener THEN NoFd ELSE owner[f]]

WithoutListener ==
  [f \in Fds |-> IF owner[f] = Listener THEN Nobody ELSE owner[f]]

\* close(True), by the database thread: only a flag.
Close ==
  /\ port = "open"
  /\ port' = "closing"
  /\ UNCHANGED <<status, waiters, hostOf, cached, zone, asked,
                 stage, lfd, rfd, owner, timed, conns, todo, ended>>

\* handle_periodic of a port that was closed.
PeriodicClosed ==
  /\ todo = <<>> /\ port \in {"closing", "closed"}
  /\ port = "closing" \/ ToDestroy # {}
  /\ port' = "closed"
  /\ owner' = WithoutListener
  /\ DestroyAll
  /\ UNCHANGED <<status, waiters, hostOf, cached, zone, asked,
                 stage, lfd, rfd, timed, conns, ended>>

\* close(False): at once, from some other handler's event of the round.
CloseNow ==
  /\ port = "open"
  /\ todo # <<>> => Head(todo)[1] \in {"event", "reply"}
  /\ port' = "gone"
  /\ owner' = WithoutListener
  /\ DestroyAll
  /\ UNCHANGED <<status, waiters, hostOf, cached, zone, asked,
                 stage, lfd, rfd, timed, conns, ended>>

\* One item of the round.
Step ==
  \/ \E f \in Fds, e \in {"IN", "OUT", "ERR"} :
       \/ OnStale(f, e)
       \/ \E x \in Handlers : OnEnd(f, e, x) \/ OnData(f, e, x)
  \/ \E f \in Fds, x \in Handlers : OnAccept(f, x) \/ OnRequest(f, x)
  \/ \E f \in Fds : OnAcceptNothing(f)
  \/ \E n \in Hosts, f \in Families : OnReply(n, f)
  \/ \E x \in Handlers : OnResolved(x) \/ OnUnresolved(x) \/ OnDestroy(x)

Next ==
  \/ Poll \/ Step
  \/ \E x \in Handlers : TimeOut(x)
  \/ Close \/ PeriodicClosed \/ CloseNow

\* The loop finishes every round.  It calls handle_periodic at the end of a
\* round, before the next poll, whenever TIMEOUT_PRECISION seconds have
\* passed: infinitely often if rounds end infinitely often, hence SF.
Spec ==
  /\ Init /\ [][Next]_vars
  /\ WF_vars(Step)
  /\ SF_vars(PeriodicClosed)

-----------------------------------------------------------------------------
Items ==
  ({"event"} \X Fds \X {"IN", "OUT", "ERR"})
  \cup ({"reply"} \X Hosts \X Families) \cup ({"dns"} \X Handlers \X BOOLEAN)
  \cup ({"destroy"} \X Handlers)

TypeOK ==
  /\ DnsTypeOK
  /\ stage \in [Handlers -> {"none", "INIT", "DNS", "CONNECTING", "STREAM",
                             "DESTROYED"}]
  /\ lfd \in [Handlers -> Fds \cup {NoFd}]
  /\ rfd \in [Handlers -> Fds \cup {NoFd}]
  /\ owner \in [Fds -> Handlers \cup {Nobody, Listener}]
  /\ timed \subseteq Handlers
  /\ conns \in Int /\ todo \in Seq(Items)
  /\ port \in {"open", "closing", "closed", "gone"}
  /\ ended \in [Handlers -> Nat]

\* No two handlers ask for the same name.
NamesNotShared ==
  \A x, y \in Handlers : HostFor[x] = HostFor[y] => x = y

\* The map of descriptors and the handlers agree: a descriptor belongs to a
\* handler exactly when it is one of its open sockets, so no handler is left
\* in the map with a descriptor the system may give to someone else.
DescriptorsAgree ==
  \A f \in Fds, x \in Handlers :
    owner[f] = x <=> (f = lfd[x] \/ f = rfd[x])

\* As long as clients ask for different names: server_connections is the
\* number of live connections (the count is kept by += 1 and -= 1 on paths far
\* apart).
ConnectionsCounted == NamesNotShared => conns = Cardinality(Alive)

\* A destroyed handler is out of every table: descriptors, timeout cache,
\* resolver.
NothingLeaks ==
  NamesNotShared =>
    \A x \in Handlers :
      stage[x] = "DESTROYED" =>
        /\ lfd[x] = NoFd /\ rfd[x] = NoFd
        /\ x \notin timed
        /\ \A n \in Hosts : x \notin ToSet(waiters[n])

\* Every live handler can be reclaimed: the timeout cache and the map of
\* descriptors, where the sweep and the closing port look, both have it.
Reclaimable ==
  NamesNotShared =>
    \A x \in Alive : x \in timed /\ owner[lfd[x]] = x

\* A port that is closed loses all its connections, whatever stage they are in
\* and whatever was polled for them before.
ClosedPortDrains ==
  (port # "open") ~> (port \in {"closed", "gone"} /\ Alive = {})

\* "destroy releases resources so it prevents future call to destroy": a
\* handler is taken down once.
TakenDownOnce == \A x \in Handlers : ended[x] <= 1
=============================================================================
