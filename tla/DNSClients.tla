----------------------------- MODULE DNSClients -----------------------------
(***************************************************************************)
(* The resolver together with callbacks that come and go, as TCPRelay and  *)
(* UDPRelay use it: each callback is passed to resolve once, and may be    *)
(* withdrawn (remove_callback) while it waits.                             *)
(***************************************************************************)
EXTENDS DNSResolver

VARIABLES client,      \* idle, waiting, answered, left
          wanted,      \* the name each client asked for
          lost         \* has any query been lost? (history)

clientsVars == <<status, waiters, hostOf, cached, zone, asked, client, wanted, lost>>

ClientsInit ==
  /\ DnsInit
  /\ client = [c \in Callbacks |-> "idle"]
  /\ wanted = [c \in Callbacks |-> NoHost]
  /\ lost = FALSE

\* resolve: answered at once from the cache, or made to wait.
Resolve(c, n) ==
  /\ client[c] = "idle"
  /\ wanted' = [wanted EXCEPT ![c] = n]
  /\ UNCHANGED lost
  /\ \/ /\ n \in cached
        /\ client' = [client EXCEPT ![c] = "answered"]
        /\ UNCHANGED dnsVars
     \/ /\ Enqueue(c, n)
        /\ client' = [client EXCEPT ![c] = "waiting"]

Leave(c) ==
  /\ client[c] = "waiting"
  /\ RemoveCallback(c)
  /\ client' = [client EXCEPT ![c] = "left"]
  /\ UNCHANGED <<cached, zone, asked, wanted, lost>>

Reply(n, f) ==
  /\ Answer(n, f)
  /\ client' = [c \in Callbacks |->
                  IF c \in ToSet(Called(n, f)) /\ client[c] = "waiting"
                  THEN "answered" ELSE client[c]]
  /\ UNCHANGED <<wanted, lost>>

Lost(n, f) == Lose(n, f) /\ lost' = TRUE /\ UNCHANGED <<client, wanted>>

Sweep(n) == SweepCache(n) /\ UNCHANGED <<client, wanted, lost>>

ClientsNext ==
  \/ \E c \in Callbacks, n \in Hosts : Resolve(c, n)
  \/ \E c \in Callbacks : Leave(c)
  \/ \E n \in Hosts, f \in Families : Reply(n, f) \/ Lost(n, f)
  \/ \E n \in Hosts : Sweep(n)

\* Name servers that answer: a query that is not lost is answered, again and
\* again if it is asked again.
ClientsSpec ==
  /\ ClientsInit /\ [][ClientsNext]_clientsVars
  /\ \A n \in Hosts, f \in Families : WF_clientsVars(Reply(n, f))

-----------------------------------------------------------------------------
ClientsTypeOK ==
  /\ DnsTypeOK
  /\ client \in [Callbacks -> {"idle", "waiting", "answered", "left"}]
  /\ wanted \in [Callbacks -> Hosts \cup {NoHost}]
  /\ lost \in BOOLEAN

\* The resolver waits for a family exactly while somebody waits for the name,
\* and every registration is of a callback in the list: removals and replies
\* leave no orphan behind (remove_callback, _call_callback).
Consistent ==
  /\ ClientsTypeOK
  /\ \A n \in Hosts : status[n] = "none" <=> waiters[n] = <<>>
  /\ \A c \in Callbacks :
       hostOf[c] # NoHost => c \in ToSet(waiters[hostOf[c]])

\* A client that still waits is in the list of the name it asked for, exactly
\* once: no other client's removal or reply makes the resolver forget it.
NobodyForgotten ==
  \A c \in Callbacks :
    client[c] = "waiting" =>
      \E i \in 1..Len(waiters[wanted[c]]) :
        \A j \in 1..Len(waiters[wanted[c]]) :
          waiters[wanted[c]][j] = c <=> j = i

\* An error is reported only for a name that has no address: whatever replies
\* are late or repeated, a client that was told "unable to parse hostname" was
\* told the truth.
OnlyTrueErrors ==
  [][\A n \in Hosts, f \in Families :
       Reply(n, f) /\ Called(n, f) # <<>> /\ zone[n] # {}
         => n \in cached']_clientsVars

\* If nothing is lost, whoever waits is answered in the end, or leaves.
EveryoneAnswered ==
  []~lost =>
    \A c \in Callbacks : client[c] = "waiting" ~> client[c] # "waiting"
=============================================================================
