------------------------------ MODULE AuthData ------------------------------
(***************************************************************************)
(* obfsplugin/auth.py, classes obfs_auth_v2_data and obfs_auth_mu_data,    *)
(* and auth_chain.py, class obfs_auth_chain_data: the connection ids that  *)
(* the clients of a server port have used, shared by every connection of   *)
(* the port.  The protocol plugins ask it, once per connection, whether to *)
(* believe the client id and the connection id in the header.  The last    *)
(* two classes keep such a table for each user; the tables are independent *)
(* and this is one of them.  Tables of auth_chain count the connections of *)
(* a client: dispose tells them when one ends.                             *)
(*                                                                         *)
(*   order     the key order of the LRUCache client_id (local_client_id):  *)
(*             least recently used client first                            *)
(*   queues    the client_queue of each client (meaningful for the clients *)
(*             in order)                                                   *)
(*                                                                         *)
(* History, not in the code: since a client's window was last opened (the  *)
(* queue created, or started over after it was inactive),                  *)
(*                                                                         *)
(*   accepted  how often each connection id was accepted                   *)
(*   began     the id that opened the window                               *)
(*                                                                         *)
(* and of the clients of a table that counts,                              *)
(*                                                                         *)
(*   live      the accepted connections that have not ended                *)
(*   strays    some of them were counted by a queue that was evicted       *)
(***************************************************************************)
EXTENDS ClientQueue, OrderedKeys

CONSTANTS Clients, Ids, MaxClient,
          MaxLive        \* connections of a client that live at once

ASSUME AuthAssumption ==
  Ids \subseteq Int /\ MaxClient \in Nat \ {0} /\ MaxLive \in Nat

VARIABLES order, queues, accepted, began, live, strays

vars == <<class, order, queues, accepted, began, live, strays>>

Known == Keys(order)

NeverUsed == [id \in Ids |-> 0]

Init ==
  /\ class \in {"auth", "chain"}
  /\ order = <<>>
  /\ queues = [c \in Clients |-> NewQueue(0)]
  /\ accepted = [c \in Clients |-> NeverUsed]
  /\ began = [c \in Clients |-> 0]
  /\ live = [c \in Clients |-> 0]
  /\ strays = {}

-----------------------------------------------------------------------------
\* Mutant: a connection is counted before its id is looked at.
InsertIntoCounting(q, c, id, qs, acc, start) ==
  /\ IF Accepts(q, id)
     THEN \E r \in Inserted(q, id) :
            /\ queues' = [qs EXCEPT ![c] = AddRef(r)]
            /\ accepted' = [acc EXCEPT ![c][id] = @ + 1]
            /\ live' = IF class = "chain"
                       THEN [live EXCEPT ![c] = @ + 1] ELSE live
     ELSE /\ queues' = [qs EXCEPT ![c] = AddRef(q)]
          /\ accepted' = acc
          /\ live' = live
  /\ began' = start

\* What client_queue.insert(id) does for c once the window q is settled;
\* acc and start are c's history in that window.
InsertInto(q, c, id, qs, acc, start) ==
  /\ IF Accepts(q, id)
     THEN \E r \in Inserted(q, id) :
            /\ queues' = [qs EXCEPT ![c] = AddRef(r)]
            /\ accepted' = [acc EXCEPT ![c][id] = @ + 1]
            /\ live' = IF class = "chain"
                       THEN [live EXCEPT ![c] = @ + 1] ELSE live
     ELSE /\ queues' = [qs EXCEPT ![c] = q]
          /\ accepted' = acc
          /\ live' = live
  /\ began' = start

\* A window that opens with id: q has it, no id was accepted yet.
OpenFor(q, c, id, qs, acc, start) ==
  InsertInto(q, c, id, qs, [acc EXCEPT ![c] = NeverUsed],
             [start EXCEPT ![c] = id])

\* insert: the client has a queue.  The lookup makes it the newest key.
InsertKnown(c, id) ==
  /\ c \in Known
  /\ order' = Touch(order, c)
  /\ IF IsActive(queues[c])
     THEN InsertInto([queues[c] EXCEPT !.age = 0], c, id, queues, accepted,
                     began)
     ELSE OpenFor(Reopened(queues[c], id), c, id, queues, accepted, began)
  /\ UNCHANGED strays

\* insert: the client has no queue and there is room for one.
InsertNew(c, id) ==
  /\ c \notin Known
  /\ Len(order) < MaxClient
  /\ order' = Append(order, c)
  /\ OpenFor(NewQueue(id), c, id, queues, accepted, began)
  /\ UNCHANGED strays

\* The order once the oldest client has been asked whether it is active: the
\* question goes through LRUCache.__getitem__, which makes it the newest.
AskedOrder == Touch(order, Head(order))

\* insert: no room, the oldest client is inactive.  The client that is then
\* the oldest, not the one that was asked about, gives up its queue.
InsertEvicting(c, id) ==
  /\ c \notin Known
  /\ Len(order) >= MaxClient
  /\ ~IsActive(queues[Head(order)])
  /\ LET victim == Head(AskedOrder)
     IN /\ order' = Append(Del(AskedOrder, victim), c)
        /\ OpenFor(NewQueue(id), c, id,
                   [queues EXCEPT ![victim] = NewQueue(0)],
                   [accepted EXCEPT ![victim] = NeverUsed],
                   [began EXCEPT ![victim] = 0])
        /\ strays' = IF live[victim] > 0 THEN strays \cup {victim} ELSE strays

\* insert: no room, the oldest client is active: refused.
InsertRefused(c, id) ==
  /\ c \notin Known
  /\ Len(order) >= MaxClient
  /\ IsActive(queues[Head(order)])
  /\ order' = AskedOrder
  /\ UNCHANGED <<queues, accepted, began, live, strays>>

Insert(c, id) ==
  /\ live[c] < MaxLive
  /\ \/ InsertKnown(c, id)
     \/ InsertNew(c, id)
     \/ InsertEvicting(c, id)
     \/ InsertRefused(c, id)
  /\ UNCHANGED class

\* update: a connection of a known client keeps its queue active.
Update(c) ==
  /\ c \in Known
  /\ order' = Touch(order, c)
  /\ queues' = [queues EXCEPT ![c].age = 0]
  /\ UNCHANGED <<class, accepted, began, live, strays>>

\* dispose and remove: a connection of c that was accepted ends.  Its queue may
\* be gone, or be another one than the one that counted it.
Dispose(c) ==
  /\ class = "chain" /\ live[c] > 0
  /\ IF c \in Known
     THEN /\ order' = Touch(order, c)
          /\ queues' = [queues EXCEPT ![c] = DelRef(@)]
     ELSE UNCHANGED <<order, queues>>
  /\ live' = [live EXCEPT ![c] = @ - 1]
  /\ strays' = IF live[c] = 1 THEN strays \ {c} ELSE strays
  /\ UNCHANGED <<class, accepted, began>>

\* Time passes: every queue ages (time.time() is read in is_active).
Tick ==
  /\ queues' = [c \in Clients |->
                  IF c \in Known /\ queues[c].age < ActiveTime
                  THEN [queues[c] EXCEPT !.age = @ + 1]
                  ELSE queues[c]]
  /\ UNCHANGED <<class, order, accepted, began, live, strays>>

Next ==
  \/ \E c \in Clients, id \in Ids : Insert(c, id)
  \/ \E c \in Clients : Update(c) \/ Dispose(c)
  \/ Tick

Spec == Init /\ [][Next]_vars

-----------------------------------------------------------------------------
\* The table never outgrows MaxClient, and no client is in it twice (the
\* order is the key order of a dictionary).
TableBounded ==
  /\ Len(order) <= MaxClient
  /\ \A i, j \in 1..Len(order) : order[i] = order[j] => i = j

\* Types, the bound of the table included.
TypeOK ==
  /\ class \in {"auth", "chain"}
  /\ order \in Seq(Clients)
  /\ TableBounded
  /\ queues \in [Clients -> Queues(Ids)]
  /\ accepted \in [Clients -> [Ids -> Nat]]
  /\ began \in [Clients -> Int]
  /\ live \in [Clients -> Nat]
  /\ strays \subseteq Clients

\* No connection id is accepted twice in one window of a client, however
\* insertions, reordering, jumps and the movement of front interleave
\* (client_queue.insert: "duplicate id" and "deprecated id").
NoReplay == \A c \in Clients, id \in Ids : accepted[c][id] <= 1

\* The bound on what a queue remembers: front trails back by at most
\* MaxWindow, and alloc lies strictly between them, so a queue never holds
\* more than MaxWindow ids although ids may jump by MaxJump.
WindowBounded ==
  \A c \in Clients :
    /\ queues[c].front <= queues[c].back
    /\ queues[c].back <= queues[c].front + MaxWindow
    /\ \A x \in queues[c].alloc : queues[c].front < x /\ x < queues[c].back

\* What the window promises a client whose connections arrive out of order:
\* an id not yet used is still welcome if it is no further than Lookback
\* below the id that opened the window, no further than MaxWindow below the
\* end of the window, and not beyond the next new id.  In particular the next
\* new id, back, is always welcome: a client is never shut out by its own
\* past.
LateIdsWelcome ==
  \A c \in Known :
    LET q == queues[c]
    IN \A id \in Ids :
         (/\ accepted[c][id] = 0
          /\ began[c] - Lookback <= id
          /\ q.back - MaxWindow <= id
          /\ id <= q.back) => Accepts(q, id)

\* The references that auth_chain counts.  As long as no queue of a client was
\* evicted over its live connections they are exactly those connections; and
\* always they are no more, although every end of a connection is counted off
\* whichever queue is there: a client whose last connection has ended is
\* inactive, and can be evicted.
RefsCounted ==
  class = "chain" =>
    \A c \in Clients :
      /\ queues[c].ref <= live[c]
      /\ c \notin strays => queues[c].ref = live[c]

\* A client loses its queue only when it is inactive: a full table makes room
\* by dropping a client it has found inactive, and MaxClient is the "max
\* active client count".
EvictsOnlyInactive ==
  [][\A c \in Known : c \in Keys(order)' \/ ~IsActive(queues[c])]_vars
=============================================================================
