# Verification of the ShadowsocksR server

The repository is a collection of OpenWrt packages. Most of it is packaging,
configuration pages, data lists and third-party code. The one large program of
its own is the Python proxy server under
`newpackage/lean/luci-app-ssrserver-python/root/usr/share/ssr` (below: `ssr/`).
This project models its server side: what the relays do with connections and
datagrams, how names are resolved, how clients are recognised, and how traffic
is billed.

## 1. Inventory

### Threads and how they interact

* The **loop thread** runs `EventLoop.run`: poll, dispatch each event by its
  descriptor, then the periodic callbacks if 10 s have passed. The TCP and UDP
  relays of all ports, the DNS resolver and the manager live in it.
* The **database thread** runs `TransferBase.thread_db`: push traffic, pull the
  rows, stop and start servers, wait. It calls into the relays from outside the
  loop: `close(True)` only sets a flag that the next periodic callback sees.
* **The administrator's tools** (`mujson_mgr.py`, SQL) write the same table. The
  JSON file has no lock: tool and server each read all of it, and later write
  all of it.

Calls within the loop thread: a relay asks `DNSResolver.resolve` and is called
back in a later event (or at once, from the cache); a handler asks the protocol
plugin to decode, and the plugin asks the table of client ids shared by the
port. There is no locking; what keeps the loop's state consistent is that
nothing else runs within one event. What makes it hard is what happens *between*
the events of one poll.

### Components

| component | state | operations | hard behaviour | what makes it correct |
|---|---|---|---|---|
| `TCPRelayHandler` (`tcprelay.py`) | stage, two stream statuses, polled events, two buffers, two sockets | read/write/error events, DNS answer, `destroy` | two events of one poll, partial writes, plugin answers in between | no unit lost or doubled; polled events follow the statuses; no stream goes deaf; all data out before an end of file is passed on |
| `TCPRelay` (`tcprelay.py`) | `_fd_to_handlers`, `_timeout_cache`, connection count, closing flag | accept, dispatch, sweep, close (two ways) | reuse of descriptors, DNS answers for dead handlers, closing in the middle of a round | tables agree, count is right, nothing leaks, a closed port drains |
| `DNSResolver` (`asyncdns.py`) | status, waiters and registrations of names, cache | `resolve`, replies, `remove_callback`, sweep | lost, late, repeated replies; several waiters, some of whom leave | nobody forgotten, no false errors, everyone answered |
| `UDPRelay` (`udprelay.py`) | two LRU caches of sockets, `_sockets`, `_client_fd_to_server_addr` | datagram in, reply out, DNS answer, sweep, close (two ways) | displacement while events are pending, late DNS answers | tables agree, a reply reaches the right client, bounds hold, closing releases |
| client id tables (`obfsplugin/auth.py`, `auth_chain.py`) | an LRU table of clients (one for each user), a window of connection ids and a count of connections for each | `insert`, `update`, `remove` | windows that move, jump, expire; a full table; connections that outlive the queue that counted them | no replay, late ids stay welcome, bounds hold, counts are right |
| accounting (`db_transfer.py`, `server_pool.py`) and the user file tool (`mujson_mgr.py`) | last counters read and billed, forced ports, skipped rounds, running servers; copies of the file | push, pull, stop, start, wait; `add`, `edit`, `delete`, `clear_ud` | failing updates, three back ends, restarts, a second server counting for the same user, a file that two processes rewrite | nobody billed too much, all billed in the end, only entitled users served |
| event loop (`eventloop.py`), LRU cache (`lru_cache.py`) | descriptor map, callbacks; keys in order | poll, add, remove, run; get, set, sweep, clear | a lookup reorders the cache; events of closed descriptors | seen through their users |
| framing of the protocol plugins (`obfsplugin/auth.py`, `auth_chain.py`) | numbers of the next frame each way, receive buffer, header seen, raw transfer | `client_pre_encrypt`, `client_post_decrypt`, `server_pre_encrypt`, `server_post_decrypt` | frames in pieces, changed, lost, repeated; answers between data; leaving the protocol | what is released is a prefix of what was sent; undisturbed, all of it |
| obfs plugins (`obfsplugin/obfs_tls.py`, `http_simple.py`) | handshake status of both ends, data kept back, receive buffer | `client_encode`, `client_decode`, `server_encode`, `server_decode` | handshake messages cut anywhere or joined with data; answers sent before, between and after data | nothing of the handshake gets into the data; nothing kept back is lost; nobody waits for ever |
| manager (`manager.py`, `asyncmgr.py`) | what removing a port does to its relays; the rest: see *Plan* | | | |
| encryption, parsing, start-up, `sslocal`, LuCI pages, other packages | not modelled, see section 7 | | | |

`PROJECT.json` lists every component with its status, and under `hazards` the
lines where the code can go wrong in a way a test hardly reaches.

## 2. Modules

Data is abstracted to what the properties tell apart. Control (every stage,
guard, early return, error path and their order) is kept. Definitions named
"Mutant" are wrong variants, used only to show that a property can fail.

| module | models | remarks |
|---|---|---|
| `OrderedKeys` | the key order of `LRUCache` | `Touch` is a lookup or an assignment, both move the key to the end |
| `ClientQueue` | `client_queue` of `auth.py` and of `auth_chain.py` | a queue is a value; the clock is an `age` up to the limit it is compared with; `class` says which of the two files it is |
| `AuthData` | `obfs_auth_v2_data`, `obfs_auth_mu_data`, `obfs_auth_chain_data` | extends both; one action per outcome of `insert`; the tables of different users are independent, this is one of them. `Dispose` is `dispose` of a connection of `auth_chain` |
| `TCPRelayHandler` | one handler with its two streams | the handler is one record `h`, as `self` is in the code; data is numbered units |
| `DNSResolver` | the resolver | a component without a next-state relation: users conjoin its operators with their own |
| `DNSClients` | the resolver with callers that come and go | composes `DNSResolver` with abstract callers |
| `TCPRelay` | all connections of a port, the loop's rounds, the resolver | composes `DNSResolver` with the relay; abstracts a handler to its stage |
| `UDPRelay` | the UDP relay of a port, the loop's rounds | the resolver is a set of pending answers |
| `AuthStream` | both ends of one connection of `auth_sha1_v4`, `auth_aes128_*` or `auth_chain_a`, and the network between them | a frame is two cells, which are what its receiver checks one by one; the plugin is chosen in `Init` |
| `ObfsStream` | both ends of one connection of `tls_ticket_auth`, `http_simple`, `http_post` or `random_head`, and the stream between them | a message of a handshake is two or three cells, the places at which a decoder sees a difference; the plugin is chosen in `Init` |
| `Channel` | | the abstract specification: a prefix is delivered, or the channel fails, or it is left before anything was delivered. `AuthStream` instantiates it once per direction |
| `Transfer` | the database thread, the servers' counters, the table of users, `mujson_mgr` | three back ends in one model, chosen in `Init`; the JSON file is read and written in separate steps by the server and by the tool |
| `SequenceLemmas`, `AuthDataProofs`, `TCPRelayHandlerProofs`, `TCPRelayProofs`, `UDPRelayProofs`, `AuthStreamProofs`, `ObfsStreamProofs`, `TransferProofs` | | theorems: each extends the module it is about; `TCPRelayProofs` both modules that are built on `DNSResolver`, `TCPRelay` and `DNSClients` (whose definitions have `Clients` in their names to keep the two apart). `SequenceLemmas` has the lemmas about key orders and about cutting and joining sequences that the others share |
| `MC*` | | instances for TLC |

How rounds are modelled: `todo` (or `batch`) is what is left of one poll. Each
item is one step, in which the whole handler runs, callbacks it makes included.
Where one call makes several callbacks (a DNS reply, closing a port) these are
put in front of the rest of the round, so that nothing gets in between. An
event names a descriptor, and the handler is looked up when the event is
dispatched, as `EventLoop.run` does: the descriptor may have been closed, or
given to somebody else, by then. New sockets get the lowest free descriptor.

The database thread is five steps per round: take the counters (and read the
JSON file), update the table, pull the rows, stop servers, start servers. These
are the places between which traffic and the administrator can change something.
SQL statements of the administrator are one step, a call of `mujson_mgr` is two:
`ToolLoad` (read the file, make the change in the copy) and `ToolSave`. A server
stands for all relays of a port, as `server_is_run` and `get_server_transfer` do.
Upload and download are added up, as no decision of the code looks at one of
them alone. `version` stands for the part of a row that makes the code restart
a server.

## 3. Runs

| run | instance | shows |
|---|---|---|
| `auth_data` | both kinds of tables, 3 clients, table of 2, ids 0..5, window 3, jump 4, look-back 1, 2 connections of a client at once, 823 000 states | `NoReplay`, `WindowBounded`, `LateIdsWelcome`, `RefsCounted`; `TypeOK` includes that the table is never larger than `MaxClient` |
| `auth_eviction` | the same, smaller | **violated**: `EvictsOnlyInactive` |
| `handler` | 4 units each way, up to 2 per read, both kinds of plugins, 115 000 states | `EveryUnitOnce`, `PollsForStatus`, `NeverDeaf`, `DownstreamInOrder`, `EofAfterEverythingSent` |
| `handler_buffered` | plugins that only encode | **violated**: `BufferedIsWaitedFor` |
| `dns` | 3 callers, 2 names, every combination of families, 163 000 states | `Consistent`, `NobodyForgotten`, `OnlyTrueErrors`, `EveryoneAnswered` |
| `relay` | 2 connections to different names, 5 descriptors, 2 events per poll, 146 000 states | `DescriptorsAgree`, `ConnectionsCounted`, `NothingLeaks`, `Reclaimable`, `ClosedPortDrains` |
| `relay_shared_name` | 2 connections to one name | **violated**: `TakenDownOnce` |
| `udp` | 3 clients, 2 descriptors, caches of 1 entry, 2 events per poll, 65 000 states | `SocketsAgree`, `OneCache`, `ClosedReleases`, `ClosingEnds`; `TypeOK` includes the bounds of the two caches |
| `auth_stream` | 3 units up, 2 down, at most 2 at once, one alteration by the network, 185 000 states | `UpStream` and `DownStream` (refinement of `Channel`), `Undisturbed`, `InsertedOnce` |
| `obfs` | 3 plugins, 5 units up, 4 down, at most 3 at once, 1 900 states | `InOrder`, `ComesThrough` |
| `transfer` | 1 user who uses both servers, a second row, 3 back ends, 2 units of traffic, 2 changes, 353 000 states | `BilledAtMostUsed`, `BilledInFull`, `ClearCacheNeverFails`, `ServersMatchRows`, `PendingIsBilled` |
| `transfer_twice` | the JSON back end | **violated**: `NeverBilledTwice` |

Why the bounds are enough for the interesting cases:

* `auth_data`: ids reach past the window and past the largest jump in both
  directions; three clients compete for two places; a queue can be idle,
  re-opened, evicted and created again, also while a connection that the old
  queue counted still lives (`strays`). The theorems of section 5 remove the
  bounds.
* `handler`: four units make two reads of two; every write may take any part of
  what it is given, so a buffer can be left half full, flushed and overtaken.
* `dns`: two callers can share a name while a third has its own; one shares and
  leaves, the other stays. One lost query makes both families differ.
* `relay`: two handlers with two sockets each and the listener need exactly the
  five descriptors; a descriptor freed by one event of a round is reused by the
  other. Two events per poll are the least in which one event invalidates
  another. `relay` uses different names: with a shared one the finding below
  breaks the tables.
* `udp`: two descriptors are used up by two caches of one entry, so that a
  third client displaces one, reuses its descriptor, or finds none.
* `auth_stream`: three units make a first write with header, data and an empty
  frame, or a second write; two answers of the server and two of its frames
  cover the first frame (with the MSS) being an answer or data. Every cut
  between cells is tried. One alteration is enough, as a receiver stops at the
  first one it sees. A cut inside a cell differs only in that an error may be
  found earlier, which `Verdicts` allows. `MaxRaw` bounds what a server in raw
  transfer sends.
* `obfs`: five units in writes of up to three make a greeting with data, data
  kept back and data sent after the handshake; every cut between cells is tried.
* `transfer`: the quota is reached with two units; the smallest amount worth an
  update is two, so that an update is put off once; two changes allow disabling
  and enabling, removing and adding, a change of the configuration followed by
  a restart, a call of `mujson_mgr` that overlaps an update and a second one
  after it. The second row (`Quiet`) is there because the multi-user server is
  kept only while there is some row.

Deadlock is not checked where the system may really stop: a handler that was
destroyed, a port that was closed, callers that have all been answered.

## 4. Findings

1. **`auth_eviction`** - `obfs_auth_v2_data.insert` asks whether the oldest
   client is active by looking it up, which makes it the newest one, and then
   deletes the client that is oldest *now*, active or not. (A refusal also
   rotates the order, so a newcomer can be refused while some other client is
   inactive.)
2. **`handler_buffered`** - while connecting, a handler waits for reading and
   writing. If the client's read event and the destination's connect event come
   in one poll and the first write is partial, new data is sent ahead of the
   buffered rest and the stream stops waiting for writing. The same holds
   downstream for answers of plugins; hence `DownstreamInOrder` is stated for
   plugins that do not answer.
3. **`relay_shared_name`** - only the first caller of a name is registered for
   removal. A second one whose handler was destroyed is still called back: the
   handler comes to life again and is taken down, and counted, twice.
4. **`transfer_twice`** - when a user's own server is stopped, what he was
   billed is forgotten, although the multi-user server keeps its count of the
   same user: the next rounds bill it again.

Noted while modelling, contradicted by no line of the repository and therefore
stated as conditions of the properties or as hazards: a further caller of a name
in progress repeats the query for the first family even when the resolver has
moved on to the second, so that a lost second query is never repeated while
anybody waits; a change made with `mujson_mgr` while the server is billing, or
the billing itself, can be overwritten (a deleted user comes back, an amount is
lost) - `BilledAtMostUsed` says that even then no row shows more than was added
to it, and `BilledInFull` that amounts are lost in no other way; a server of
which one relay failed to start counts as running and is not completed;
`random_head` and the HTTP client lose data when a head is cut; a connection
whose client was evicted takes a reference from the client's next queue (of such
clients `RefsCounted` only says that the count is not too high); `Dbv3Transfer` loses
amounts when an update fails and takes a failing query for an empty table; after
a restart of the multi-user server traffic goes unbilled until its counter has
caught up, and if the user's own server is stopped before, the difference that is
billed is negative (`total` in `Transfer` therefore adds up the positive amounts
only: what was charged, not what was taken off again); an answer of the resolver that comes after a UDP relay was closed
opens a socket nobody sweeps, and if it finds no descriptor the exception ends
the loop thread (`loop = "dead"` in `UDPRelay`); a closing port calls `destroy`
of a handler once for each of its sockets.

## 5. Proofs

Every theorem but one (`FailsForGood`, see below) is `Spec => []P` (or `Spec => P`
for an action property `P`) for a property `P` of a run of section 3: the run is the small instance, the theorem is
for all constants that satisfy the named assumptions. Each proof module defines
an invariant `Inv`, shows `Init => Inv` (`InitInv`) and `Inv /\ [Next]_vars =>
Inv'` (`NextInv`, or one lemma for each of its parts), and derives the theorems.
None of the properties is inductive by itself; what was added to each, and why,
is said below. The invariants were model-checked on the instances of the runs
before they were proved, that of `TCPRelay` also with a shared name. (The one of
`AuthStream` about data asks for a function on the naturals, which TLC cannot
look for; there the properties themselves were checked. That of `ObfsStream` was
checked with its flows and numbers cut off at the bounds of the run.)

| module | theorems | for all |
|---|---|---|
| `AuthDataProofs` | `TypeCorrect`, `NoReplayHolds`, `WindowBoundedHolds`, `LateIdsWelcomeHolds`, `RefsCountedHolds` | sets of clients and of integer ids, table sizes, windows, jumps, look-backs |
| `TCPRelayHandlerProofs` | `TypeCorrect`, `UnitsKept`, `PollsAgree`, `StreamsListen`, `OrderKept`, `EofLosesNothing` | numbers of units, sizes of a read, kinds of plugins |
| `TCPRelayProofs`, about `DNSClients` | `TablesAgree`, `WaitersKept`, `ErrorsTrue` | sets of names and of callers, zones, lost queries |
| `TCPRelayProofs`, about `TCPRelay` | `TypeCorrect`, `MapAgrees`, `CountRight`, `DestroyedIsGone`, `AliveIsFound` | sets of connections, of names and of descriptors (finite), sizes of a poll, zones |
| `UDPRelayProofs` | `TypeCorrect`, `TablesAgree`, `EntryInOneCache`, `CloseReleases` | sets of clients and descriptors, cache sizes, batch sizes |
| `AuthStreamProofs` | `TypeCorrect`, `UpRefines`, `DownRefines`, `NothingLost`, `AsksOnce`, `FailsForGood` | sets of plugins, numbers of units, sizes of a write |
| `ObfsStreamProofs` | `TypeCorrect`, `StreamsInOrder`, `NobodyWaits` | sets of plugins, numbers of units, sizes of a write |
| `TransferProofs` | `TypeCorrect`, `ChargesCovered`, `NothingUnbilled`, `ClearCacheSafe`, `ServersEntitled` | sets of ports, quotas, thresholds, amounts of traffic, numbers of changes and failures |

### Client id tables

Assumptions: `WindowAssumption` (the constants are naturals,
`Lookback < MaxWindow <= MaxJump`; the code has 64, 0x1000 and 0x4000) and
`AuthAssumption` (ids are integers, `MaxClient > 0`, `MaxLive` is a natural).

To refuse an id again a queue must remember it, and it does so in two ways, so
`WindowInv` says of an id that was accepted that it is below `front` or in
`alloc`; conversely, of an id that was not, that it is below `front` only if it
was out of reach when the window was opened or has dropped out at the far end.
Together with the bounds on `front`, `back` and `alloc` this is preserved by
`insert` (`InsertedWindow`, the heart of the proof), holds of a new window
(`NewWindow`) and of one that was started over (`ReopenedWindow`), and does not
depend on age and references (`AgedWindow`, `AddRefWindow`, `DelRefWindow`). For
the counts, `RefsInv` adds to `RefsCounted` that a client without a queue has no
references, so that a new queue starts right. The table part is that the key
order of a dictionary holds no key twice, for which `SequenceLemmas` has the
facts about deleting, appending, touching and cutting off keys.

The loop in `client_queue.insert` that moves `front` is modelled by the set of
places where it can stop (`Inserted`, a set of one element). The proofs hold for
every element of the set and so do not depend on its termination; that the set
has exactly one element is checked by TLC for all windows of the size of the
instance (`LoopEnds` in `MCAuthData`).

### TCP handler

Assumption: `HandlerAssumption` (the bounds are naturals, a read yields at least
one unit).

The properties speak of the handler; what makes them inductive is about the
events that are still to be handled. A poll looks at the statuses once, then the
events of its batch change them, so `Timely` says what survives: an event of the
remote socket finds one; no data of the client arrives while its name is being
resolved; where the plugins do not answer the client, nothing is buffered for it
when data of the destination arrives. This holds because one poll reports a
socket at most once (`OncePerSocket`, `BatchHandled`): the event that starts the
resolving is the client's own, and the one that fills the buffer is the
destination's. Of the handler, `Waits` adds to `PollsForStatus` and `NeverDeaf`
that the upstream status is exactly "write" while the name is being resolved:
without it `_handle_dns_resolved`, which registers the remote socket with events
of its own, might set a status that is already set, and `_update_stream` would
not correct what the loop polls for (`ResolvedGood`). `Held` restates
`EveryUnitOnce` with the units *in hand*, those that have been read, or taken
from a buffer, and are not yet sent or buffered: `_write_to_sock` turns them into
sent and buffered ones (`PartialWrite`, `WriteLocalGood`, `WriteRemoteGood`), and
every other operation either takes some in hand or stores them (`HeldMore`,
`HeldTaken`, `HeldBuffered`).

### Resolver

Assumption: `ResolverAssumption` (`NoHost` is no name, zones are sets of
families).

`ClientsInv` is type correctness and three parts. `ClientListsInv`: a list of callbacks holds
no callback twice, and only callers that asked for that name; it gives
"exactly once" in `NobodyForgotten`, and makes one removal enough. `TablesInv`:
a name has a status exactly while its list is not empty, and who is registered
or waits is in the list. `FamiliesInv`: the second family is asked for only
where the first one has no address, which is what makes a late or repeated reply
harmless: `ErrorsTrue` is an action property and follows from it for the step
that calls back.

### TCP relay

Assumptions: `ResolverAssumption`, and `RelayAssumption` (there are finitely many
descriptors, they are numbers and `NoFd` is none of them; a handler is neither
`Nobody` nor the listener; each client asks for one name).

The difficulty is that the tables are in order only together with what the loop
thread has still to do. `StateInv(D, E)` therefore states the tables' invariant
while callbacks of the handlers `D` and `destroy()` calls of the handlers `E` are
due, and `Inv` uses it with those in `todo` (`Due`, `Doomed`). Two groups of
lemmas meet in one lemma per action. About the round (`RoundInv`): callbacks come
before everything else, at most one for each handler, so that while an event, a
reply or a `destroy()` is handled none is due (`RoundTaken`), a reply puts its
callers in front (`RoundCalls`), and a closing port its `destroy()` calls
(`RoundDestroys`). About the tables, with `D` and `E` fixed: what taking a handler
down, accepting, connecting, waiting for a name and a reply do to them
(`TakeDownState`, `AcceptState`, `ConnectState`, `WaitState`, `ReplyState`).

The parts of `StateInv`: `SocketsInv` adds to `DescriptorsAgree` which sockets a
handler has in each stage, so that the owner of a descriptor lives (`OwnerLives`)
and a callback finds no remote socket that it would overwrite. `ListsInv` is about
the resolver's lists, as `ClientListsInv` is. `WaitsInv`: who waits, or is about
to be called, is in stage DNS or destroyed, and nobody is both. `UnsharedInv`
holds where names are not shared: then the one waiter of a name is the one that is
registered, `destroy` takes it out of the list, no callback is due of a handler
that was destroyed, and the timeout cache is exactly the set of live connections.
That is where the finding `relay_shared_name` enters: with a shared name this part
fails, while `DescriptorsAgree`, which does not need it, is proved for that case
too.

### UDP relay

Assumption: `UDPAssumption` (sizes of at least one, `NoFd` and `NoKey` are no
descriptor and no client).

`Agreed` is `SocketsAgree` with the keys of the two caches as a parameter, so
that what `_close_client` does for a set of keys (`CloseAgreed`) and what
opening a socket does are stated once, and used for displacement, sweeps and
both ways of closing. It needs that the two key orders have no repetitions
and no key in common (`Orders`), which is also `OneCache`, and the bounds of the
caches hold because one entry is added at a time and one displaced.

### Accounting

Assumption: `TransferAssumption` (the quota and the other amounts are naturals,
the step by which the threshold of an update falls is not 0).

`CountersInv` relates what a round has read to what the servers have counted
since, and says where in the round nothing is left over from stops (there
`clear_cache` is safe). `ChargedInv` strengthens `BilledAtMostUsed` to what the
*next* update may add: charged plus counted is at most used plus what is recorded
as billed, and separately for a port in `force_update_transfer`, whose server was
stopped after it was read. `RowsInv` says of the three copies of a row (table,
the server's copy of the file, the tool's) that each shows at most what was
charged, so that overwriting one with another does no harm. `CleanInv` is
`BilledInFull` with the reasons: the row is there, also in the copy about to be
written. `ServersInv` follows `ServersMatchRows` through the middle of a round.

### Framing of the protocol plugins

Assumption: `StreamAssumption` (the plugins are the three, the bounds are
naturals).

Modes. `HeaderInv`: once the ids were asked for, the server's plugin object has
its header, has left the protocol or has failed, so it never looks for a header
again; `AsksOnce` follows. `ReleasedInv`: before the header, and as long as
`decrypt_packet_num` is 0, nothing was released; it makes `FailsForGood` hold, an
action property about the modes of `Channel` in the direction to the server.

Data. The refinement `UpStream`, `DownStream` needs to know what the frames on
their way carry although the network may change them, leave one out or repeat it.
`DataInv` says it without a list of what was sent: there are places `o[0] <= o[1]
<= ...` in the given stream at which the sender has cut it, frame `i` carrying
what is between `o[i-1]` and `o[i]`, and every intact cell that is in the network
or in a receive buffer (`Genuine`) carries what its own number says. What the
receiver released is the part up to `o[d]`, `d` being the last number it took.
This survives whatever the network does (`AllGenuine` is about single cells), and
a write extends `o` (`Extend`); the receiver checks that numbers follow each
other, so the frames it takes are neighbours and their data is the next part of
the stream (`HandsUp`, `HandsDown`). `UpRel` and `DownRel` add what is special
to the directions: the data of the header frame (`o[0]`), and the MSS that the
first frame of `auth_chain_a` to the client carries (`Framed`, `Mss`).

`Undisturbed` needs more, as there nothing may be missing: `UpLine` and
`DownLine` say that, as long as the network altered nothing, the buffer followed
by the network is exactly the frames `d + 1 ... q`, two cells each, in order
(`Lined`), and that a decoder whose loop has ended was right to wait (`Idle`): it
has less than a frame, or one of the frames of four bytes that `auth_chain_a` may
send without data, for which the loop waits for more. `AtEnd` combines the two: an idle decoder and an empty network leave
nothing but a frame without data.

What the decoders do to a number of frames at once (`FlattenSeq` over
`FrameData`, `Chunks`, `PackAll`) is shown through the least counterexample:
if a statement about the first `n` frames failed for some `n`, it would fail for
a least one (`Least`, from `WFMin` and `NatLessThanWellFounded`), and what one
more frame adds contradicts that.

The proof of `TypeCorrect` also led to a correction of the model: two arms of
`Verdicts` and of `HeaderVerdicts` overlapped, which TLC resolves by taking the
first one, so that what the definition meant depended on their order. They are
now disjoint.

### Obfs plugins

Assumption: `ObfsAssumption` (the plugins are the three, the bounds are naturals).

Here the network only cuts the stream, and what a side sends is known in advance:
its handshake, then the units 1, 2, 3, ... in the plugin's encoding. The proof
calls this the flow of a direction (`UpFlow`, `DownFlow`), an endless sequence of
cells, and everything the network and the receive buffers hold is a `Slice` of it.
`UpSent` and `DownSent` say which slice is in the network, from the number of cells
that have come out of it to the number that were sent; `UpTaken` and `DownTaken`
say that the buffer holds the slice from there back to the last cell that was used,
and how many units those amount to. The one thing in a flow that is decided during
the connection is the number `k` of units that the greeting of `http_simple`
carries. A write adds a slice at one end, an arrival moves one from the network to
the buffer (`SliceCut`, `SliceJoin`), a decoder uses up a
slice and hands on the run of units in it (`Decodes`). From the units handed on
being `Run(0, m)` and those given `Run(0, n)`, `StreamsInOrder` follows.

For `NobodyWaits` it must be known in addition how much a decoder can leave in its
buffer: `Limit` is the length of the message it waits for, and less than that
stays. When nothing is in flight, everything sent is in the buffer or was used; the
handshakes have to be over (`FlagsOK` relates the flags of the two objects: a client
has heard only what a server has sent, and so on, so that neither can wait while the
other one does), and less than one record is no data, as the flow has whole records
wherever a side has stopped sending. That an end fails only where a message was cut
is also part of `FlagsOK`. The two cases the code does not handle are in the
invariant as exceptions: an HTTP reply whose empty line was cut (`DownUnheard`), and
a random head that was cut, of which the client releases the rest as data
(`DownTaken`).

### Model-checked only

The runs' invariants, and the action properties that are not about liveness, all
have a theorem. What is left:


* Liveness under fairness (`EveryoneAnswered`, `ClosedPortDrains`, `ClosingEnds`,
  `PendingIsBilled`): out of the proof system's reach.
* That the loop in `client_queue.insert` stops (`LoopEnds`, see above).

## 6. Fairness

* `DNSClients`: a query that is not lost is answered (`WF` of `Reply`).
  `EveryoneAnswered` is stated for behaviours without loss; with loss the
  resolver has no timeout of its own (the handler's does that, in `TCPRelay`).
* `TCPRelay`, `UDPRelay`: the loop finishes its rounds (`WF` of `Step`), as no
  handler blocks. `handle_periodic` runs between two rounds whenever 10 s have
  passed, so again and again as long as rounds end, and not in every gap: `SF`
  of `PeriodicClosed`. Sweeps and timeouts are not assumed to happen.
* `Transfer`: the database thread goes on (`WF` of its own steps). Updates and
  queries may fail, but not forever (`SF` of `PullDone`, `PushDone`, and of the
  updates that concern one user).

## 7. What is not modelled

The client side (`sslocal`), UDP over TCP (unfinished in the code), the bytes of
protocols, headers, DNS packets and ciphers, speed limits, statistics and online
users, option parsing and daemon control, the web pages and the packages of
third parties. Times are replaced by "may have passed". The UDP relay's table of
pending answers is a set: two datagrams of one client that wait at the same time
are one. The resolver's socket is not replaced after an error.

Of the obfs plugins: what is in the messages and how it is checked, clients of
`tls1.2_ticket_fastauth`, which send Finished with the hello, and what is passed
on after a server has taken a connection for another protocol. Of the JSON file:
a write is one step. A reader in the middle of one sees a file that does not
parse; for the server this is `PushRaises` or `PullFailed`, and the tool ends
without a change. A crash in the middle, which leaves such a file for good, and
two calls of the tool at once are left out. Of the server pool: which relays of
a port are missing after a partial start, as nothing else depends on it.

## 8. Plan

Done: client id tables of both families; handler; resolver; TCP relay with the
resolver; accounting, with the JSON file shared by server and tool; UDP relay;
framing of the protocol plugins over TCP, with the channel it implements and the
proof that it does; obfs plugins - all of these with proofs of their invariants.

Next, in this order:

1. **Proofs**: what a shared name does not break in the TCP relay (a descriptor
   is given back, a closed port loses the handlers it still knows); that
   `ObfsStream`, too, implements `Channel` where no message was cut.
2. **Abstract specifications**: of the resolver (a caller is called at most
   once, with a true answer) implemented by `DNSClients`; of accounting (a
   ledger) implemented by `Transfer` where it is sound.
3. **Composition** of `ObfsStream` below `AuthStream`, as the handler stacks
   them, and the manager's commands.
