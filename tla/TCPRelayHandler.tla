-------------------------- MODULE TCPRelayHandler --------------------------
(***************************************************************************)
(* tcprelay.py, class TCPRelayHandler, as ssserver runs it: one client     *)
(* connection (local), the connection to the destination (remote) and the  *)
(* two streams between them, driven by the batches of events that          *)
(* EventLoop.poll returns.                                                 *)
(*                                                                         *)
(* The handler is one record h, as self is in the code:                    *)
(*   stage             INIT, DNS, CONNECTING, STREAM, DESTROYED            *)
(*   up, down          _upstream_status, _downstream_status: the subset of *)
(*                     {"R", "W"} the stream waits for                     *)
(*   modeL, modeR      the events the loop polls local and remote for      *)
(*   remote            _remote_sock is not None                            *)
(*   toRemote, toLocal _data_to_write_to_remote / _local, joined           *)
(*   sendsBack         do the plugins of the port answer the client?       *)
(*   end               why the handler was destroyed                       *)
(*                                                                         *)
(* Data is units 1, 2, 3, ... numbered in each direction as the handler    *)
(* obtains them: upstream when the obfs and protocol plugins have decoded  *)
(* them, downstream when the plugins have encoded them (a plugin's answer  *)
(* to the client is downstream data too).                                  *)
(*   upOut, downOut    how many there have been                            *)
(*   sentUp, sentDown  what the sockets took, in the order they took it    *)
(*                                                                         *)
(* batch is what is left of the events of one poll.  handle_event looks at *)
(* ERR first, then IN, then OUT, and ignores the others, so an entry keeps *)
(* only the event that is acted on.                                        *)
(***************************************************************************)
EXTENDS Naturals, Sequences, SequencesExt

CONSTANTS MaxUp, MaxDown,   \* bounds on the units of each direction
          Chunk,            \* most units one recv, or one answer, yields
          Plugins           \* which plugins: TRUE stands for those that answer
                            \* the client themselves (tls, auth), FALSE for
                            \* the others

ASSUME HandlerAssumption ==
  /\ MaxUp \in Nat /\ MaxDown \in Nat /\ Chunk \in Nat \ {0}
  /\ Plugins \subseteq BOOLEAN

VARIABLES h, batch

vars == <<h, batch>>

Units(n, k) == [i \in 1..k |-> n + i]

Alive == h.stage # "DESTROYED"

Init ==
  /\ \E p \in Plugins :
       h = [stage |-> "INIT", up |-> {"R"}, down |-> {},
            modeL |-> {"IN", "ERR"}, modeR |-> {}, remote |-> FALSE,
            toRemote |-> <<>>, toLocal |-> <<>>, upOut |-> 0, downOut |-> 0,
            sentUp |-> <<>>, sentDown |-> <<>>, sendsBack |-> p,
            end |-> "none"]
  /\ batch = <<>>

-----------------------------------------------------------------------------
\* Mutant: the remote socket is not closed.
DestroyedLeaking(g, why) ==
  [g EXCEPT !.stage = "DESTROYED", !.end = why, !.modeL = {}, !.modeR = {}]

\* destroy: both sockets leave the loop and are closed.
Destroyed(g, why) ==
  [g EXCEPT !.stage = "DESTROYED", !.end = why,
            !.modeL = {}, !.modeR = {}, !.remote = FALSE]

\* _update_stream: what the loop polls for follows the two statuses.
Polled(g) ==
  [g EXCEPT
     !.modeL = {"ERR"} \cup (IF "W" \in g.down THEN {"OUT"} ELSE {})
                       \cup (IF "R" \in g.up THEN {"IN"} ELSE {}),
     !.modeR = IF g.remote
               THEN {"ERR"} \cup (IF "R" \in g.down THEN {"IN"} ELSE {})
                            \cup (IF "W" \in g.up THEN {"OUT"} ELSE {})
               ELSE {}]

\* Mutant: the change of the upstream status is not passed on to the loop.
UpdateUpSilently(g, status) == [g EXCEPT !.up = status]

UpdateUp(g, status) ==
  IF g.up = status THEN g ELSE Polled([g EXCEPT !.up = status])

UpdateDown(g, status) ==
  IF g.down = status THEN g ELSE Polled([g EXCEPT !.down = status])

\* Mutants: the rest of a partial write is dropped; it is not waited for.
WroteLocalDropping(g, d, k) ==
  UpdateDown([g EXCEPT !.sentDown = @ \o SubSeq(d, 1, k)],
             IF k < Len(d) THEN {"W"} ELSE {"R"})
WroteLocalReading(g, d, k) ==
  UpdateDown([g EXCEPT !.sentDown = @ \o SubSeq(d, 1, k),
                       !.toLocal = @ \o SubSeq(d, k + 1, Len(d))], {"R"})

\* _write_to_sock when the socket takes k of the units d (0 for EAGAIN): the
\* rest is appended to the buffer and the stream waits for writing, else for
\* reading.
WroteLocal(g, d, k) ==
  UpdateDown([g EXCEPT !.sentDown = @ \o SubSeq(d, 1, k),
                       !.toLocal = @ \o SubSeq(d, k + 1, Len(d))],
             IF k < Len(d) THEN {"W"} ELSE {"R"})

WroteRemote(g, d, k) ==
  UpdateUp([g EXCEPT !.sentUp = @ \o SubSeq(d, 1, k),
                     !.toRemote = @ \o SubSeq(d, k + 1, Len(d))],
           IF k < Len(d) THEN {"W"} ELSE {"R"})

\* The handlers _write_to_sock may leave; no data, no change.  Any other error
\* of the socket destroys the handler.
WriteLocal(g, d) ==
  IF d = <<>> THEN {g}
  ELSE {WroteLocal(g, d, k) : k \in 0..Len(d)} \cup {Destroyed(g, "error")}

WriteRemote(g, d) ==
  IF d = <<>> THEN {g}
  ELSE {WroteRemote(g, d, k) : k \in 0..Len(d)} \cup {Destroyed(g, "error")}

-----------------------------------------------------------------------------
\* Mutant: downstream is not told to wait for reading.
ConnectingUpOnly(g) ==
  UpdateUp([g EXCEPT !.stage = "CONNECTING", !.remote = TRUE,
                     !.modeR = {"ERR", "OUT"}], {"R", "W"})

\* _handle_dns_resolved with an address: the remote socket is created and
\* starts to connect.  It waits for writing (the connection) while reading
\* from the client goes on.
Connecting(g) ==
  UpdateDown(UpdateUp([g EXCEPT !.stage = "CONNECTING", !.remote = TRUE,
                                !.modeR = {"ERR", "OUT"}], {"R", "W"}),
             {"R"})

\* _handle_dns_resolved: an answer that leads to a connection; or an error, no
\* address, a forbidden one, or a connect that fails.
Resolved(g) == {Connecting(g), Destroyed(g, "error")}

\* _handle_stage_addr: the request has arrived, with d after its header.
\* Reading pauses until the name is resolved, which may be at once.  A header
\* that cannot be parsed is redirected like any other, or the handler ends.
StageAddr(g, d) ==
  LET w == [UpdateUp(g, {"W"}) EXCEPT !.stage = "DNS", !.toRemote = @ \o d]
  IN {w} \cup Resolved(w)

\* What _on_local_read does with the decoded units d in each stage.
Dispatch(g, d) ==
  CASE g.stage = "STREAM"     -> WriteRemote(g, d)
    [] g.stage = "CONNECTING" -> {[g EXCEPT !.toRemote = @ \o d]}
    [] g.stage = "INIT"       -> StageAddr(g, d)
    [] OTHER                  -> {g}

\* The answer of b units a plugin sends to the client in between.
Answer(g, b) ==
  LET w == [g EXCEPT !.downOut = @ + b]
  IN WriteLocal(w, Units(g.downOut, b))

\* _on_local_read: recv yields data, of which the plugins release n units
\* (possibly none yet) and to which they answer with b units.
LocalRead(n, b) ==
  /\ h.upOut + n <= MaxUp /\ h.downOut + b <= MaxDown
  /\ b > 0 => h.sendsBack
  /\ \E g \in Answer(h, b) :
       IF g.stage = "DESTROYED"
       THEN h' = g
       ELSE \E header \in BOOLEAN :
              IF n = 0 /\ ~(header /\ g.stage = "INIT")
              THEN h' = g
              ELSE h' \in Dispatch([g EXCEPT !.upOut = @ + n],
                                   Units(g.upOut, n))

\* _on_local_read: the client has closed, or a plugin rejects what it sent.
LocalEnds == h' \in {Destroyed(h, "localEof"), Destroyed(h, "error")}

\* _on_remote_read: n units for the client.
RemoteRead(n) ==
  /\ n > 0 /\ h.downOut + n <= MaxDown
  /\ h' \in WriteLocal([h EXCEPT !.downOut = @ + n], Units(h.downOut, n))

\* _on_remote_read: the destination has closed.
RemoteEof == h' = Destroyed(h, "remoteEof")

\* recv says EAGAIN (or the speed limit is exceeded): the event is ignored.
ReadIgnored == UNCHANGED h

\* _on_local_write
LocalWrite ==
  IF h.toLocal # <<>>
  THEN h' \in WriteLocal([h EXCEPT !.toLocal = <<>>], h.toLocal)
  ELSE h' = UpdateDown(h, {"R"})

\* _on_remote_write: the connection is established.
RemoteWrite ==
  LET g == [h EXCEPT !.stage = "STREAM"]
  IN IF g.toRemote # <<>>
     THEN h' \in WriteRemote([g EXCEPT !.toRemote = <<>>], g.toRemote)
     ELSE h' = UpdateUp(g, {"R"})

-----------------------------------------------------------------------------
OncePerSocket(b) == \A i, j \in 1..Len(b) : b[i][1] = b[j][1] => i = j

\* EventLoop.poll: for each socket at most one event it is polled for; errors
\* are reported whether asked for or not.
Poll ==
  /\ Alive /\ batch = <<>>
  /\ \E n \in {1, 2} :
       LET ready == ({"local"} \X h.modeL) \cup ({"remote"} \X h.modeR)
       IN batch' \in {b \in [1..n -> ready] : OncePerSocket(b)}
  /\ UNCHANGED h

\* handle_event for the next event of the batch.
Handle(sock, event) ==
  /\ Alive
  /\ batch # <<>> /\ Head(batch) = <<sock, event>>
  /\ batch' = Tail(batch)

OnLocalRead ==
  /\ Handle("local", "IN")
  /\ \/ \E n, b \in 0..Chunk : LocalRead(n, b)
     \/ LocalEnds
     \/ ReadIgnored

OnRemoteRead ==
  /\ Handle("remote", "IN")
  /\ \/ \E n \in 1..Chunk : RemoteRead(n)
     \/ RemoteEof
     \/ ReadIgnored

OnLocalWrite == Handle("local", "OUT") /\ LocalWrite

OnRemoteWrite == Handle("remote", "OUT") /\ RemoteWrite

OnError ==
  /\ Handle("local", "ERR") \/ Handle("remote", "ERR")
  /\ h' = Destroyed(h, "error")

\* handle_event: the user of the connection has been removed from the port.
\* (The user is known once the protocol plugin has authenticated the client.)
OnUserGone ==
  /\ \E e \in {"IN", "OUT"}, s \in {"local", "remote"} : Handle(s, e)
  /\ h' = Destroyed(h, "userGone")

\* The resolver's event, somewhere among the others of the loop.
OnDnsResolved ==
  /\ h.stage = "DNS"
  /\ h' \in Resolved(h)
  /\ UNCHANGED batch

\* TCPRelay._close_tcp_client, or the port closing: between two batches.
OnTimeout ==
  /\ Alive /\ batch = <<>>
  /\ h' = Destroyed(h, "timeout")
  /\ UNCHANGED batch

Next ==
  \/ Poll \/ OnLocalRead \/ OnRemoteRead \/ OnLocalWrite \/ OnRemoteWrite
  \/ OnError \/ OnUserGone \/ OnDnsResolved \/ OnTimeout

Spec == Init /\ [][Next]_vars

-----------------------------------------------------------------------------
HandlerType ==
  [stage : {"INIT", "DNS", "CONNECTING", "STREAM", "DESTROYED"},
   up : SUBSET {"R", "W"}, down : SUBSET {"R", "W"},
   modeL : SUBSET {"IN", "OUT", "ERR"}, modeR : SUBSET {"IN", "OUT", "ERR"},
   remote : BOOLEAN, toRemote : Seq(1..MaxUp), toLocal : Seq(1..MaxDown),
   upOut : 0..MaxUp, downOut : 0..MaxDown,
   sentUp : Seq(1..MaxUp), sentDown : Seq(1..MaxDown), sendsBack : BOOLEAN,
   end : {"none", "error", "localEof", "remoteEof", "userGone", "timeout"}]

TypeOK ==
  /\ h \in HandlerType
  /\ h.remote <=> h.stage \in {"CONNECTING", "STREAM"}
  /\ batch \in Seq({"local", "remote"} \X {"IN", "OUT", "ERR"})

\* s holds each of 1..n exactly once.
HoldsEach(s, n) == Len(s) = n /\ ToSet(s) = 1..n

\* No unit is lost, duplicated or invented while the handler lives: each one
\* is either with a socket or in a buffer, in every stage (_write_to_sock,
\* _handle_stage_addr, _handle_stage_connecting, _on_remote_write).
EveryUnitOnce ==
  Alive => /\ HoldsEach(h.sentUp \o h.toRemote, h.upOut)
           /\ HoldsEach(h.sentDown \o h.toLocal, h.downOut)

\* What the loop polls for is what the statuses say, although _update_stream
\* only tells the loop when a status changes and the remote socket joins the
\* loop late, with events of its own.
PollsForStatus ==
  Alive => /\ h.modeL = Polled(h).modeL
           /\ h.modeR = Polled(h).modeR

\* Each stream always waits for something, so that an open connection cannot
\* go deaf: upstream from the start, downstream once there is a remote socket
\* (_handle_dns_resolved sets both statuses, _write_to_sock never clears one).
NeverDeaf ==
  Alive => /\ h.up # {}
           /\ h.remote => h.down # {}

\* Without plugins that answer the client, the client receives the
\* destination's data in order, and what is buffered is being waited for.
DownstreamInOrder ==
  ~h.sendsBack /\ Alive =>
    /\ h.sentDown \o h.toLocal = Units(0, h.downOut)
    /\ h.toLocal # <<>> => "OUT" \in h.modeL /\ "IN" \notin h.modeR

\* Then a destination that closes loses none of its data: everything read from
\* it has been passed on before the end is seen (reading pauses while
\* something is buffered).
EofAfterEverythingSent ==
  ~h.sendsBack /\ h.end = "remoteEof" => h.sentDown = Units(0, h.downOut)

\* "if only some of the data are written, put remaining in the buffer and
\* update the stream to wait for writing" (the docstring of _write_to_sock):
\* as long as something is in a buffer of a connected handler, the stream
\* waits for writing.
BufferedIsWaitedFor ==
  Alive => /\ h.toLocal # <<>> => "W" \in h.down
           /\ h.stage = "STREAM" /\ h.toRemote # <<>> => "W" \in h.up
=============================================================================
