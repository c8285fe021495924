----------------------------- MODULE AuthStream -----------------------------
(***************************************************************************)
(* obfsplugin/auth.py and auth_chain.py: how auth_sha1_v4 ("sha1"),        *)
(* auth_aes128_sha1 and _md5 ("aes") and auth_chain_a ("chain") turn the   *)
(* two streams of one connection into frames and back, whatever pieces the *)
(* network delivers, and what they do when a frame is not the one they     *)
(* expect.                                                                 *)
(*                                                                         *)
(* Data is a sequence of numbered units.  What travels is a sequence of    *)
(* cells, the parts of a frame that the receiver checks one by one:        *)
(*                                                                         *)
(*   a frame      "len" (length, in sha1 and aes with its own checksum),   *)
(*                "rest" (padding, data, checksum)                         *)
(*   the header   "check", "auth" and "body" in aes, where the body        *)
(*                carries data; sha1 has no "auth", chain no "body"        *)
(*                                                                         *)
(* The number of a frame is part of the key of its checksum in aes and     *)
(* chain (a natural here, 32 bits in the code).  tiny: the four bytes of   *)
(* an empty chain frame without padding.  ok: the bytes are those that     *)
(* were sent.                                                              *)
(*                                                                         *)
(* The table that data.insert and data.update work on is AuthData's; here  *)
(* insert may refuse, and update, which only keeps a client's queue alive, *)
(* is left out.                                                            *)
(***************************************************************************)
EXTENDS Naturals, Sequences, SequencesExt

CONSTANTS
  Kinds,      \* the plugins, a subset of {"sha1", "aes", "chain"}
  MaxUp,      \* units the client sends
  MaxDown,    \* units the server sends
  MaxWrite,   \* units handed over at once
  MaxRaw      \* cells that reach the client from a server in raw transfer

ASSUME StreamAssumption ==
  /\ Kinds \subseteq {"sha1", "aes", "chain"}
  /\ MaxUp \in Nat /\ MaxDown \in Nat /\ MaxWrite \in Nat
  /\ MaxRaw \in Nat

VARIABLES
  kind,       \* the plugin of this connection
  cli, srv,   \* the two plugin objects
  up, down,   \* cells in flight
  givenUp, gotUp, givenDown, gotDown,  \* units handed over, handed out
  inserts,    \* history: how often data.insert was asked
  faulty      \* history: the network has altered something

vars == <<kind, cli, srv, up, down, givenUp, gotUp, givenDown, gotDown,
          inserts, faulty>>

MSS == 0      \* what auth_chain's server puts in front of its first data

\* hasHeader is has_sent_header of the client, has_recv_header of the server;
\* raw is raw_trans without an exception; dead: an exception was raised and
\* the relay destroyed the handler; released: decrypt_packet_num > 0.
NewSide == [pack_id |-> 1, recv_id |-> 1, recv_buf |-> <<>>,
            hasHeader |-> FALSE, raw |-> FALSE, dead |-> FALSE,
            released |-> FALSE]

Init ==
  /\ kind \in Kinds
  /\ cli = NewSide /\ srv = NewSide
  /\ up = <<>> /\ down = <<>>
  /\ givenUp = <<>> /\ gotUp = <<>>
  /\ givenDown = <<>> /\ gotDown = <<>>
  /\ inserts = 0 /\ faulty = FALSE

-----------------------------------------------------------------------------
(* Packing.                                                                *)

Cell(id, part, data, tiny) ==
  [id |-> id, part |-> part, data |-> data, tiny |-> tiny, ok |-> TRUE]

\* pack_data: the frames numbered from id on, one for each chunk.
PackAll(id, chunks, tiny) ==
  [c \in 1..(2 * Len(chunks)) |->
     LET j == (c + 1) \div 2
         t == tiny /\ chunks[j] = <<>>
     IN IF c % 2 = 1 THEN Cell(id + j - 1, "len", <<>>, t)
                     ELSE Cell(id + j - 1, "rest", chunks[j], t)]

\* The loop over unit_len: full chunks while there is more than one, then
\* what is left, which is packed even if it is empty.
Chunks(buf) ==
  IF buf = <<>> THEN << <<>> >> ELSE [j \in 1..Len(buf) |-> <<buf[j]>>]

\* pack_auth_data
HeaderParts ==
  CASE kind = "sha1"  -> <<"check", "body">>
    [] kind = "aes"   -> <<"check", "auth", "body">>
    [] kind = "chain" -> <<"check", "auth">>

Header(data) ==
  [i \in 1..Len(HeaderParts) |->
     Cell(0, HeaderParts[i],
          IF HeaderParts[i] = "body" THEN data ELSE <<>>, FALSE)]

\* auth_chain's header carries no data, its first frame does.
FirstChunks(data, rest) ==
  IF kind = "chain" THEN <<data>> \o Chunks(rest) ELSE Chunks(rest)

\* Only auth_chain has frames of four bytes.
Tinies == {FALSE} \cup {kind = "chain"}

\* client_pre_encrypt of the next n units.  A random number of them, the
\* address at least, goes with the header; the rest follows, and if nothing
\* is left an empty frame does.
ClientSend(n) ==
  /\ ~cli.dead
  /\ Len(givenUp) + n <= MaxUp
  /\ \E tiny \in Tinies, k \in 1..n :
       LET buf    == [i \in 1..n |-> Len(givenUp) + i]
           chunks == IF cli.hasHeader THEN Chunks(buf)
                     ELSE FirstChunks(SubSeq(buf, 1, k), SubSeq(buf, k + 1, n))
       IN /\ (cli.hasHeader => k = n)
          /\ up' = up \o (IF cli.hasHeader THEN <<>>
                          ELSE Header(SubSeq(buf, 1, k)))
                      \o PackAll(cli.pack_id, chunks, tiny)
          /\ cli' = [cli EXCEPT !.pack_id = @ + Len(chunks),
                                !.hasHeader = TRUE]
          /\ givenUp' = givenUp \o buf
  /\ UNCHANGED <<kind, srv, down, gotUp, givenDown, gotDown, inserts, faulty>>

\* Mutants: the MSS is put in front of every answer; an empty answer does not
\* count as a frame.
ServerChunksAlways(s, buf) ==
  IF kind = "chain"
  THEN LET rest == Chunks(buf) IN <<<<MSS>> \o rest[1]>> \o Tail(rest)
  ELSE Chunks(buf)

\* server_pre_encrypt(buf) by the plugin object s: the chunks it packs, and
\* what becomes of it.
ServerChunks(s, buf) ==
  IF kind = "chain" /\ s.pack_id = 1
  THEN LET rest == Chunks(buf) IN <<<<MSS>> \o rest[1]>> \o Tail(rest)
  ELSE Chunks(buf)

PackedData(s, buf) ==
  IF buf = <<>> THEN s
  ELSE [s EXCEPT !.pack_id = @ + Len(ServerChunks(s, buf))]

Packed(s, buf) ==
  [s EXCEPT !.pack_id = @ + Len(ServerChunks(s, buf))]

Unprotected == [Cell(0, "raw", <<>>, FALSE) EXCEPT !.ok = FALSE]

\* The destination answers: only after something was released to it.
ServerSend(n) ==
  /\ ~srv.dead /\ ~srv.raw
  /\ gotUp # <<>>
  /\ Len(givenDown) + n <= MaxDown
  /\ LET buf == [i \in 1..n |-> Len(givenDown) + i]
     IN /\ down' = down \o PackAll(srv.pack_id, ServerChunks(srv, buf), FALSE)
        /\ srv' = Packed(srv, buf)
        /\ givenDown' = givenDown \o buf
  /\ UNCHANGED <<kind, cli, up, givenUp, gotUp, gotDown, inserts, faulty>>

\* raw_trans: server_pre_encrypt returns what it is given.  What arrives is
\* no part of the stream.
ServerSendRaw ==
  /\ srv.raw
  /\ ~cli.dead
  /\ Len(down) + Len(cli.recv_buf) < MaxRaw
  /\ down' = Append(down, Unprotected)
  /\ UNCHANGED <<kind, cli, srv, up, givenUp, gotUp, givenDown, gotDown,
                 inserts, faulty>>

-----------------------------------------------------------------------------
(* Unpacking: the loop of client_post_decrypt and server_post_decrypt.     *)

\* Mutant: the number of the frame is not part of the key.
FitsAnywhere(cell, part, id) == cell.part = part /\ cell.ok

Fits(cell, part, id) == cell.part = part /\ cell.ok /\ cell.id = id

\* The loop needs more than four bytes.
Short(b) == Len(b) = 2 /\ b[1].tiny /\ b[2].tiny

\* The i-th frame in b is complete and, with recv_id = id before the first
\* one, the one expected.
GoodFrame(b, id, i) ==
  /\ Fits(b[2 * i - 1], "len", id + i - 1)
  /\ Fits(b[2 * i], "rest", id + i - 1)
  /\ ~Short(SubSeq(b, 2 * i - 1, Len(b)))

\* How many frames the loop takes before it stops.
NumGood(b, id) ==
  CHOOSE k \in 0..(Len(b) \div 2) :
    /\ \A i \in 1..k : GoodFrame(b, id, i)
    /\ k < Len(b) \div 2 => ~GoodFrame(b, id, k + 1)

FrameData(b, k) == [i \in 1..k |-> b[2 * i].data]

\* How the loop may end on what is left, b: it waits for more, or it finds an
\* error.  sha1 and aes check the length by itself as soon as they see more
\* than four bytes; in auth_chain a wrong length is just another length, of
\* which there may be enough bytes or not.
Verdicts(b, id) ==
  IF b = <<>> \/ Short(b) THEN {"wait"}
  ELSE IF Fits(b[1], "len", id)
       THEN IF Len(b) = 1 THEN {"wait"} ELSE {"error"}
       ELSE IF kind = "chain" \/ Len(b) = 1 THEN {"wait", "error"} ELSE {"error"}

\* Mutant: looks for the MSS in every call.
WithoutMSSAlways(k, units) ==
  IF kind = "chain" /\ units # <<>> THEN Tail(units) ELSE units

\* The client of auth_chain takes the MSS off the first frame it gets.
WithoutMSS(k, units) ==
  IF kind = "chain" /\ cli.recv_id = 1 /\ k > 0 THEN Tail(units) ELSE units

\* client_post_decrypt on n more cells.
ClientReceive(n) ==
  LET b     == cli.recv_buf \o SubSeq(down, 1, n)
      k     == NumGood(b, cli.recv_id)
      left  == SubSeq(b, 2 * k + 1, Len(b))
      units == FlattenSeq(FrameData(b, k))
  IN /\ ~cli.dead
     /\ down' = SubSeq(down, n + 1, Len(down))
     /\ \/ /\ "wait" \in Verdicts(left, cli.recv_id + k)
           /\ cli' = [cli EXCEPT !.recv_buf = left, !.recv_id = @ + k]
           /\ gotDown' = gotDown \o WithoutMSS(k, units)
        \/ /\ "error" \in Verdicts(left, cli.recv_id + k)
           /\ cli' = [cli EXCEPT !.dead = TRUE]
           /\ UNCHANGED gotDown
     /\ UNCHANGED <<kind, srv, up, givenUp, gotUp, givenDown, inserts, faulty>>

\* The header part of server_post_decrypt.  A wrong "auth" in aes is noticed
\* only after extra_wait_size more bytes.
HeaderVerdicts(b) ==
  LET len == Len(HeaderParts)
      bad == {i \in 1..Len(b) : i <= len /\ ~Fits(b[i], HeaderParts[i], 0)}
  IN CASE bad = {} /\ Len(b) < len       -> {"wait"}
       [] bad = {} /\ Len(b) >= len      -> {"complete"}
       [] 1 \notin bad /\ 2 \in bad /\ kind = "aes" -> {"wait", "nomatch"}
       [] OTHER                          -> {"nomatch"}

\* Mutant: raw_trans is not set.
StayInProtocol(b) ==
  /\ srv' = [srv EXCEPT !.recv_buf = b]
  /\ UNCHANGED <<gotUp, down>>

\* not_match_return, or the "E" * 2048 that auth_sha1_v4 returns when the first
\* frame is wrong: from here on everything passes unchanged.
LeaveProtocol(b) ==
  /\ srv' = [srv EXCEPT !.raw = TRUE, !.recv_buf = b]
  /\ UNCHANGED <<gotUp, down>>

\* The loop of server_post_decrypt over b, once the header is accepted; head is
\* what the header brought, sendback whether it asks for an answer.  The relay
\* then packs an empty answer (tcprelay.py, _on_local_read).
ServerFrames(b, head, sendback) ==
  LET k      == NumGood(b, srv.recv_id)
      left   == SubSeq(b, 2 * k + 1, Len(b))
      units  == head \o FlattenSeq(FrameData(b, k))
      answer == sendback \/ \E i \in 1..k : b[2 * i].data = <<>>
      after  == [srv EXCEPT !.recv_buf = left, !.recv_id = @ + k,
                            !.hasHeader = TRUE,
                            !.released = @ \/ units # <<>>]
  IN \/ /\ "wait" \in Verdicts(left, srv.recv_id + k)
        /\ gotUp' = gotUp \o units
        /\ IF answer
           THEN \E tiny \in Tinies :
                  /\ srv' = Packed(after, <<>>)
                  /\ down' = down \o PackAll(srv.pack_id,
                                             ServerChunks(srv, <<>>), tiny)
           ELSE srv' = after /\ UNCHANGED down
     \/ /\ "error" \in Verdicts(left, srv.recv_id + k)
        /\ IF kind = "sha1" /\ ~srv.released
           THEN LeaveProtocol(left)
           ELSE /\ srv' = [srv EXCEPT !.dead = TRUE]
                /\ UNCHANGED <<gotUp, down>>

\* The header is complete: the time stamp must be right and data.insert must
\* take the ids, as it does at most once for one connection.
ServerHeader(b) ==
  LET len == Len(HeaderParts)
  IN \/ /\ inserts' \in {inserts, inserts + 1}
        /\ LeaveProtocol(b)
     \/ /\ inserts = 0
        /\ inserts' = 1
        /\ ServerFrames(SubSeq(b, len + 1, Len(b)), b[len].data, TRUE)

\* server_post_decrypt on n more cells.
ServerReceive(n) ==
  LET b == srv.recv_buf \o SubSeq(up, 1, n)
  IN /\ ~srv.dead
     /\ up' = SubSeq(up, n + 1, Len(up))
     /\ \/ /\ srv.raw
           /\ UNCHANGED <<srv, gotUp, down, inserts>>
        \/ /\ ~srv.raw /\ srv.hasHeader
           /\ ServerFrames(b, <<>>, FALSE)
           /\ UNCHANGED inserts
        \/ /\ ~srv.raw /\ ~srv.hasHeader
           /\ "wait" \in HeaderVerdicts(b)
           /\ srv' = [srv EXCEPT !.recv_buf = b]
           /\ UNCHANGED <<gotUp, down, inserts>>
        \/ /\ ~srv.raw /\ ~srv.hasHeader
           /\ "nomatch" \in HeaderVerdicts(b)
           /\ LeaveProtocol(b)
           /\ UNCHANGED inserts
        \/ /\ ~srv.raw /\ ~srv.hasHeader
           /\ "complete" \in HeaderVerdicts(b)
           /\ ServerHeader(b)
     /\ UNCHANGED <<kind, cli, givenUp, givenDown, gotDown, faulty>>

-----------------------------------------------------------------------------
(* The network: one alteration in the life of a connection.                *)

\* Bytes are changed, or, in aes and chain, a whole frame is left out or comes
\* twice.  (auth_sha1_v4 does not number its frames; there the cipher below,
\* whose key stream gets out of step, turns a missing frame into changed
\* bytes.)
FrameAt(w, i) == i < Len(w) /\ w[i].part = "len"

Altered(w) ==
  {[w EXCEPT ![i].ok = FALSE] : i \in 1..Len(w)}
  \cup IF kind = "sha1" THEN {} ELSE
       UNION {{SubSeq(w, 1, i - 1) \o SubSeq(w, i + 2, Len(w)),
               SubSeq(w, 1, i + 1) \o SubSeq(w, i, Len(w))} :
                 i \in {j \in 1..Len(w) : FrameAt(w, j)}}

AlterUp ==
  /\ ~faulty /\ faulty' = TRUE
  /\ up' \in Altered(up)
  /\ UNCHANGED <<kind, cli, srv, down, givenUp, gotUp, givenDown, gotDown,
                 inserts>>

AlterDown ==
  /\ ~faulty /\ faulty' = TRUE
  /\ down' \in Altered(down)
  /\ UNCHANGED <<kind, cli, srv, up, givenUp, gotUp, givenDown, gotDown,
                 inserts>>

Next ==
  \/ \E n \in 1..MaxWrite : ClientSend(n) \/ ServerSend(n)
  \/ ServerSendRaw
  \/ \E n \in 1..Len(up) : ServerReceive(n)
  \/ \E n \in 1..Len(down) : ClientReceive(n)
  \/ AlterUp \/ AlterDown

Spec == Init /\ [][Next]_vars

-----------------------------------------------------------------------------
Cells ==
  [id : Nat, part : {"check", "auth", "body", "len", "rest", "raw"},
   data : Seq(Nat), tiny : BOOLEAN, ok : BOOLEAN]

Sides ==
  [pack_id : Nat \ {0}, recv_id : Nat \ {0}, recv_buf : Seq(Cells),
   hasHeader : BOOLEAN, raw : BOOLEAN, dead : BOOLEAN, released : BOOLEAN]

TypeOK ==
  /\ kind \in Kinds
  /\ cli \in Sides /\ srv \in Sides
  /\ up \in Seq(Cells) /\ down \in Seq(Cells)
  /\ givenUp \in Seq(1..MaxUp) /\ gotUp \in Seq(1..MaxUp)
  /\ givenDown \in Seq(1..MaxDown) /\ gotDown \in Seq(1..MaxDown)
  /\ inserts \in Nat /\ faulty \in BOOLEAN

UpChannel == INSTANCE Channel WITH
  given <- givenUp, got <- gotUp,
  mode <- IF srv.dead THEN "failed" ELSE IF srv.raw THEN "left" ELSE "open"

DownChannel == INSTANCE Channel WITH
  given <- givenDown, got <- gotDown,
  mode <- IF cli.dead THEN "failed" ELSE "open"

\* What server_post_decrypt hands to the relay is, in every state, a prefix of
\* what the client was given, however the frames are cut, changed, lost or
\* repeated; after an error nothing follows; and the protocol is left (raw_trans
\* without an exception) only by a connection that has released nothing.
UpStream == UpChannel!Spec

\* The same for client_post_decrypt, which never leaves the protocol.  The MSS
\* that auth_chain's server sends first is not part of the stream.
DownStream == DownChannel!Spec

\* Without a fault nobody finds one: no exception is raised (by the client, as
\* long as the server talks to it in the protocol), and once all cells have
\* arrived all data has been released, although the last frame may be one that
\* the receiver does not look at yet.
Undisturbed ==
  ~faulty =>
    /\ ~srv.dead
    /\ ~srv.raw => ~cli.dead
    /\ up = <<>> /\ ~srv.raw => gotUp = givenUp
    /\ down = <<>> /\ ~srv.raw => gotDown = givenDown

\* A connection asks for its ids to be inserted once at most: data.insert takes
\* an id once, so a second question, after a header that arrived in pieces or
\* was refused, would turn an honest client away.
InsertedOnce == inserts <= 1
=============================================================================
