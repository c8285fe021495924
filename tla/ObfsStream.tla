----------------------------- MODULE ObfsStream -----------------------------
(***************************************************************************)
(* obfsplugin/obfs_tls.py and http_simple.py: the plugins below the cipher *)
(* that make a connection look like another protocol.  "tls" is            *)
(* tls_ticket_auth, "http" is http_simple and http_post, "random" is       *)
(* random_head.  Each has a handshake, and each looks in its own way at    *)
(* the pieces in which the messages of the handshake arrive.               *)
(*                                                                         *)
(* Data is a sequence of numbered units (ciphertext).  What travels is a   *)
(* sequence of cells, cut into pieces by the network at any cell:          *)
(*                                                                         *)
(*   greeting   the client hello, the GET or POST header (which carries    *)
(*              data), the random head of the client                       *)
(*   reply      the server hello, the 200 header (of which "cr" and "lf"   *)
(*              are the halves of the empty line), the random head of the  *)
(*              server                                                     *)
(*   finish     tls only: ChangeCipherSpec, which is less than eleven      *)
(*              bytes, and Finished                                        *)
(*   data       "head" and "body" of a tls record, or just "raw"           *)
(***************************************************************************)
EXTENDS Naturals, Sequences, SequencesExt

CONSTANTS
  Kinds,             \* the plugins, a subset of {"tls", "http", "random"}
  MaxUp, MaxDown,    \* units that are sent each way
  MaxWrite           \* units handed over at once

ASSUME ObfsAssumption ==
  /\ Kinds \subseteq {"tls", "http", "random"}
  /\ MaxUp \in Nat /\ MaxDown \in Nat /\ MaxWrite \in Nat

VARIABLES
  kind,              \* the plugin of this connection
  cli, srv,          \* the two plugin objects
  up, down,          \* cells in flight
  givenUp, gotUp, givenDown, gotDown,  \* units handed over, handed out
  cut                \* history: a message that must come whole did not

vars == <<kind, cli, srv, up, down, givenUp, gotUp, givenDown, gotDown, cut>>

\* sent: the greeting, or the reply, is out (handshake_status 1 of the client
\* and 8 of the server, has_sent_header).  heard: the other side's message is
\* in (8 of the client and 1 of the server, has_recv_header, raw_trans_recv).
\* open: data passes (8 of the client and 4 of the server, raw_trans_sent).
\* left: decode_error_return, not_match_return or error_return; dead: an
\* exception, at which the relay destroys the handler.
NewSide == [sent |-> FALSE, heard |-> FALSE, open |-> FALSE, left |-> FALSE,
            dead |-> FALSE, send_buffer |-> <<>>, recv_buffer |-> <<>>]

Init ==
  /\ kind \in Kinds
  /\ cli = NewSide /\ srv = NewSide
  /\ up = <<>> /\ down = <<>>
  /\ givenUp = <<>> /\ gotUp = <<>>
  /\ givenDown = <<>> /\ gotDown = <<>>
  /\ cut = FALSE

-----------------------------------------------------------------------------
(* Messages.                                                               *)

Cell(part, data) == [part |-> part, data |-> data]
Message(parts) == [i \in 1..Len(parts) |-> Cell(parts[i], <<>>)]

Greeting(data) ==
  CASE kind = "tls"    -> Message(<<"hello1", "hello2">>)
    [] kind = "http"   -> <<Cell("get1", <<>>), Cell("get2", data)>>
    [] kind = "random" -> Message(<<"random1", "random2">>)

Reply ==
  CASE kind = "tls"    -> Message(<<"server1", "server2">>)
    [] kind = "http"   -> Message(<<"status", "cr", "lf">>)
    [] kind = "random" -> Message(<<"random1", "random2">>)

Finish == Message(<<"ccs", "fin1", "fin2">>)

\* tls packs data into records, the others leave it as it is.
Encode(units) ==
  IF kind = "tls"
  THEN [c \in 1..(2 * Len(units)) |->
          IF c % 2 = 1 THEN Cell("head", <<>>)
                       ELSE Cell("body", <<units[c \div 2]>>)]
  ELSE [c \in 1..Len(units) |-> Cell("raw", <<units[c]>>)]

\* What the next layer takes the cells b for: 0 is part of a message of the
\* handshake.
Taken(b) ==
  FlattenSeq([i \in 1..Len(b) |->
                IF b[i].part = "raw" THEN b[i].data ELSE <<0>>])

\* The records of b that are complete, and what is left of it.
Whole(b) == Len(b) - (Len(b) % 2)
Records(b) == FlattenSeq([i \in 1..(Whole(b) \div 2) |-> b[2 * i].data])
AfterRecords(b) == SubSeq(b, Whole(b) + 1, Len(b))

-----------------------------------------------------------------------------
(* The client.                                                             *)

\* client_encode of tls before data passes: what becomes of the plugin object
\* c, and what is returned.  With nothing to send it is the call the relay makes
\* after the server hello, and the handshake ends; data is kept back.
EncodedTls(c, buf) ==
  CASE ~c.sent ->
         <<[c EXCEPT !.sent = TRUE, !.send_buffer = @ \o buf], Greeting(<<>>)>>
    [] c.sent /\ buf = <<>> ->
         <<[c EXCEPT !.open = TRUE, !.send_buffer = <<>>],
           Finish \o Encode(c.send_buffer)>>
    [] OTHER -> <<[c EXCEPT !.send_buffer = @ \o buf], <<>> >>

\* Mutant: the buffer is not emptied when it is sent.
EncodedRandomUncleared(c, buf) ==
  CASE ~c.sent ->
         <<[c EXCEPT !.sent = TRUE, !.send_buffer = @ \o buf], Greeting(<<>>)>>
    [] c.sent /\ c.heard ->
         <<[c EXCEPT !.open = TRUE], Encode(c.send_buffer \o buf)>>
    [] OTHER -> <<[c EXCEPT !.send_buffer = @ \o buf], <<>> >>

\* The same of random_head, which goes by what it has heard.
EncodedRandom(c, buf) ==
  CASE ~c.sent ->
         <<[c EXCEPT !.sent = TRUE, !.send_buffer = @ \o buf], Greeting(<<>>)>>
    [] c.sent /\ c.heard ->
         <<[c EXCEPT !.open = TRUE, !.send_buffer = <<>>],
           Encode(c.send_buffer \o buf)>>
    [] OTHER -> <<[c EXCEPT !.send_buffer = @ \o buf], <<>> >>

\* The same of http: the first k units go into the header, nothing is kept.
EncodedHttp(c, buf, k) ==
  <<[c EXCEPT !.sent = TRUE, !.open = TRUE],
    Greeting(SubSeq(buf, 1, k)) \o Encode(SubSeq(buf, k + 1, Len(buf)))>>

Encoded(c, buf, k) ==
  CASE c.open -> <<c, Encode(buf)>>
    [] ~c.open /\ kind = "tls" -> EncodedTls(c, buf)
    [] ~c.open /\ kind = "http" -> EncodedHttp(c, buf, k)
    [] ~c.open /\ kind = "random" -> EncodedRandom(c, buf)

ClientSend(n) ==
  /\ ~cli.dead
  /\ Len(givenUp) + n <= MaxUp
  /\ \E k \in 1..n :
       LET buf == [i \in 1..n |-> Len(givenUp) + i]
           enc == Encoded(cli, buf, k)
       IN /\ k < n => kind = "http" /\ ~cli.open
          /\ cli' = enc[1]
          /\ up' = up \o enc[2]
          /\ givenUp' = givenUp \o buf
  /\ UNCHANGED <<kind, srv, down, gotUp, givenDown, gotDown, cut>>

\* Mutant: the empty line is handed on.
AfterHeaderWithLine(b) ==
  LET ends == {i \in 2..Len(b) : b[i - 1].part = "cr" /\ b[i].part = "lf"}
  IN IF ends = {} THEN {} ELSE {SubSeq(b, i, Len(b)) : i \in ends}

\* What follows the empty line in b, if it is there.
AfterHeader(b) ==
  LET ends == {i \in 2..Len(b) : b[i - 1].part = "cr" /\ b[i].part = "lf"}
  IN {SubSeq(b, i + 1, Len(b)) : i \in ends}

\* client_decode once the client has heard the reply.
ClientData(piece) ==
  LET b == cli.recv_buffer \o piece
  IN /\ cli.heard
     /\ IF kind = "tls"
        THEN /\ gotDown' = gotDown \o Records(b)
             /\ cli' = [cli EXCEPT !.recv_buffer = AfterRecords(b)]
        ELSE /\ gotDown' = gotDown \o Taken(piece)
             /\ UNCHANGED cli
     /\ UNCHANGED <<up, cut>>

\* client_decode of http: only the piece at hand is searched for the end of
\* the header; without it the piece is dropped.
ClientHeader(piece) ==
  /\ kind = "http" /\ ~cli.heard
  /\ IF AfterHeader(piece) = {}
     THEN /\ cut' = (cut \/ piece[Len(piece)].part = "cr")
          /\ UNCHANGED <<cli, gotDown>>
     ELSE /\ \E rest \in AfterHeader(piece) :
               gotDown' = gotDown \o Taken(rest)
          /\ cli' = [cli EXCEPT !.heard = TRUE]
          /\ UNCHANGED cut
  /\ UNCHANGED up

\* client_decode asks the relay to call client_encode with nothing.
ClientGoesOn ==
  LET enc == Encoded([cli EXCEPT !.heard = TRUE], <<>>, 0)
  IN cli' = enc[1] /\ up' = up \o enc[2]

\* client_decode of tls: the checksum at the end of the piece must be that of
\* the server hello.
ClientHello(piece) ==
  /\ kind = "tls" /\ ~cli.heard
  /\ cut' = (cut \/ piece # Reply)
  /\ IF piece = Reply
     THEN ClientGoesOn
     ELSE cli' = [cli EXCEPT !.dead = TRUE] /\ UNCHANGED up
  /\ UNCHANGED gotDown

\* client_decode of random_head: the first piece is dropped whatever it is.
ClientHead(piece) ==
  /\ kind = "random" /\ ~cli.heard
  /\ cut' = (cut \/ piece # Reply)
  /\ ClientGoesOn
  /\ UNCHANGED gotDown

ClientReceive(n) ==
  LET piece == SubSeq(down, 1, n)
  IN /\ ~cli.dead
     /\ down' = SubSeq(down, n + 1, Len(down))
     /\ \/ ClientData(piece) \/ ClientHeader(piece)
        \/ ClientHello(piece) \/ ClientHead(piece)
     /\ UNCHANGED <<kind, srv, givenUp, gotUp, givenDown>>

-----------------------------------------------------------------------------
(* The server.                                                             *)

\* server_encode of the destination's data; the reply goes first if it has
\* not been asked for before (http).
ServerSend(n) ==
  /\ ~srv.dead /\ ~srv.left
  /\ gotUp # <<>>
  /\ Len(givenDown) + n <= MaxDown
  /\ LET buf == [i \in 1..n |-> Len(givenDown) + i]
     IN /\ down' = down \o (IF srv.sent THEN <<>> ELSE Reply) \o Encode(buf)
        /\ givenDown' = givenDown \o buf
  /\ srv' = [srv EXCEPT !.sent = TRUE]
  /\ UNCHANGED <<kind, cli, up, givenUp, gotUp, gotDown, cut>>

\* The connection is taken for one of another protocol: what has come is
\* handed on as it is, or replaced by junk, and so is what follows.
LeaveProtocol ==
  /\ srv' = [srv EXCEPT !.left = TRUE, !.recv_buffer = <<>>]
  /\ UNCHANGED <<gotUp, down>>

\* The plugin waits for the rest of a message.
WaitForRest(b) ==
  /\ srv' = [srv EXCEPT !.recv_buffer = b]
  /\ UNCHANGED <<gotUp, down>>

\* server_decode asks the relay to answer: server_encode with nothing.
Answer(s) ==
  /\ srv' = [s EXCEPT !.sent = TRUE]
  /\ down' = down \o Reply
  /\ UNCHANGED gotUp

\* server_decode of the client hello, b being all that has come.  It may be
\* refused: a wrong time, or a ticket seen before.
ServerHello(b) ==
  LET len == Len(Greeting(<<>>))
  IN /\ kind = "tls" /\ ~srv.heard
     /\ \/ Len(b) < len /\ WaitForRest(b)
        \/ Len(b) >= len /\ LeaveProtocol
        \/ Len(b) >= len
             /\ Answer([srv EXCEPT !.heard = TRUE,
                          !.recv_buffer = SubSeq(b, len + 1, Len(b))])
     /\ UNCHANGED cut

\* server_decode of the GET or POST header and the data in it, with what
\* follows it.  It may be refused: a wrong host, too little data.
ServerHttp(b) ==
  LET len == Len(Greeting(<<>>))
  IN /\ kind = "http" /\ ~srv.heard
     /\ \/ Len(b) < len /\ WaitForRest(b)
        \/ Len(b) >= len /\ LeaveProtocol
        \/ /\ Len(b) >= len
           /\ srv' = [srv EXCEPT !.heard = TRUE, !.open = TRUE,
                                 !.recv_buffer = <<>>]
           /\ gotUp' = b[len].data \o Taken(SubSeq(b, len + 1, Len(b)))
           /\ UNCHANGED down
     /\ UNCHANGED cut

\* server_decode of the random head: the checksum is that of one piece.
ServerHead(piece) ==
  /\ kind = "random" /\ ~srv.heard
  /\ cut' = (cut \/ piece # Greeting(<<>>))
  /\ IF piece = Greeting(<<>>)
     THEN Answer([srv EXCEPT !.heard = TRUE, !.open = TRUE])
     ELSE LeaveProtocol

\* Mutant: it waits for eleven bytes without keeping what has come.
ServerFinishForgets(b) ==
  /\ srv.heard /\ ~srv.open
  /\ \/ /\ Len(b) = 1
        /\ srv' = [srv EXCEPT !.dead = TRUE]
        /\ cut' = TRUE
        /\ UNCHANGED gotUp
     \/ /\ Len(b) \in 2..(Len(Finish) - 1)
        /\ UNCHANGED <<srv, gotUp, cut>>
     \/ /\ Len(b) >= Len(Finish)
        /\ LET rest == SubSeq(b, Len(Finish) + 1, Len(b))
           IN /\ srv' = [srv EXCEPT !.open = TRUE,
                                    !.recv_buffer = AfterRecords(rest)]
              /\ gotUp' = gotUp \o Records(rest)
        /\ UNCHANGED cut

\* server_decode of tls between hello and Finished: fewer than eleven bytes
\* are an error, fewer than the message are waited for.
ServerFinish(b) ==
  /\ srv.heard /\ ~srv.open
  /\ \/ /\ Len(b) = 1
        /\ srv' = [srv EXCEPT !.dead = TRUE]
        /\ cut' = TRUE
        /\ UNCHANGED gotUp
     \/ /\ Len(b) \in 2..(Len(Finish) - 1)
        /\ srv' = [srv EXCEPT !.recv_buffer = b]
        /\ UNCHANGED <<gotUp, cut>>
     \/ /\ Len(b) >= Len(Finish)
        /\ LET rest == SubSeq(b, Len(Finish) + 1, Len(b))
           IN /\ srv' = [srv EXCEPT !.open = TRUE,
                                    !.recv_buffer = AfterRecords(rest)]
              /\ gotUp' = gotUp \o Records(rest)
        /\ UNCHANGED cut

\* server_decode of data.
ServerData(b) ==
  /\ srv.open
  /\ IF kind = "tls"
     THEN /\ gotUp' = gotUp \o Records(b)
          /\ srv' = [srv EXCEPT !.recv_buffer = AfterRecords(b)]
     ELSE /\ gotUp' = gotUp \o Taken(b)
          /\ UNCHANGED srv
  /\ UNCHANGED cut

ServerReceive(n) ==
  LET piece == SubSeq(up, 1, n)
      b     == srv.recv_buffer \o piece
  IN /\ ~srv.dead
     /\ up' = SubSeq(up, n + 1, Len(up))
     /\ \/ srv.left /\ UNCHANGED <<srv, gotUp, down, cut>>
        \/ ~srv.left /\ (ServerHello(b) \/ ServerHttp(b) \/ ServerHead(piece))
        \/ ~srv.left /\ ServerFinish(b) /\ UNCHANGED down
        \/ ~srv.left /\ ServerData(b) /\ UNCHANGED down
     /\ UNCHANGED <<kind, cli, givenUp, givenDown, gotDown>>

Next ==
  \/ \E n \in 1..MaxWrite : ClientSend(n) \/ ServerSend(n)
  \/ \E n \in 1..Len(up) : ServerReceive(n)
  \/ \E n \in 1..Len(down) : ClientReceive(n)

Spec == Init /\ [][Next]_vars

-----------------------------------------------------------------------------
Cells ==
  [part : {"hello1", "hello2", "get1", "get2", "random1", "random2", "server1",
           "server2", "status", "cr", "lf", "ccs", "fin1", "fin2", "head",
           "body", "raw"},
   data : Seq(Nat)]

Sides ==
  [sent : BOOLEAN, heard : BOOLEAN, open : BOOLEAN, left : BOOLEAN,
   dead : BOOLEAN, send_buffer : Seq(1..MaxUp), recv_buffer : Seq(Cells)]

\* The states of the two plugin objects.  Of the flags that stand for
\* handshake_status, raw_trans_sent and raw_trans_recv only some combinations
\* occur, and data is kept back only between the greeting and the opening.
TypeOK ==
  /\ kind \in Kinds
  /\ kind # "http" => cli.open = cli.heard
  /\ cli.send_buffer # <<>> => cli.sent /\ ~cli.open
  /\ cli \in Sides /\ srv \in Sides
  /\ up \in Seq(Cells) /\ down \in Seq(Cells)
  /\ givenUp \in Seq(1..MaxUp) /\ gotUp \in Seq(Nat)
  /\ givenDown \in Seq(1..MaxDown) /\ gotDown \in Seq(Nat)
  /\ cut \in BOOLEAN

\* However the stream is cut, what a decoder hands on is a prefix of what the
\* other side's encoder was given, nothing of the handshake gets into it, and
\* a server leaves the protocol only if it has handed on nothing.  random_head
\* can say so only of heads that come in one piece: it does not know where
\* they end.
InOrder ==
  /\ IsPrefix(gotUp, givenUp)
  /\ (kind = "random" /\ cut) \/ IsPrefix(gotDown, givenDown)
  /\ srv.left => gotUp = <<>>

\* Unless one of the messages that must come whole was cut (the server hello,
\* the first eleven bytes of the client's Finished, the empty line of the HTTP
\* reply, a random head) nobody fails, and nobody waits for ever: when nothing
\* is in flight, all data has come through, what was kept back during the
\* handshake included.
ComesThrough ==
  (~cut /\ ~srv.left) =>
    /\ ~cli.dead /\ ~srv.dead
    /\ (up = <<>> /\ down = <<>>) => gotUp = givenUp /\ gotDown = givenDown
=============================================================================
