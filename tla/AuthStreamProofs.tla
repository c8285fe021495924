-------------------------- MODULE AuthStreamProofs --------------------------
(* Theorems about AuthStream, for every plugin, every cut of the stream    *)
(* and whatever the network does to it: how the server's plugin object     *)
(* moves between header, data, raw transfer and failure; that each         *)
(* direction implements the stream of Channel; and that without a fault    *)
(* all data comes through.                                                 *)
EXTENDS AuthStream, SequenceLemmas

Fields == {"pack_id", "recv_id", "recv_buf", "hasHeader", "raw", "dead", "released"}

\* The ids are asked for when the header is complete, and the object does not
\* look for a header again.
HeaderInv ==
  /\ DOMAIN srv = Fields
  /\ srv.hasHeader \in BOOLEAN /\ srv.raw \in BOOLEAN /\ srv.dead \in BOOLEAN
  /\ srv.released \in BOOLEAN
  /\ inserts \in {0, 1}
  /\ inserts = 1 => srv.hasHeader \/ srv.raw \/ srv.dead

\* Nothing is handed out before the header, and what is handed out is known to
\* have been.
ReleasedInv ==
  /\ ~srv.hasHeader => gotUp = <<>>
  /\ ~srv.released => gotUp = <<>>
  /\ srv.raw => gotUp = <<>>

Inv == HeaderInv /\ ReleasedInv

\* What a step of the server may do to the stream it releases.
UpMode == IF srv.dead THEN "failed" ELSE IF srv.raw THEN "left" ELSE "open"
UpModeStep ==
  /\ UpMode # "open" => UpMode' = UpMode /\ gotUp' = gotUp
  /\ UpMode' # UpMode => gotUp' = gotUp
  /\ UpMode' = "left" => gotUp' = <<>>

-----------------------------------------------------------------------------
\* At first nothing was asked for and nothing handed out.
LEMMA InitInv == Init => Inv
<1> SUFFICES ASSUME Init PROVE Inv
  OBVIOUS
<1>1. /\ srv = NewSide /\ gotUp = <<>> /\ inserts = 0
  BY DEF Init
<1>2. /\ DOMAIN NewSide = Fields
      /\ NewSide.hasHeader = FALSE /\ NewSide.raw = FALSE
      /\ NewSide.dead = FALSE /\ NewSide.released = FALSE
  BY DEF NewSide, Fields
<1>3. HeaderInv
  <2>1. /\ DOMAIN srv = Fields
        /\ srv.hasHeader \in BOOLEAN /\ srv.raw \in BOOLEAN /\ srv.dead \in BOOLEAN
        /\ srv.released \in BOOLEAN
    BY <1>1, <1>2
  <2>2. inserts \in {0, 1} /\ inserts # 1
    BY <1>1
  <2> QED
    BY <2>1, <2>2 DEF HeaderInv
<1>4. ReleasedInv
  BY <1>1 , <1>2 DEF ReleasedInv
<1> QED
  BY <1>3, <1>4 DEF Inv

\* Packing changes the number of the next frame only.
LEMMA PackedSide ==
  ASSUME NEW s, DOMAIN s = Fields, NEW buf
  PROVE  /\ DOMAIN Packed(s, buf) = Fields
         /\ Packed(s, buf).hasHeader = s.hasHeader /\ Packed(s, buf).raw = s.raw
         /\ Packed(s, buf).dead = s.dead /\ Packed(s, buf).released = s.released
<1>1. PICK k : k = s.pack_id + Len(ServerChunks(s, buf))
  OBVIOUS
<1>2. Packed(s, buf) = [s EXCEPT !.pack_id = k]
  BY <1>1 DEF Packed
<1>3. /\ DOMAIN [s EXCEPT !.pack_id = k] = Fields
      /\ [s EXCEPT !.pack_id = k].hasHeader = s.hasHeader
      /\ [s EXCEPT !.pack_id = k].raw = s.raw
      /\ [s EXCEPT !.pack_id = k].dead = s.dead
      /\ [s EXCEPT !.pack_id = k].released = s.released
  BY DEF Fields
<1> QED
  BY <1>2, <1>3

\* What the plugin object is after a step of the server.
Waited(t) ==
  /\ DOMAIN t = Fields /\ t.hasHeader = srv.hasHeader /\ t.raw = srv.raw
  /\ t.dead = srv.dead /\ t.released = srv.released
Left(t) ==
  /\ DOMAIN t = Fields /\ t.hasHeader = srv.hasHeader /\ t.raw = TRUE
  /\ t.dead = srv.dead /\ t.released = srv.released
Failed(t) ==
  /\ DOMAIN t = Fields /\ t.hasHeader = srv.hasHeader /\ t.raw = srv.raw
  /\ t.dead = TRUE /\ t.released = srv.released
Went(t, units) ==
  /\ DOMAIN t = Fields /\ t.hasHeader = TRUE /\ t.raw = srv.raw
  /\ t.dead = srv.dead /\ t.released = (srv.released \/ units # <<>>)

\* Leaving the protocol.
LEMMA Leaving ==
  ASSUME DOMAIN srv = Fields, NEW b, LeaveProtocol(b)
  PROVE  Left(srv') /\ gotUp' = gotUp
<1>1. srv' = [srv EXCEPT !.raw = TRUE, !.recv_buf = b] /\ gotUp' = gotUp
  BY DEF LeaveProtocol
<1>2. Left([srv EXCEPT !.raw = TRUE, !.recv_buf = b])
  BY DEF Left, Fields
<1> QED
  BY <1>1, <1>2

\* The loop over the frames goes on, fails, or (auth_sha1_v4, nothing released
\* yet) leaves the protocol.
LEMMA Frames ==
  ASSUME DOMAIN srv = Fields, srv.released \in BOOLEAN,
         NEW b, NEW head, NEW sendback, ServerFrames(b, head, sendback)
  PROVE  \/ \E units : Went(srv', units) /\ gotUp' = gotUp \o units
         \/ Left(srv') /\ ~srv.released /\ gotUp' = gotUp
         \/ Failed(srv') /\ gotUp' = gotUp
<1>1. PICK k : k = NumGood(b, srv.recv_id)
  OBVIOUS
<1>2. PICK left : left = SubSeq(b, 2 * k + 1, Len(b))
  OBVIOUS
<1>3. PICK units : units = head \o FlattenSeq(FrameData(b, k))
  OBVIOUS
<1>4. PICK r : r = (srv.released \/ units # <<>>)
  OBVIOUS
<1>5. PICK id : id = srv.recv_id + k
  OBVIOUS
<1>6. PICK after : after = [srv EXCEPT !.recv_buf = left, !.recv_id = id,
                                       !.hasHeader = TRUE, !.released = r]
  OBVIOUS
<1>7. Went(after, units)
  BY <1>4, <1>6 DEF Went, Fields
<1>8. \/ /\ gotUp' = gotUp \o units
         /\ srv' = Packed(after, <<>>) \/ srv' = after
      \/ LeaveProtocol(left) /\ ~srv.released
      \/ srv' = [srv EXCEPT !.dead = TRUE] /\ gotUp' = gotUp
  BY <1>1, <1>2, <1>3, <1>4, <1>5, <1>6 DEF ServerFrames
<1>9. Went(Packed(after, <<>>), units)
  BY <1>7, PackedSide DEF Went
<1>10. Failed([srv EXCEPT !.dead = TRUE])
  BY DEF Failed, Fields
<1> QED
  BY <1>7, <1>8, <1>9, <1>10, Leaving

\* Each way the server's plugin object changes keeps the invariant, and is a
\* step of the stream it releases.
LEMMA Changed ==
  ASSUME Inv, ~srv.dead, ~srv.raw,
         \/ Waited(srv') /\ gotUp' = gotUp /\ inserts' = inserts
         \/ Left(srv') /\ (~srv.hasHeader \/ ~srv.released) /\ gotUp' = gotUp
              /\ inserts' \in {0, 1}
         \/ Failed(srv') /\ gotUp' = gotUp /\ inserts' \in {0, 1}
         \/ (\E units : Went(srv', units) /\ gotUp' = gotUp \o units)
              /\ inserts' \in {0, 1}
  PROVE  Inv' /\ UpModeStep
<1>0. HeaderInv /\ ReleasedInv
  BY DEF Inv
<1>1. CASE Waited(srv') /\ gotUp' = gotUp /\ inserts' = inserts
  <2>1. HeaderInv'
    BY <1>0, <1>1 DEF HeaderInv, Waited
  <2>2. ReleasedInv'
    BY <1>0, <1>1 DEF ReleasedInv, Waited
  <2>3. UpModeStep
    BY <1>1 DEF UpModeStep, UpMode, Waited
  <2> QED
    BY <2>1, <2>2, <2>3 DEF Inv
<1>2. CASE Left(srv') /\ (~srv.hasHeader \/ ~srv.released) /\ gotUp' = gotUp
             /\ inserts' \in {0, 1}
  <2>1. HeaderInv'
    BY <1>0, <1>2 DEF HeaderInv, Left
  <2>2. gotUp = <<>>
    BY <1>0, <1>2 DEF ReleasedInv
  <2>3. ReleasedInv'
    BY <1>2, <2>2 DEF ReleasedInv
  <2>4. UpModeStep
    BY <1>2, <2>2 DEF UpModeStep, UpMode, Left
  <2> QED
    BY <2>1, <2>3, <2>4 DEF Inv
<1>3. CASE Failed(srv') /\ gotUp' = gotUp /\ inserts' \in {0, 1}
  <2>1. HeaderInv'
    BY <1>0, <1>3 DEF HeaderInv, Failed
  <2>2. ReleasedInv'
    BY <1>0, <1>3 DEF ReleasedInv, Failed
  <2>3. UpModeStep
    BY <1>3 DEF UpModeStep, UpMode, Failed
  <2> QED
    BY <2>1, <2>2, <2>3 DEF Inv
<1>4. CASE (\E units : Went(srv', units) /\ gotUp' = gotUp \o units)
             /\ inserts' \in {0, 1}
  <2>1. PICK units : Went(srv', units) /\ gotUp' = gotUp \o units
    BY <1>4
  <2>2. HeaderInv'
    <3>1. srv'.released \in BOOLEAN
      BY <2>1 DEF Went
    <3> QED
      BY <1>0, <1>4, <2>1, <3>1 DEF HeaderInv, Went
  <2>3. ASSUME ~srv'.released PROVE gotUp' = <<>>
    <3>1. units = <<>> /\ gotUp = <<>>
      BY <1>0, <2>1, <2>3 DEF ReleasedInv, Went
    <3>2. <<>> \o <<>> = <<>>
      OBVIOUS
    <3> QED
      BY <2>1, <3>1, <3>2
  <2>4. ReleasedInv'
    BY <2>1, <2>3 DEF ReleasedInv, Went
  <2>5. UpModeStep
    BY <2>1 DEF UpModeStep, UpMode, Went
  <2> QED
    BY <2>2, <2>4, <2>5 DEF Inv
<1> QED
  BY <1>1, <1>2, <1>3, <1>4

\* server_post_decrypt.
LEMMA Receives ==
  ASSUME Inv, NEW n, ServerReceive(n)
  PROVE  Inv' /\ UpModeStep
<1>0. /\ DOMAIN srv = Fields /\ srv.released \in BOOLEAN /\ inserts \in {0, 1}
      /\ ~srv.dead /\ srv.raw \in BOOLEAN /\ srv.hasHeader \in BOOLEAN
  BY DEF Inv, HeaderInv, ServerReceive
<1>1. PICK b : b = srv.recv_buf \o SubSeq(up, 1, n)
  OBVIOUS
<1>2. CASE srv.raw
  <2>1. UNCHANGED <<srv, gotUp, inserts>>
    BY <1>2 DEF ServerReceive
  <2> QED
    BY <2>1 DEF Inv, HeaderInv, ReleasedInv, UpModeStep, UpMode
<1>3. CASE ~srv.raw /\ srv.hasHeader
  <2>1. ServerFrames(b, <<>>, FALSE) /\ inserts' = inserts
    BY <1>1, <1>3 DEF ServerReceive
  <2>2. \/ \E units : Went(srv', units) /\ gotUp' = gotUp \o units
        \/ Left(srv') /\ ~srv.released /\ gotUp' = gotUp
        \/ Failed(srv') /\ gotUp' = gotUp
    BY <1>0, <2>1, Frames
  <2>3. inserts' \in {0, 1}
    BY <1>0, <2>1
  <2> QED
    BY <1>0, <1>3, <2>2, <2>3, Changed
<1>4. CASE ~srv.raw /\ ~srv.hasHeader
  <2>0. inserts = 0
    BY <1>0, <1>4 DEF Inv, HeaderInv
  <2>1. CASE srv' = [srv EXCEPT !.recv_buf = b] /\ UNCHANGED <<gotUp, inserts>>
    <3>1. Waited([srv EXCEPT !.recv_buf = b])
      BY <1>0 DEF Waited, Fields
    <3> QED
      BY <1>0, <1>4, <2>1, <3>1, Changed
  <2>2. CASE LeaveProtocol(b) /\ inserts' \in {0, 1}
    BY <1>0, <1>4, <2>2, Leaving, Changed
  <2>3. ASSUME NEW c, NEW head, ServerFrames(c, head, TRUE), inserts' = 1
        PROVE  Inv' /\ UpModeStep
    <3>1. \/ \E units : Went(srv', units) /\ gotUp' = gotUp \o units
          \/ Left(srv') /\ ~srv.released /\ gotUp' = gotUp
          \/ Failed(srv') /\ gotUp' = gotUp
      BY <1>0, <2>3, Frames
    <3> QED
      BY <1>0, <1>4, <2>3, <3>1, Changed
  <2>4. CASE ServerHeader(b)
    <3>1. CASE inserts' \in {inserts, inserts + 1} /\ LeaveProtocol(b)
      <4>1. inserts' \in {0, 1}
        BY <2>0, <3>1
      <4> QED
        BY <2>2, <3>1, <4>1
    <3>2. CASE /\ inserts' = 1
               /\ ServerFrames(SubSeq(b, Len(HeaderParts) + 1, Len(b)),
                               b[Len(HeaderParts)].data, TRUE)
      BY <2>3, <3>2
    <3> QED
      BY <2>4, <3>1, <3>2 DEF ServerHeader
  <2>5. \/ srv' = [srv EXCEPT !.recv_buf = b] /\ UNCHANGED <<gotUp, inserts>>
        \/ LeaveProtocol(b) /\ UNCHANGED inserts
        \/ ServerHeader(b)
    BY <1>1, <1>4 DEF ServerReceive
  <2>6. inserts' = inserts => inserts' \in {0, 1}
    BY <2>0
  <2> QED
    BY <2>1, <2>2, <2>4, <2>5, <2>6
<1> QED
  BY <1>0, <1>2, <1>3, <1>4

\* server_pre_encrypt.
LEMMA Sends ==
  ASSUME Inv, NEW n, ServerSend(n)
  PROVE  Inv' /\ UpModeStep
<1>1. PICK buf : buf = [i \in 1..n |-> Len(givenDown) + i]
  OBVIOUS
<1>2. /\ srv' = Packed(srv, buf) /\ UNCHANGED <<gotUp, inserts>>
      /\ ~srv.dead /\ ~srv.raw /\ DOMAIN srv = Fields
  BY <1>1 DEF ServerSend, Inv, HeaderInv
<1>3. Waited(srv')
  BY <1>2, PackedSide DEF Waited
<1> QED
  BY <1>2, <1>3, Changed

\* Every step.
LEMMA NextInv == Inv /\ [Next]_vars => Inv' /\ [UpModeStep]_vars
<1> SUFFICES ASSUME Inv, [Next]_vars PROVE Inv' /\ UpModeStep
  OBVIOUS
<1>1. CASE UNCHANGED <<srv, gotUp, inserts>>
  BY <1>1 DEF Inv, HeaderInv, ReleasedInv, UpModeStep, UpMode
<1>2. ASSUME NEW n, ClientSend(n) \/ ClientReceive(n)
      PROVE  UNCHANGED <<srv, gotUp, inserts>>
  BY <1>2 DEF ClientSend, ClientReceive
<1>3. CASE ServerSendRaw \/ AlterUp \/ AlterDown \/ UNCHANGED vars
  BY <1>1, <1>3 DEF ServerSendRaw, AlterUp, AlterDown, vars
<1> QED
  BY <1>1, <1>2, <1>3, Receives, Sends DEF Next

\* The invariant holds all the time.
LEMMA Invariant == Spec => []Inv
<1>1. Inv /\ [Next]_vars => Inv'
  BY NextInv
<1> QED
  BY <1>1, InitInv, PTL DEF Spec

\* data.insert is asked at most once for a connection, in however many pieces
\* its header arrives and whatever happens after it was accepted or refused.
THEOREM AsksOnce == Spec => []InsertedOnce
<1>1. Inv => InsertedOnce
  BY DEF Inv, HeaderInv, InsertedOnce
<1> QED
  BY <1>1, Invariant, PTL

\* The modes of Channel: the stream that server_post_decrypt releases, once it
\* has failed or was left, stays so and gets nothing more; a step that fails
\* releases nothing; and the protocol is left (raw_trans without an exception)
\* only if nothing was ever released.
THEOREM FailsForGood == Spec => [][UpModeStep]_vars
<1>1. Inv /\ [Next]_vars => [UpModeStep]_vars
  BY NextInv
<1> QED
  BY <1>1, Invariant, PTL DEF Spec

-----------------------------------------------------------------------------
(* Frames and the streams they carry: places where a stream is cut, cells  *)
(* that carry what their numbers say.                                      *)

\* The loop over the frames takes those that are good, up to the first that is
\* not.
LEMMA TakesGood ==
  ASSUME NEW b, Len(b) \in Nat, NEW id, NEW k, k = NumGood(b, id)
  PROVE  /\ k \in 0..(Len(b) \div 2)
         /\ \A i \in 1..k : GoodFrame(b, id, i)
         /\ k < Len(b) \div 2 => ~GoodFrame(b, id, k + 1)
<1>1. PICK N \in Nat : N = Len(b) \div 2
  OBVIOUS
<1> DEFINE T == {j \in 0..N : j < N => ~GoodFrame(b, id, j + 1)}
<1>2. N \in T /\ T \subseteq Nat
  BY <1>1
<1>3. PICK x \in T : \A y \in T : x <= y
  BY <1>2, Least
<1>4. \A i \in 1..x : GoodFrame(b, id, i)
  <2> TAKE i \in 1..x
  <2>1. i - 1 \in 0..N /\ i - 1 < x /\ i - 1 < N /\ (i - 1) + 1 = i
    BY <1>1
  <2>2. i - 1 \notin T
    BY <1>3, <2>1
  <2> QED
    BY <2>1, <2>2
<1>5. /\ x \in 0..N /\ \A i \in 1..x : GoodFrame(b, id, i)
      /\ x < N => ~GoodFrame(b, id, x + 1)
  BY <1>3, <1>4
<1> QED
  BY <1>1, <1>5 DEF NumGood

\* Places that do not go back.
Upward(o, n) == \A i, j \in 0..n : i <= j => o[i] <= o[j]

\* The frames up to q cut the stream g: frame j carries the units after o[j - 1]
\* up to o[j], and the header those up to o[0].
Ends(o, q, g) == o \in [Nat -> Nat] /\ Upward(o, q) /\ o[q] = Len(g)

\* A cell that is intact carries what its number says; one that is not, and one
\* of the kinds that carry nothing, may be anything.
Genuine(cell, o, q, g) ==
  cell.ok =>
    /\ cell.part = "rest" =>
         cell.id \in 1..q /\ cell.data = SubSeq(g, o[cell.id - 1] + 1, o[cell.id])
    /\ cell.part = "body" => cell.data = SubSeq(g, 1, o[0])
    /\ cell.part = "auth" => cell.data = <<>>

\* All cells of b are genuine.
AllGenuine(b, o, q, g) == \A i \in 1..Len(b) : Genuine(b[i], o, q, g)

\* The chunks C cut u at the places c.
Cut(C, c, u) ==
  /\ Len(C) \in Nat \ {0}
  /\ Ends(c, Len(C), u) /\ c[0] = 0
  /\ \A j \in 1..Len(C) : C[j] = SubSeq(u, c[j - 1] + 1, c[j])

\* Places o up to p, and after them the places c, counted from o[p].
Glued(e, o, p, c, n) ==
  /\ e \in [Nat -> Nat] /\ Upward(e, p + n)
  /\ \A j \in 0..p : e[j] = o[j]
  /\ \A i \in 0..n : e[p + i] = o[p] + c[i]

\* Such places exist.
LEMMA Glue ==
  ASSUME NEW p \in Nat, NEW n \in Nat,
         NEW o \in [Nat -> Nat], Upward(o, p),
         NEW c \in [Nat -> Nat], Upward(c, n), c[0] = 0
  PROVE  \E e : Glued(e, o, p, c, n)
<1>1. PICK e : e = [j \in Nat |-> IF j <= p THEN o[j] ELSE o[p] + c[j - p]]
  OBVIOUS
<1>2. e \in [Nat -> Nat]
  <2>1. ASSUME NEW j \in Nat PROVE (IF j <= p THEN o[j] ELSE o[p] + c[j - p]) \in Nat
    <3>1. CASE j <= p
      BY <3>1
    <3>2. CASE ~(j <= p)
      <4>1. j - p \in Nat
        BY <3>2
      <4>2. c[j - p] \in Nat /\ o[p] \in Nat
        BY <4>1
      <4> QED
        BY <3>2, <4>2
    <3> QED
      BY <3>1, <3>2
  <2> QED
    BY <1>1, <2>1
<1>3. \A j \in 0..p : e[j] = o[j]
  BY <1>1
<1>4. \A i \in 0..n : e[p + i] = o[p] + c[i]
  <2> TAKE i \in 0..n
  <2>0. c[i] \in Nat /\ o[p] \in Nat
    OBVIOUS
  <2>1. CASE i = 0
    BY <2>1, <1>3
  <2>2. CASE i > 0
    <3>1. p + i \in Nat /\ ~(p + i <= p) /\ (p + i) - p = i
      BY <2>2
    <3> QED
      BY <1>1, <3>1
  <2> QED
    BY <2>1, <2>2
<1>5. Upward(e, p + n)
  <2> SUFFICES ASSUME NEW i \in 0..(p + n), NEW j \in 0..(p + n), i <= j
               PROVE  e[i] <= e[j]
    BY DEF Upward
  <2>1. CASE j <= p
    <3>1. i \in 0..p /\ j \in 0..p
      BY <2>1
    <3>2. o[i] <= o[j]
      BY <3>1 DEF Upward
    <3> QED
      BY <1>3, <3>1, <3>2
  <2>2. CASE i <= p /\ ~(j <= p)
    <3>1. i \in 0..p /\ p \in 0..p
      BY <2>2
    <3>2. o[i] <= o[p] /\ o[i] \in Nat /\ o[p] \in Nat
      BY <3>1 DEF Upward
    <3>3. j - p \in 0..n /\ p + (j - p) = j
      BY <2>2
    <3>4. e[j] = o[p] + c[j - p] /\ c[j - p] \in Nat
      BY <1>4, <3>3
    <3> QED
      BY <1>3, <3>1, <3>2, <3>4
  <2>3. CASE ~(i <= p)
    <3>1. i - p \in 0..n /\ j - p \in 0..n /\ i - p <= j - p
          /\ p + (i - p) = i /\ p + (j - p) = j
      BY <2>3
    <3>2. c[i - p] <= c[j - p] /\ c[i - p] \in Nat /\ c[j - p] \in Nat /\ o[p] \in Nat
      BY <3>1 DEF Upward
    <3>3. e[i] = o[p] + c[i - p] /\ e[j] = o[p] + c[j - p]
      BY <1>4, <3>1
    <3> QED
      BY <3>2, <3>3
  <2> QED
    BY <2>1, <2>2, <2>3
<1>6. Glued(e, o, p, c, n)
  BY <1>2, <1>3, <1>4, <1>5 DEF Glued
<1> QED
  BY <1>6

\* The last place is the greatest.
LEMMA Bounded ==
  ASSUME NEW n \in Nat, NEW o \in [Nat -> Nat], Upward(o, n), NEW j \in 0..n
  PROVE  o[j] \in 0..o[n]
<1>1. n \in 0..n /\ j <= n
  OBVIOUS
<1>2. o[j] <= o[n]
  BY <1>1 DEF Upward
<1> QED
  BY <1>2

\* All places but the first, moved on by m.
LEMMA Lift ==
  ASSUME NEW m \in Nat, NEW n \in Nat,
         NEW c \in [Nat -> Nat], Upward(c, n)
  PROVE  \E e \in [Nat -> Nat] :
           /\ e[0] = 0 /\ \A j \in 1..n : e[j] = m + c[j]
           /\ Upward(e, n)
<1>1. PICK e : e = [j \in Nat |-> IF j = 0 THEN 0 ELSE m + c[j]]
  OBVIOUS
<1>2. e \in [Nat -> Nat]
  BY <1>1
<1>3. e[0] = 0 /\ \A j \in 1..n : e[j] = m + c[j]
  BY <1>1
<1>4. Upward(e, n)
  <2> SUFFICES ASSUME NEW i \in 0..n, NEW j \in 0..n, i <= j
               PROVE  e[i] <= e[j]
    BY DEF Upward
  <2>1. CASE i = 0
    BY <1>2, <1>3, <2>1
  <2>2. CASE i > 0
    <3>1. i \in 1..n /\ j \in 1..n
      BY <2>2
    <3>2. c[i] <= c[j] /\ c[i] \in Nat /\ c[j] \in Nat
      BY DEF Upward
    <3> QED
      BY <1>3, <3>1, <3>2
  <2> QED
    BY <2>1, <2>2
<1> QED
  BY <1>2, <1>3, <1>4

\* The chunks of the loop over unit_len cut what they are made of.
LEMMA ChunksCut ==
  ASSUME NEW S, NEW u \in Seq(S)
  PROVE  \E c : Cut(Chunks(u), c, u)
<1>1. CASE u = <<>>
  <2>1. PICK C : C = << <<>> >>
    OBVIOUS
  <2>2. Chunks(u) = C /\ Len(C) = 1 /\ C[1] = <<>> /\ Len(u) = 0
    BY <1>1, <2>1 DEF Chunks
  <2>3. PICK c : c = [j \in Nat |-> 0]
    OBVIOUS
  <2>4. SubSeq(u, 0 + 1, 0) = <<>>
    BY SubSeqEmpty
  <2>5. \A j \in 1..Len(C) : C[j] = SubSeq(u, c[j - 1] + 1, c[j])
    <3> TAKE j \in 1..Len(C)
    <3>1. j = 1 /\ c[j - 1] = 0 /\ c[j] = 0
      BY <2>2, <2>3
    <3> QED
      BY <2>2, <2>4, <3>1
  <2>6. Cut(C, c, u)
    BY <2>2, <2>3, <2>5 DEF Cut, Ends, Upward
  <2> QED
    BY <2>2, <2>6
<1>2. CASE u # <<>>
  <2>1. PICK C : C = [j \in 1..Len(u) |-> <<u[j]>>]
    OBVIOUS
  <2>2. Chunks(u) = C
    BY <1>2, <2>1 DEF Chunks
  <2>3. Len(u) \in Nat \ {0} /\ Len(C) = Len(u)
    BY <1>2, <2>1, EmptySeq
  <2>4. PICK c : c = [j \in Nat |-> j]
    OBVIOUS
  <2>5. \A j \in 1..Len(C) : C[j] = SubSeq(u, c[j - 1] + 1, c[j])
    <3> TAKE j \in 1..Len(C)
    <3>1. j \in 1..Len(u) /\ j - 1 \in Nat /\ c[j - 1] + 1 = j /\ c[j] = j
      BY <2>3, <2>4
    <3>2. SubSeq(u, j, j) = <<u[j]>>
      <4>1. SubSeq(u, j, j) = <<u[j]>> \o SubSeq(u, j + 1, j)
        BY <3>1, SubSeqRecursiveFirst
      <4>2. SubSeq(u, j + 1, j) = <<>>
        BY <3>1, SubSeqEmpty
      <4>3. u[j] \in S
        BY <3>1
      <4>4. <<u[j]>> \in Seq(S)
        BY <4>3
      <4> QED
        BY <4>1, <4>2, <4>4, ConcatEmptySeq
    <3> QED
      BY <2>1, <3>1, <3>2
  <2>6. Cut(C, c, u)
    BY <2>3, <2>4, <2>5 DEF Cut, Ends, Upward
  <2> QED
    BY <2>2, <2>6
<1> QED
  BY <1>1, <1>2

\* The stream g, of which the frames up to q are packed, becomes longer by u,
\* which goes into n more frames.
Extended(e, o, q, g, c, n, u) ==
  /\ Ends(e, q + n, g \o u)
  /\ \A j \in 0..q : e[j] = o[j]
  /\ \A i \in 0..n : e[q + i] = o[q] + c[i]
  /\ SubSeq(g \o u, 1, e[0]) = SubSeq(g, 1, o[0])
  /\ \A j \in 1..q : SubSeq(g \o u, e[j - 1] + 1, e[j]) = SubSeq(g, o[j - 1] + 1, o[j])
  /\ \A i \in 1..n : SubSeq(g \o u, e[(q + i) - 1] + 1, e[q + i])
                       = SubSeq(u, c[i - 1] + 1, c[i])

\* The places of the longer stream.
LEMMA Extend ==
  ASSUME NEW S, NEW g \in Seq(S), NEW u \in Seq(S), NEW q \in Nat, NEW n \in Nat,
         NEW o, Ends(o, q, g), NEW c, Ends(c, n, u), c[0] = 0
  PROVE  \E e : Extended(e, o, q, g, c, n, u)
<1>1. PICK G, U : G = Len(g) /\ U = Len(u)
  OBVIOUS
<1>2. G \in Nat /\ U \in Nat /\ Len(g \o u) = G + U
  BY <1>1
<1>3. o \in [Nat -> Nat] /\ Upward(o, q) /\ o[q] = G
  BY <1>1 DEF Ends
<1>4. c \in [Nat -> Nat] /\ Upward(c, n) /\ c[n] = U
  BY <1>1 DEF Ends
<1>0. PICK e : Glued(e, o, q, c, n)
  BY <1>3, <1>4, Glue
<1>5. /\ e \in [Nat -> Nat] /\ Upward(e, q + n)
      /\ \A j \in 0..q : e[j] = o[j]
      /\ \A i \in 0..n : e[q + i] = o[q] + c[i]
  BY <1>0 DEF Glued
<1>6. Ends(e, q + n, g \o u)
  <2>1. e[q + n] = G + U
    BY <1>3, <1>4, <1>5
  <2> QED
    BY <1>2, <1>5, <2>1 DEF Ends
<1>7. ASSUME NEW j \in 0..q PROVE o[j] \in 0..G
  BY <1>3, Bounded
<1>8. ASSUME NEW i \in 0..n PROVE c[i] \in 0..U
  BY <1>4, Bounded
<1>9. ASSUME NEW x \in 0..G, NEW y \in 0..G
      PROVE  SubSeq(g \o u, x + 1, y) = SubSeq(g, x + 1, y)
  <2>1. x \in Nat /\ y \in Nat /\ y <= Len(g)
    BY <1>1, <1>2
  <2> QED
    BY <2>1, PartLeft
<1>10. SubSeq(g \o u, 1, e[0]) = SubSeq(g, 1, o[0])
  <2>0. 0 \in 0..q /\ 0 \in 0..G /\ 0 + 1 = 1
    BY <1>2
  <2>1. e[0] = o[0] /\ o[0] \in 0..G
    BY <1>5, <1>7, <2>0
  <2>2. SubSeq(g \o u, 0 + 1, o[0]) = SubSeq(g, 0 + 1, o[0])
    BY <1>9, <2>0, <2>1
  <2> QED
    BY <2>0, <2>1, <2>2
<1>11. ASSUME NEW j \in 1..q
       PROVE  SubSeq(g \o u, e[j - 1] + 1, e[j]) = SubSeq(g, o[j - 1] + 1, o[j])
  <2>1. j \in 0..q /\ j - 1 \in 0..q
    OBVIOUS
  <2>2. e[j] = o[j] /\ e[j - 1] = o[j - 1] /\ o[j] \in 0..G /\ o[j - 1] \in 0..G
    BY <1>5, <1>7, <2>1
  <2> QED
    BY <1>9, <2>2
<1>12. ASSUME NEW i \in 1..n
       PROVE  SubSeq(g \o u, e[(q + i) - 1] + 1, e[q + i]) = SubSeq(u, c[i - 1] + 1, c[i])
  <2>1. i \in 0..n /\ i - 1 \in 0..n /\ (q + i) - 1 = q + (i - 1)
    OBVIOUS
  <2>2. PICK x, y : x = c[i - 1] /\ y = c[i]
    OBVIOUS
  <2>3. x \in 0..U /\ y \in 0..U
    BY <1>8, <2>1, <2>2
  <2>4. e[(q + i) - 1] = G + x /\ e[q + i] = G + y
    BY <1>3, <1>5, <2>1, <2>2
  <2>5. x \in Nat /\ y \in Nat /\ y <= Len(u)
    BY <1>1, <1>2, <2>3
  <2>6. SubSeq(g \o u, (G + x) + 1, G + y) = SubSeq(u, x + 1, y)
    <3>1. SamePart(g, u, x, y, Len(g))
      BY <2>5, PartRight
    <3> QED
      BY <1>1, <3>1 DEF SamePart
  <2> QED
    BY <2>2, <2>4, <2>6
<1>13. Extended(e, o, q, g, c, n, u)
  BY <1>5, <1>6, <1>10, <1>11, <1>12 DEF Extended
<1> QED
  BY <1>13

\* Chunks with one more in front.
LEMMA FirstCut ==
  ASSUME NEW S, NEW d \in Seq(S), NEW u \in Seq(S), NEW C \in Seq(Seq(S)), NEW c,
         Cut(C, c, u)
  PROVE  \E e : Cut(<<d>> \o C, e, d \o u)
<1>1. PICK B, N, m : B = <<d>> \o C /\ N = Len(C) /\ m = Len(d)
  OBVIOUS
<1>2. /\ N \in Nat \ {0} /\ m \in Nat /\ Ends(c, N, u) /\ c[0] = 0
      /\ \A j \in 1..N : C[j] = SubSeq(u, c[j - 1] + 1, c[j])
  BY <1>1 DEF Cut
<1>3. /\ Len(B) = 1 + N /\ B[1] = d
      /\ \A j \in 2..(N + 1) : B[j] = C[j - 1]
  BY <1>1, <1>2
<1>4. PICK o : o = [j \in Nat |-> IF j = 0 THEN 0 ELSE m]
  OBVIOUS
<1>5. o \in [Nat -> Nat] /\ o[0] = 0 /\ o[1] = m
  BY <1>2, <1>4
<1>6. Upward(o, 1)
  BY <1>2, <1>4 DEF Upward
<1>7. Ends(o, 1, d)
  BY <1>1, <1>5, <1>6 DEF Ends
<1>8. PICK e : Extended(e, o, 1, d, c, N, u)
  BY <1>2, <1>7, Extend
<1>9. e[0] = 0 /\ e[1] = m
  BY <1>5, <1>8 DEF Extended
<1>10. ASSUME NEW j \in 1..(N + 1)
       PROVE  B[j] = SubSeq(d \o u, e[j - 1] + 1, e[j])
  <2>1. CASE j = 1
    <3>0. PICK z : z = 1 - 1
      OBVIOUS
    <3>1. SubSeq(d \o u, e[z] + 1, e[1]) = SubSeq(d, o[z] + 1, o[1])
      <4>1. 1 \in 1..1
        OBVIOUS
      <4> QED
        BY <1>8, <3>0, <4>1 DEF Extended
    <3>2. SubSeq(d, 1, m) = d
      BY <1>1, SubSeqFull
    <3>3. z = 0 /\ 0 + 1 = 1
      BY <3>0
    <3>4. SubSeq(d, o[z] + 1, o[1]) = SubSeq(d, 1, m)
      BY <1>5, <3>3
    <3> QED
      BY <1>3, <2>1, <3>0, <3>1, <3>2, <3>4
  <2>2. CASE j # 1
    <3>1. PICK i : i = j - 1
      OBVIOUS
    <3>2. i \in 1..N /\ 1 + i = j /\ j \in 2..(N + 1)
      BY <1>2, <2>2, <3>1
    <3>3. SubSeq(d \o u, e[(1 + i) - 1] + 1, e[1 + i]) = SubSeq(u, c[i - 1] + 1, c[i])
      BY <1>8, <3>2 DEF Extended
    <3>4. B[j] = C[i] /\ C[i] = SubSeq(u, c[i - 1] + 1, c[i])
      BY <1>2, <1>3, <3>1, <3>2
    <3> QED
      BY <3>2, <3>3, <3>4
  <2> QED
    BY <2>1, <2>2
<1>11. Ends(e, 1 + N, d \o u)
  BY <1>8 DEF Extended
<1>12. Len(B) \in Nat \ {0} /\ Len(B) = N + 1 /\ 1 + N = N + 1
  BY <1>2, <1>3
<1>13. Cut(B, e, d \o u)
  BY <1>9, <1>10, <1>11, <1>12 DEF Cut
<1> QED
  BY <1>1, <1>13

\* And with something put before the first chunk.
LEMMA LongerCut ==
  ASSUME NEW S, NEW d \in Seq(S), NEW u \in Seq(S), NEW C \in Seq(Seq(S)), NEW c,
         Cut(C, c, u)
  PROVE  \E e : Cut(<<d \o C[1]>> \o Tail(C), e, d \o u) /\ e[1] >= Len(d)
<1>1. PICK B : B = <<d \o C[1]>> \o Tail(C)
  OBVIOUS
<1>2. PICK N, m, l : N = Len(C) /\ m = Len(d) /\ l = Len(u)
  OBVIOUS
<1>3. N \in Nat \ {0} /\ m \in Nat /\ l \in Nat
  BY <1>2 DEF Cut
<1>4. /\ Len(B) = N /\ B[1] = d \o C[1]
      /\ \A j \in 2..N : B[j] = C[j]
  <2>1. C # <<>> /\ C[1] \in Seq(S)
    BY <1>2, <1>3
  <2>2. /\ Tail(C) \in Seq(Seq(S)) /\ Len(Tail(C)) = N - 1
        /\ \A i \in 1..(N - 1) : Tail(C)[i] = C[i + 1]
    BY <1>2, <2>1, HeadTailProperties
  <2>3. PICK h, t : h = d \o C[1] /\ t = Tail(C)
    OBVIOUS
  <2>4. h \in Seq(S)
    BY <2>1, <2>3
  <2>5. <<h>> \in Seq(Seq(S)) /\ Len(<<h>>) = 1 /\ <<h>>[1] = h
    BY <2>4
  <2>6. /\ Len(<<h>> \o t) = 1 + Len(t)
        /\ \A i \in 1..(1 + Len(t)) : (<<h>> \o t)[i] = IF i <= 1 THEN <<h>>[i] ELSE t[i - 1]
    BY <2>2, <2>3, <2>5, ConcatProperties
  <2>7. B = <<h>> \o t /\ Len(t) = N - 1 /\ 1 + (N - 1) = N
    BY <1>1, <1>3, <2>2, <2>3
  <2>8. Len(B) = N /\ \A i \in 1..N : B[i] = IF i <= 1 THEN <<h>>[i] ELSE t[i - 1]
    BY <2>6, <2>7
  <2>9. B[1] = h
    BY <1>3, <2>5, <2>8
  <2>10. ASSUME NEW j \in 2..N PROVE B[j] = C[j]
    <3>1. j - 1 \in 1..(N - 1) /\ j \in 1..N /\ ~(j <= 1) /\ (j - 1) + 1 = j
      BY <1>3
    <3>2. B[j] = t[j - 1]
      BY <2>8, <3>1
    <3> QED
      BY <2>2, <2>3, <3>1, <3>2
  <2> QED
    BY <2>3, <2>8, <2>9, <2>10
<1>5. c \in [Nat -> Nat] /\ c[0] = 0 /\ c[N] = l /\ Upward(c, N)
  BY <1>2 DEF Cut, Ends
<1>6. \A j \in 1..N : C[j] = SubSeq(u, c[j - 1] + 1, c[j])
  BY <1>2 DEF Cut
<1>7. PICK e \in [Nat -> Nat] :
        /\ e[0] = 0 /\ \A j \in 1..N : e[j] = m + c[j]
        /\ Upward(e, N)
  BY <1>3, <1>5, Lift
<1>8. Ends(e, N, d \o u)
  <2>1. e[N] = m + l
    BY <1>3, <1>5, <1>7
  <2>2. Len(d \o u) = m + l
    BY <1>2
  <2> QED
    BY <1>7, <2>1, <2>2 DEF Ends
<1>9. ASSUME NEW j \in 1..N
      PROVE  B[j] = SubSeq(d \o u, e[j - 1] + 1, e[j])
  <2>1. PICK x, y : x = c[j - 1] /\ y = c[j]
    OBVIOUS
  <2>2. j - 1 \in 0..N /\ j \in 0..N /\ N \in 0..N /\ j <= N /\ j - 1 <= j
    BY <1>3
  <2>3. x \in Nat /\ y \in Nat /\ y <= l /\ x <= y
    BY <1>5, <2>1, <2>2 DEF Upward
  <2>4. C[j] = SubSeq(u, x + 1, y)
    BY <1>6, <2>1
  <2>5. e[j] = m + y
    BY <1>7, <2>1
  <2>6. SubSeq(d \o u, (m + x) + 1, m + y) = SubSeq(u, x + 1, y)
    <3>1. SamePart(d, u, x, y, Len(d))
      BY <1>2, <2>3, PartRight
    <3> QED
      BY <1>2, <3>1 DEF SamePart
  <2>7. CASE j = 1
    <3>1. x = 0 /\ e[j - 1] = 0 /\ e[1] = m + y
      BY <1>5, <1>7, <2>1, <2>5, <2>7
    <3>2. SubSeq(d \o u, 0 + 1, m) = SubSeq(d, 0 + 1, m)
      BY <1>2, PartLeft
    <3>3. SubSeq(d, 1, m) = d
      BY <1>2, SubSeqFull
    <3>4. PICK w : w = d \o u
      OBVIOUS
    <3>5. w \in Seq(S) /\ Len(w) = m + l
      BY <1>2, <3>4
    <3>6. /\ 1 \in 1..Len(w) + 1 /\ m \in 1 - 1..Len(w)
          /\ m + y \in m..Len(w)
      BY <1>3, <2>3, <3>5
    <3>7. SubSeq(w, 1, m) \o SubSeq(w, m + 1, m + y) = SubSeq(w, 1, m + y)
      BY <3>5, <3>6, ConcatAdjacentSubSeq
    <3>8. (m + x) + 1 = m + 1 /\ 0 + 1 = 1
      BY <1>3, <3>1
    <3>9. B[1] = d \o SubSeq(u, x + 1, y)
      BY <1>4, <2>4, <2>7
    <3>10. B[1] = SubSeq(w, 1, m + y)
      BY <2>6, <3>2, <3>3, <3>4, <3>7, <3>8, <3>9
    <3> QED
      BY <2>7, <3>1, <3>4, <3>8, <3>10
  <2>8. CASE j # 1
    <3>1. j - 1 \in 1..N /\ j \in 2..N
      BY <1>3, <2>8
    <3>2. e[j - 1] = m + x
      BY <1>7, <2>1, <3>1
    <3>3. B[j] = C[j]
      BY <1>4, <3>1
    <3> QED
      BY <2>4, <2>5, <2>6, <3>2, <3>3
  <2> QED
    BY <2>7, <2>8
<1>10. Cut(B, e, d \o u)
  BY <1>3, <1>4, <1>7, <1>8, <1>9 DEF Cut
<1>11. e[1] >= m
  <2>1. PICK x : x = c[1]
    OBVIOUS
  <2>2. 1 \in 1..N /\ x \in Nat
    BY <1>3, <1>5, <2>1
  <2>3. e[1] = m + x
    BY <1>7, <2>1, <2>2
  <2>4. m + x >= m
    BY <1>3, <2>2
  <2> QED
    BY <2>3, <2>4
<1> QED
  BY <1>1, <1>2, <1>10, <1>11

\* Cell makes cells.
LEMMA CellType ==
  ASSUME NEW id \in Nat, NEW data \in Seq(Nat), NEW tiny \in BOOLEAN,
         NEW part \in {"check", "auth", "body", "len", "rest", "raw"}
  PROVE  Cell(id, part, data, tiny) \in Cells
BY DEF Cell, Cells

\* The two cells of each frame, from number p on, one frame for each chunk.
FramesOf(w, p, C, tiny) ==
  /\ Len(w) = 2 * Len(C)
  /\ \A j \in 1..Len(C) :
       /\ w[2 * j - 1] = Cell(p + j - 1, "len", <<>>, tiny /\ C[j] = <<>>)
       /\ w[2 * j] = Cell(p + j - 1, "rest", C[j], tiny /\ C[j] = <<>>)
  /\ \A m \in 1..Len(w) : \E j \in 1..Len(C) : m = 2 * j - 1 \/ m = 2 * j

\* pack_data: the cells of frame p + j - 1 are the two of the j-th chunk.
LEMMA Packing ==
  ASSUME NEW p \in Nat, NEW C \in Seq(Seq(Nat)), NEW tiny \in BOOLEAN,
         NEW w, w = PackAll(p, C, tiny)
  PROVE  w \in Seq(Cells) /\ FramesOf(w, p, C, tiny)
<1>1. PICK N \in Nat : N = Len(C)
  OBVIOUS
<1>2. w = [m \in 1..(2 * N) |->
             IF m % 2 = 1
             THEN Cell(p + ((m + 1) \div 2) - 1, "len", <<>>,
                       tiny /\ C[(m + 1) \div 2] = <<>>)
             ELSE Cell(p + ((m + 1) \div 2) - 1, "rest", C[(m + 1) \div 2],
                       tiny /\ C[(m + 1) \div 2] = <<>>)]
  BY <1>1 DEF PackAll
<1>3. ASSUME NEW j \in 1..N
      PROVE  /\ w[2 * j - 1] = Cell(p + j - 1, "len", <<>>, tiny /\ C[j] = <<>>)
             /\ w[2 * j] = Cell(p + j - 1, "rest", C[j], tiny /\ C[j] = <<>>)
  <2>1. PICK a, b : a = 2 * j - 1 /\ b = 2 * j
    OBVIOUS
  <2>2. /\ a \in 1..(2 * N) /\ a % 2 = 1 /\ (a + 1) \div 2 = j
        /\ b \in 1..(2 * N) /\ b % 2 # 1 /\ (b + 1) \div 2 = j
    BY <1>1, <2>1
  <2>3. w[a] = Cell(p + j - 1, "len", <<>>, tiny /\ C[j] = <<>>)
    BY <1>2, <2>2
  <2>4. w[b] = Cell(p + j - 1, "rest", C[j], tiny /\ C[j] = <<>>)
    BY <1>2, <2>2
  <2> QED
    BY <2>1, <2>3, <2>4
<1>4. ASSUME NEW m \in 1..(2 * N) PROVE \E j \in 1..N : m = 2 * j - 1 \/ m = 2 * j
  <2>1. PICK j : j = (m + 1) \div 2
    OBVIOUS
  <2>2. j \in 1..N /\ (m = 2 * j - 1 \/ m = 2 * j)
    BY <1>1, <2>1
  <2> QED
    BY <2>2
<1>5. ASSUME NEW m \in 1..(2 * N) PROVE w[m] \in Cells
  <2>1. PICK j \in 1..N : m = 2 * j - 1 \/ m = 2 * j
    BY <1>4
  <2>2. PICK t, i : t = (tiny /\ C[j] = <<>>) /\ i = p + j - 1
    OBVIOUS
  <2>3. t \in BOOLEAN
    BY <2>2
  <2>4. i \in Nat /\ C[j] \in Seq(Nat) /\ <<>> \in Seq(Nat)
    BY <1>1, <2>2
  <2>5. Cell(i, "len", <<>>, t) \in Cells /\ Cell(i, "rest", C[j], t) \in Cells
    BY <2>3, <2>4, CellType
  <2> QED
    BY <1>3, <2>1, <2>2, <2>5
<1>6. w \in [1..(2 * N) -> Cells]
  <2>1. DOMAIN w = 1..(2 * N) /\ w = [m \in DOMAIN w |-> w[m]]
    BY <1>2
  <2> QED
    BY <1>5, <2>1
<1>7. w \in Seq(Cells) /\ Len(w) = 2 * N
  <2>1. 2 * N \in Nat
    BY <1>1
  <2> QED
    BY <1>6, <2>1
<1> QED
  BY <1>1, <1>3, <1>4, <1>7 DEF FramesOf

\* What was genuine stays so when the stream becomes longer.
LEMMA StaysGenuine ==
  ASSUME NEW q \in Nat, NEW n \in Nat, NEW e, NEW o, NEW g, NEW c, NEW u,
         Extended(e, o, q, g, c, n, u), NEW b, AllGenuine(b, o, q, g)
  PROVE  AllGenuine(b, e, q + n, g \o u)
<1> SUFFICES ASSUME NEW i \in 1..Len(b) PROVE Genuine(b[i], e, q + n, g \o u)
  BY DEF AllGenuine
<1>1. PICK x : x = b[i]
  OBVIOUS
<1>2. Genuine(x, o, q, g)
  BY <1>1 DEF AllGenuine
<1>3. ASSUME x.ok, x.part = "rest"
      PROVE  /\ x.id \in 1..(q + n)
             /\ x.data = SubSeq(g \o u, e[x.id - 1] + 1, e[x.id])
  <2>1. PICK k : k = x.id
    OBVIOUS
  <2>2. k \in 1..q /\ x.data = SubSeq(g, o[k - 1] + 1, o[k])
    BY <1>2, <1>3, <2>1 DEF Genuine
  <2>3. SubSeq(g \o u, e[k - 1] + 1, e[k]) = SubSeq(g, o[k - 1] + 1, o[k])
    BY <2>2 DEF Extended
  <2>4. k \in 1..(q + n)
    BY <2>2
  <2> QED
    BY <2>1, <2>2, <2>3, <2>4
<1>4. ASSUME x.ok, x.part = "body" PROVE x.data = SubSeq(g \o u, 1, e[0])
  BY <1>2, <1>4 DEF Genuine, Extended
<1>5. ASSUME x.ok, x.part = "auth" PROVE x.data = <<>>
  BY <1>2, <1>5 DEF Genuine
<1> QED
  BY <1>1, <1>3, <1>4, <1>5 DEF Genuine

\* The frames that pack_data makes of u are genuine.
LEMMA SentGenuine ==
  ASSUME NEW q \in Nat, NEW e, NEW o, NEW g, NEW c, NEW u, NEW C \in Seq(Seq(Nat)),
         Cut(C, c, u), Extended(e, o, q, g, c, Len(C), u), NEW tiny \in BOOLEAN
  PROVE  AllGenuine(PackAll(q + 1, C, tiny), e, q + Len(C), g \o u)
<1>1. PICK w : w = PackAll(q + 1, C, tiny)
  OBVIOUS
<1>2. /\ \A j \in 1..Len(C) :
              /\ w[2 * j - 1] = Cell((q + 1) + j - 1, "len", <<>>, tiny /\ C[j] = <<>>)
              /\ w[2 * j] = Cell((q + 1) + j - 1, "rest", C[j], tiny /\ C[j] = <<>>)
      /\ \A m \in 1..Len(w) : \E j \in 1..Len(C) : m = 2 * j - 1 \/ m = 2 * j
  <2>1. q + 1 \in Nat
    OBVIOUS
  <2>2. FramesOf(w, q + 1, C, tiny)
    BY <1>1, <2>1, Packing
  <2> QED
    BY <2>2 DEF FramesOf
<1>3. PICK N \in Nat : N = Len(C)
  OBVIOUS
<1>4. ASSUME NEW m \in 1..Len(w) PROVE Genuine(w[m], e, q + N, g \o u)
  <2>1. PICK j \in 1..N : m = 2 * j - 1 \/ m = 2 * j
    BY <1>2, <1>3
  <2>2. PICK x, t : x = w[m] /\ t = (tiny /\ C[j] = <<>>)
    OBVIOUS
  <2>3. CASE m = 2 * j - 1
    <3>1. x = Cell((q + 1) + j - 1, "len", <<>>, t)
      BY <1>2, <1>3, <2>2, <2>3
    <3>2. x.part = "len"
      BY <3>1 DEF Cell
    <3> QED
      BY <2>2, <3>2 DEF Genuine
  <2>4. CASE m = 2 * j
    <3>1. x = Cell((q + 1) + j - 1, "rest", C[j], t)
      BY <1>2, <1>3, <2>2, <2>4
    <3>2. x.part = "rest" /\ x.id = (q + 1) + j - 1 /\ x.data = C[j]
      BY <3>1 DEF Cell
    <3>3. (q + 1) + j - 1 = q + j /\ q + j \in 1..(q + N)
      BY <1>3
    <3>4. C[j] = SubSeq(u, c[j - 1] + 1, c[j])
      BY <1>3 DEF Cut
    <3>5. SubSeq(g \o u, e[(q + j) - 1] + 1, e[q + j]) = SubSeq(u, c[j - 1] + 1, c[j])
      BY <1>3 DEF Extended
    <3>6. x.id = q + j /\ x.data = SubSeq(g \o u, e[(q + j) - 1] + 1, e[q + j])
      BY <3>2, <3>3, <3>4, <3>5
    <3> QED
      BY <2>2, <3>2, <3>3, <3>6 DEF Genuine
  <2> QED
    BY <2>1, <2>3, <2>4
<1> QED
  BY <1>1, <1>3, <1>4 DEF AllGenuine

\* The loop over the frames hands out the next part of the stream.
Unpacked(b, k, d, o, q, g) ==
  /\ k \in Nat /\ 2 * k <= Len(b) /\ d + k \in 0..q
  /\ FlattenSeq(FrameData(b, k)) = SubSeq(g, o[d] + 1, o[d + k])

\* The frames that NumGood counts carry it.
LEMMA Unpacks ==
  ASSUME NEW S, NEW g \in Seq(S), NEW q \in Nat, NEW o, Ends(o, q, g),
         NEW b \in Seq(Cells), AllGenuine(b, o, q, g),
         NEW d \in 0..q, NEW k, k = NumGood(b, d + 1)
  PROVE  Unpacked(b, k, d, o, q, g)
<1>1. PICK L \in Nat : L = Len(b)
  OBVIOUS
<1>2. k \in 0..(L \div 2) /\ \A i \in 1..k : GoodFrame(b, d + 1, i)
  BY <1>1, TakesGood
<1>3. k \in Nat /\ 2 * k <= L
  BY <1>1, <1>2
<1>4. ASSUME NEW i \in 1..k
      PROVE  d + i \in 1..q /\ b[2 * i].data = SubSeq(g, o[(d + i) - 1] + 1, o[d + i])
  <2>1. 2 * i \in 1..L /\ (d + 1) + i - 1 = d + i
    BY <1>3
  <2>2. PICK x : x = b[2 * i]
    OBVIOUS
  <2>3. Fits(x, "rest", d + i)
    BY <1>2, <2>1, <2>2 DEF GoodFrame
  <2>4. Genuine(x, o, q, g)
    BY <1>1, <2>1, <2>2 DEF AllGenuine
  <2>5. x.part = "rest" /\ x.ok /\ x.id = d + i
    BY <2>3 DEF Fits
  <2> QED
    BY <2>2, <2>4, <2>5 DEF Genuine
<1>5. d + k \in 0..q
  <2>1. CASE k = 0
    BY <2>1
  <2>2. CASE k # 0
    BY <1>3, <1>4, <2>2
  <2> QED
    BY <2>1, <2>2
<1>6. o \in [Nat -> Nat] /\ Upward(o, q) /\ o[q] = Len(g)
  BY DEF Ends
<1>7. PICK f : f = [i \in Nat |-> o[d + i]]
  OBVIOUS
<1>8. ASSUME NEW i \in 0..k PROVE f[i] = o[d + i] /\ d + i \in 0..q /\ f[i] \in 0..Len(g)
  <2>1. i \in Nat /\ d + i \in 0..q
    BY <1>3, <1>5
  <2>2. o[d + i] \in 0..o[q]
    BY <1>6, <2>1, Bounded
  <2> QED
    BY <1>6, <1>7, <2>1, <2>2
<1>9. ASSUME NEW i \in 0..k, NEW j \in 0..k, i <= j PROVE f[i] <= f[j]
  <2>1. d + i <= d + j
    BY <1>3, <1>9
  <2>2. o[d + i] <= o[d + j]
    BY <1>6, <1>8, <2>1 DEF Upward
  <2> QED
    BY <1>8, <2>2
<1>10. PICK D : D = FrameData(b, k)
  OBVIOUS
<1>11. D = [i \in 1..k |-> b[2 * i].data]
  BY <1>10 DEF FrameData
<1>12. Len(D) = k
  BY <1>3, <1>11
<1>13. k = 0 => D = <<>>
  BY <1>3, <1>11
<1>14. ASSUME NEW i \in 1..k PROVE D[i] = SubSeq(g, f[i - 1] + 1, f[i])
  <2>1. i \in 0..k /\ i - 1 \in 0..k /\ (d + i) - 1 = d + (i - 1)
    BY <1>3
  <2>2. f[i - 1] = o[(d + i) - 1] /\ f[i] = o[d + i]
    BY <1>8, <2>1
  <2> QED
    BY <1>4, <1>11, <2>2
<1>15. FlattenSeq(D) = SubSeq(g, f[0] + 1, f[k])
  <2>1. \A i \in 0..k : f[i] \in 0..Len(g)
    BY <1>8
  <2>2. \A i, j \in 0..k : i <= j => f[i] <= f[j]
    BY <1>9
  <2>3. \A i \in 1..k : D[i] = SubSeq(g, f[i - 1] + 1, f[i])
    BY <1>14
  <2>4. Adjoining(D, f, k, g)
    BY <1>12, <1>13, <2>1, <2>2, <2>3 DEF Adjoining
  <2> QED
    BY <1>3, <2>4, Together
<1>16. f[0] = o[d] /\ f[k] = o[d + k]
  BY <1>3, <1>7
<1> QED
  BY <1>1, <1>3, <1>5, <1>10, <1>15, <1>16 DEF Unpacked

\* A part of what is genuine is, and so are two such sequences together.
LEMMA PartGenuine ==
  ASSUME NEW b \in Seq(Cells), NEW o, NEW q, NEW g, AllGenuine(b, o, q, g),
         NEW x \in Nat, NEW y \in Nat, y <= Len(b)
  PROVE  SubSeq(b, x + 1, y) \in Seq(Cells) /\ AllGenuine(SubSeq(b, x + 1, y), o, q, g)
<1>1. PICK s : s = SubSeq(b, x + 1, y)
  OBVIOUS
<1>2. /\ s \in Seq(Cells) /\ Len(s) = IF x <= y THEN y - x ELSE 0
      /\ \A i \in 1..(y - x) : s[i] = b[x + i]
  BY <1>1, PartIsSeq
<1>3. ASSUME NEW i \in 1..Len(s) PROVE Genuine(s[i], o, q, g)
  <2>1. i \in 1..(y - x) /\ x + i \in 1..Len(b)
    BY <1>2
  <2>2. Genuine(b[x + i], o, q, g)
    BY <2>1 DEF AllGenuine
  <2> QED
    BY <1>2, <2>1, <2>2
<1> QED
  BY <1>1, <1>2, <1>3 DEF AllGenuine

\* Genuine cells behind genuine cells.
LEMMA JoinGenuine ==
  ASSUME NEW b \in Seq(Cells), NEW a \in Seq(Cells), NEW o, NEW q, NEW g,
         AllGenuine(a, o, q, g), AllGenuine(b, o, q, g)
  PROVE  a \o b \in Seq(Cells) /\ AllGenuine(a \o b, o, q, g)
<1>1. PICK s : s = a \o b
  OBVIOUS
<1>2. /\ s \in Seq(Cells) /\ Len(s) = Len(a) + Len(b)
      /\ \A i \in 1..(Len(a) + Len(b)) : s[i] = IF i <= Len(a) THEN a[i] ELSE b[i - Len(a)]
  BY <1>1, ConcatProperties
<1>3. ASSUME NEW i \in 1..Len(s) PROVE Genuine(s[i], o, q, g)
  <2>1. CASE i <= Len(a)
    <3>1. i \in 1..Len(a) /\ s[i] = a[i]
      BY <1>2, <2>1
    <3> QED
      BY <3>1 DEF AllGenuine
  <2>2. CASE ~(i <= Len(a))
    <3>1. i - Len(a) \in 1..Len(b) /\ s[i] = b[i - Len(a)]
      BY <1>2, <2>2
    <3> QED
      BY <3>1 DEF AllGenuine
  <2> QED
    BY <2>1, <2>2
<1> QED
  BY <1>1, <1>2, <1>3 DEF AllGenuine

\* The network adds nothing genuine of its own.
LEMMA AlteredGenuine ==
  ASSUME NEW w \in Seq(Cells), NEW o, NEW q, NEW g, AllGenuine(w, o, q, g),
         NEW v \in Altered(w)
  PROVE  v \in Seq(Cells) /\ AllGenuine(v, o, q, g)
<1>1. PICK L \in Nat : L = Len(w)
  OBVIOUS
<1>2. ASSUME NEW i \in 1..L, v = [w EXCEPT ![i].ok = FALSE]
      PROVE  v \in Seq(Cells) /\ AllGenuine(v, o, q, g)
  <2>1. PICK e : e = [w[i] EXCEPT !.ok = FALSE]
    OBVIOUS
  <2>2. w[i] \in Cells
    BY <1>1
  <2>3. e \in Cells /\ e.ok = FALSE
    BY <2>1, <2>2 DEF Cells
  <2>4. v = [w EXCEPT ![i] = e]
    BY <1>2, <2>1
  <2>5. /\ v \in Seq(Cells) /\ Len(v) = L
        /\ \A j \in 1..L : v[j] = IF j = i THEN e ELSE w[j]
    BY <1>1, <2>3, <2>4, ExceptSeq
  <2>6. Genuine(e, o, q, g)
    BY <2>3 DEF Genuine
  <2>7. \A j \in 1..L : Genuine(v[j], o, q, g)
    BY <1>1, <2>5, <2>6 DEF AllGenuine
  <2> QED
    BY <2>5, <2>7 DEF AllGenuine
<1>3. ASSUME NEW i \in 1..L, i < L,
             \/ v = SubSeq(w, 1, i - 1) \o SubSeq(w, i + 2, L)
             \/ v = SubSeq(w, 1, i + 1) \o SubSeq(w, i, L)
      PROVE  v \in Seq(Cells) /\ AllGenuine(v, o, q, g)
  <2>1. \A x, y \in Nat : y <= L => /\ SubSeq(w, x + 1, y) \in Seq(Cells)
                                    /\ AllGenuine(SubSeq(w, x + 1, y), o, q, g)
    BY <1>1, PartGenuine
  <2>2. /\ 0 \in Nat /\ i - 1 \in Nat /\ i - 1 <= L /\ i + 1 \in Nat /\ i + 1 <= L
        /\ L \in Nat /\ L <= L /\ 0 + 1 = 1 /\ (i + 1) + 1 = i + 2 /\ (i - 1) + 1 = i
    BY <1>1, <1>3
  <2>3. \A x, y \in Nat : y <= L => SubSeq(w, x + 1, y) \in Seq(Cells)
    BY <2>1
  <2>4. \A x, y \in Nat : y <= L => AllGenuine(SubSeq(w, x + 1, y), o, q, g)
    BY <2>1
  <2>5. /\ SubSeq(w, 0 + 1, i - 1) \in Seq(Cells)
        /\ SubSeq(w, (i + 1) + 1, L) \in Seq(Cells)
        /\ SubSeq(w, 0 + 1, i + 1) \in Seq(Cells)
        /\ SubSeq(w, (i - 1) + 1, L) \in Seq(Cells)
    BY <2>2, <2>3
  <2>6. /\ AllGenuine(SubSeq(w, 0 + 1, i - 1), o, q, g)
        /\ AllGenuine(SubSeq(w, (i + 1) + 1, L), o, q, g)
        /\ AllGenuine(SubSeq(w, 0 + 1, i + 1), o, q, g)
        /\ AllGenuine(SubSeq(w, (i - 1) + 1, L), o, q, g)
    BY <2>2, <2>4
  <2>7. /\ SubSeq(w, 1, i - 1) \in Seq(Cells) /\ SubSeq(w, i + 2, L) \in Seq(Cells)
        /\ SubSeq(w, 1, i + 1) \in Seq(Cells) /\ SubSeq(w, i, L) \in Seq(Cells)
    BY <2>2, <2>5
  <2>8. /\ AllGenuine(SubSeq(w, 1, i - 1), o, q, g)
        /\ AllGenuine(SubSeq(w, i + 2, L), o, q, g)
        /\ AllGenuine(SubSeq(w, 1, i + 1), o, q, g)
        /\ AllGenuine(SubSeq(w, i, L), o, q, g)
    BY <2>2, <2>6
  <2>9. PICK a, b, c, d : /\ a = SubSeq(w, 1, i - 1) /\ b = SubSeq(w, i + 2, L)
                          /\ c = SubSeq(w, 1, i + 1) /\ d = SubSeq(w, i, L)
    OBVIOUS
  <2>10. a \o b \in Seq(Cells) /\ AllGenuine(a \o b, o, q, g)
    BY <2>7, <2>8, <2>9, JoinGenuine
  <2>11. c \o d \in Seq(Cells) /\ AllGenuine(c \o d, o, q, g)
    BY <2>7, <2>8, <2>9, JoinGenuine
  <2> QED
    BY <1>3, <2>9, <2>10, <2>11
<1>4. \/ \E i \in 1..L : v = [w EXCEPT ![i].ok = FALSE]
      \/ \E i \in 1..L : /\ i < L
                         /\ \/ v = SubSeq(w, 1, i - 1) \o SubSeq(w, i + 2, L)
                            \/ v = SubSeq(w, 1, i + 1) \o SubSeq(w, i, L)
  BY <1>1 DEF Altered, FrameAt
<1> QED
  BY <1>2, <1>3, <1>4

\* The chunks of a sequence of units.
LEMMA ChunksType ==
  ASSUME NEW S, NEW u \in Seq(S)
  PROVE  Chunks(u) \in Seq(Seq(S))
<1>1. CASE u = <<>>
  <2>1. <<>> \in Seq(S)
    OBVIOUS
  <2>2. << <<>> >> \in Seq(Seq(S))
    BY <2>1
  <2> QED
    BY <1>1, <2>2 DEF Chunks
<1>2. CASE u # <<>>
  <2>1. ASSUME NEW j \in 1..Len(u) PROVE <<u[j]>> \in Seq(S)
    OBVIOUS
  <2>2. [j \in 1..Len(u) |-> <<u[j]>>] \in [1..Len(u) -> Seq(S)]
    BY <2>1
  <2>3. Len(u) \in Nat
    OBVIOUS
  <2> QED
    BY <1>2, <2>2, <2>3 DEF Chunks
<1> QED
  BY <1>1, <1>2

-----------------------------------------------------------------------------
(* The two directions: how what was given, what is on its way and what was *)
(* handed out are related.                                                 *)

\* The units in front of the stream when frame j is out: the MSS of auth_chain.
Mss(ch, j) == IF ch /\ j > 0 THEN 1 ELSE 0

\* The stream as it goes into the q frames of the server.
Framed(ch, q, g) == IF ch /\ q > 0 THEN <<MSS>> \o g ELSE g

\* The client has cut what it was given, g, into a header and q frames; what is
\* on its way (w) or kept (rb) is genuine; and the server, which has taken d
\* frames, and the header if hd, has handed out exactly what they carry.
UpRel(o, q, g, ch, rb, w, d, hd, got) ==
  /\ Ends(o, q, g) /\ AllGenuine(rb, o, q, g) /\ AllGenuine(w, o, q, g)
  /\ d \in 0..q /\ (~hd => d = 0)
  /\ ch => o[0] = 0
  /\ got = IF hd THEN SubSeq(g, 1, o[d]) ELSE <<>>

\* The same for the way back, where the MSS is part of the frames but not of what
\* was given or is handed out.
DownRel(o, q, g, ch, rb, w, d, got) ==
  /\ Ends(o, q, Framed(ch, q, g)) /\ o[0] = 0
  /\ AllGenuine(rb, o, q, Framed(ch, q, g)) /\ AllGenuine(w, o, q, Framed(ch, q, g))
  /\ d \in 0..q
  /\ q = 0 => g = <<>>
  /\ ch /\ q > 0 => o[1] >= 1
  /\ got = SubSeq(g, 1, o[d] - Mss(ch, d))

\* server_post_decrypt: what it hands out is the next part of the stream.
HandsUp(o, q, g, ch, b, k, v, d, got, units) ==
  /\ k \in Nat /\ SubSeq(b, 2 * k + 1, Len(b)) \in Seq(Cells)
  /\ UpRel(o, q, g, ch, SubSeq(b, 2 * k + 1, Len(b)), v, d + k, TRUE, got \o units)
  /\ Grows(got, got \o units, g)

\* It does, whatever the pieces are.
LEMMA UpGets ==
  ASSUME NEW S, NEW g \in Seq(S), NEW q \in Nat, NEW o, NEW ch, NEW rb, NEW w,
         NEW d, NEW hd \in BOOLEAN, NEW got, UpRel(o, q, g, ch, rb, w, d, hd, got),
         NEW b \in Seq(Cells), AllGenuine(b, o, q, g), NEW k, k = NumGood(b, d + 1),
         NEW v, AllGenuine(v, o, q, g),
         NEW head, head = IF hd THEN <<>> ELSE SubSeq(g, 1, o[0])
  PROVE  HandsUp(o, q, g, ch, b, k, v, d, got, head \o FlattenSeq(FrameData(b, k)))
<1>1. /\ Ends(o, q, g) /\ d \in 0..q /\ (~hd => d = 0) /\ (ch => o[0] = 0)
      /\ got = IF hd THEN SubSeq(g, 1, o[d]) ELSE <<>>
  BY DEF UpRel
<1>2. PICK f : f = FlattenSeq(FrameData(b, k))
  OBVIOUS
<1>3. /\ k \in Nat /\ 2 * k <= Len(b) /\ d + k \in 0..q
      /\ f = SubSeq(g, o[d] + 1, o[d + k])
  <2>1. Unpacked(b, k, d, o, q, g)
    BY <1>1, Unpacks
  <2> QED
    BY <1>2, <2>1 DEF Unpacked
<1>4. /\ SubSeq(b, 2 * k + 1, Len(b)) \in Seq(Cells)
      /\ AllGenuine(SubSeq(b, 2 * k + 1, Len(b)), o, q, g)
  <2>1. 2 * k \in Nat /\ Len(b) \in Nat /\ Len(b) <= Len(b)
    BY <1>3
  <2> QED
    BY <2>1, PartGenuine
<1>5. PICK x, y : x = o[d] /\ y = o[d + k]
  OBVIOUS
<1>6. x \in 0..Len(g) /\ y \in x..Len(g)
  <2>1. o \in [Nat -> Nat] /\ Upward(o, q) /\ o[q] = Len(g)
    BY <1>1 DEF Ends
  <2>2. d <= d + k
    BY <1>1, <1>3
  <2>3. x <= y
    BY <1>1, <1>3, <1>5, <2>1, <2>2 DEF Upward
  <2>4. x \in 0..Len(g) /\ y \in 0..Len(g)
    BY <1>1, <1>3, <1>5, <2>1, Bounded
  <2> QED
    BY <2>3, <2>4
<1>7. SubSeq(g, 1, x) \o SubSeq(g, x + 1, y) = SubSeq(g, 1, y)
  <2>1. 1 \in 1..Len(g) + 1 /\ x \in 1 - 1..Len(g) /\ y \in x..Len(g)
    BY <1>6
  <2> QED
    BY <2>1, ConcatAdjacentSubSeq
<1>8. got \o (head \o f) = SubSeq(g, 1, y)
  <2>0. SubSeq(g, 1, x) \in Seq(S) /\ SubSeq(g, x + 1, y) \in Seq(S) /\ <<>> \in Seq(S)
        /\ SubSeq(g, 1, y) \in Seq(S)
    <3>1. x \in Nat /\ y \in Nat /\ x <= Len(g) /\ y <= Len(g) /\ 0 \in Nat /\ 0 + 1 = 1
      BY <1>6
    <3>2. SubSeq(g, 0 + 1, x) \in Seq(S) /\ SubSeq(g, 0 + 1, y) \in Seq(S)
          /\ SubSeq(g, x + 1, y) \in Seq(S)
      BY <3>1, PartIsSeq
    <3> QED
      BY <3>1, <3>2
  <2>1. CASE hd
    <3>1. head = <<>> /\ got = SubSeq(g, 1, x)
      BY <1>1, <1>5, <2>1
    <3>2. head \o f = SubSeq(g, x + 1, y)
      BY <1>3, <1>5, <2>0, <3>1, ConcatEmptySeq
    <3> QED
      BY <1>7, <3>1, <3>2
  <2>2. CASE ~hd
    <3>1. head = SubSeq(g, 1, x) /\ got = <<>>
      BY <1>1, <1>5, <2>2
    <3>2. head \o f = SubSeq(g, 1, y)
      BY <1>3, <1>5, <1>7, <3>1
    <3> QED
      BY <2>0, <3>1, <3>2, ConcatEmptySeq
  <2> QED
    BY <2>1, <2>2
<1>9. UpRel(o, q, g, ch, SubSeq(b, 2 * k + 1, Len(b)), v, d + k, TRUE, got \o (head \o f))
  BY <1>1, <1>3, <1>4, <1>5, <1>8 DEF UpRel
<1>10. Grows(got, got \o (head \o f), g)
  <2>1. x \in Nat /\ y \in Nat /\ x <= y /\ y <= Len(g) /\ 0 \in Nat /\ 0 <= y
    BY <1>6
  <2>2. CASE hd
    <3>1. got = SubSeq(g, 1, x)
      BY <1>1, <1>5, <2>2
    <3> QED
      BY <1>8, <2>1, <3>1, Longer
  <2>3. CASE ~hd
    <3>1. got = <<>> /\ SubSeq(g, 1, 0) = <<>>
      BY <1>1, <2>3, SubSeqEmpty
    <3> QED
      BY <1>8, <2>1, <3>1, Longer
  <2> QED
    BY <2>2, <2>3
<1> QED
  BY <1>2, <1>3, <1>4, <1>9, <1>10 DEF HandsUp

\* client_pre_encrypt after the header: the stream becomes longer by u.
SentUp(q, g, ch, rb, w, d, hd, got, u, C, tiny) ==
  \E e : UpRel(e, q + Len(C), g \o u, ch, rb, w \o PackAll(q + 1, C, tiny), d, hd, got)

\* And the relation holds of it.
LEMMA UpSends ==
  ASSUME NEW g \in Seq(Nat), NEW q \in Nat, NEW o, NEW ch, NEW rb,
         NEW w \in Seq(Cells), NEW d, NEW hd \in BOOLEAN, NEW got,
         UpRel(o, q, g, ch, rb, w, d, hd, got),
         NEW u \in Seq(Nat), NEW C \in Seq(Seq(Nat)), NEW c, Cut(C, c, u),
         NEW tiny \in BOOLEAN
  PROVE  SentUp(q, g, ch, rb, w, d, hd, got, u, C, tiny)
<1>1. /\ Ends(o, q, g) /\ d \in 0..q /\ (~hd => d = 0) /\ (ch => o[0] = 0)
      /\ got = IF hd THEN SubSeq(g, 1, o[d]) ELSE <<>>
      /\ AllGenuine(rb, o, q, g) /\ AllGenuine(w, o, q, g)
  BY DEF UpRel
<1>2. PICK n : n = Len(C)
  OBVIOUS
<1>3. n \in Nat /\ Ends(c, n, u) /\ c[0] = 0
  BY <1>2 DEF Cut
<1>4. PICK e : Extended(e, o, q, g, c, n, u)
  BY <1>1, <1>3, Extend
<1>5. PICK p : p = PackAll(q + 1, C, tiny)
  OBVIOUS
<1>6. p \in Seq(Cells) /\ AllGenuine(p, e, q + n, g \o u)
  <2>1. q + 1 \in Nat
    OBVIOUS
  <2>2. p \in Seq(Cells)
    BY <1>5, <2>1, Packing
  <2>3. AllGenuine(p, e, q + n, g \o u)
    BY <1>2, <1>4, <1>5, SentGenuine
  <2> QED
    BY <2>2, <2>3
<1>7. AllGenuine(w, e, q + n, g \o u) /\ AllGenuine(rb, e, q + n, g \o u)
  BY <1>1, <1>3, <1>4, StaysGenuine
<1>8. AllGenuine(w \o p, e, q + n, g \o u)
  BY <1>6, <1>7, JoinGenuine
<1>9. SubSeq(g \o u, 1, e[d]) = SubSeq(g, 1, o[d]) /\ e[0] = o[0]
  <2>1. 0 \in 0..q
    OBVIOUS
  <2>2. e[d] = o[d] /\ e[0] = o[0]
    BY <1>1, <1>4, <2>1 DEF Extended
  <2>3. o[d] \in 0..Len(g)
    BY <1>1, Bounded DEF Ends
  <2>4. PICK x : x = o[d]
    OBVIOUS
  <2>5. x \in Nat /\ x <= Len(g) /\ 0 + 1 = 1 /\ 0 \in Nat
    BY <2>3, <2>4
  <2>6. SubSeq(g \o u, 0 + 1, x) = SubSeq(g, 0 + 1, x)
    BY <2>5, PartLeft
  <2> QED
    BY <2>2, <2>4, <2>5, <2>6
<1>10. d \in 0..(q + n)
  BY <1>1, <1>3
<1>11. Ends(e, q + n, g \o u)
  BY <1>4 DEF Extended
<1>12. UpRel(e, q + n, g \o u, ch, rb, w \o p, d, hd, got)
  BY <1>1, <1>7, <1>8, <1>9, <1>10, <1>11 DEF UpRel
<1> QED
  BY <1>2, <1>5, <1>12 DEF SentUp

\* What was handed out before the MSS counts.
LEMMA DownBounds ==
  ASSUME NEW g \in Seq(Nat), NEW q \in Nat, NEW o, NEW ch \in BOOLEAN,
         Ends(o, q, Framed(ch, q, g)), o[0] = 0, ch /\ q > 0 => o[1] >= 1,
         NEW j \in 0..q
  PROVE  /\ Framed(ch, q, g) \in Seq(Nat)
         /\ Len(Framed(ch, q, g)) = Len(g) + Mss(ch, q)
         /\ o[j] \in Nat /\ o[j] <= Len(g) + Mss(ch, q)
         /\ o[j] - Mss(ch, j) \in Nat /\ o[j] - Mss(ch, j) <= Len(g)
<1>1. PICK F : F = Framed(ch, q, g)
  OBVIOUS
<1>2. F \in Seq(Nat) /\ Len(F) = Len(g) + Mss(ch, q)
  <2>1. CASE ch /\ q > 0
    <3>1. <<MSS>> \in Seq(Nat) /\ Len(<<MSS>>) = 1
      BY DEF MSS
    <3>2. <<MSS>> \o g \in Seq(Nat) /\ Len(<<MSS>> \o g) = 1 + Len(g)
      BY <3>1, ConcatProperties
    <3>3. Len(g) \in Nat
      OBVIOUS
    <3> QED
      BY <1>1, <2>1, <3>2, <3>3 DEF Framed, Mss
  <2>2. CASE ~(ch /\ q > 0)
    BY <1>1, <2>2 DEF Framed, Mss
  <2> QED
    BY <2>1, <2>2
<1>3. o \in [Nat -> Nat] /\ Upward(o, q) /\ o[q] = Len(g) + Mss(ch, q)
  BY <1>1, <1>2 DEF Ends
<1>4. o[j] \in 0..o[q]
  BY <1>3, Bounded
<1>5. PICK G, x, m, z : G = Len(g) /\ x = o[j] /\ m = Mss(ch, q) /\ z = Mss(ch, j)
  OBVIOUS
<1>6. G \in Nat /\ m \in {0, 1} /\ z \in {0, 1} /\ x \in 0..(G + m)
  BY <1>3, <1>4, <1>5 DEF Mss
<1>7. x - z \in Nat /\ x - z <= G
  <2>1. CASE j = 0
    BY <1>5, <1>6, <2>1 DEF Mss
  <2>2. CASE j > 0 /\ ~ch
    BY <1>5, <1>6, <2>2 DEF Mss
  <2>3. CASE j > 0 /\ ch
    <3>1. q > 0 /\ 1 \in 0..q /\ 1 <= j
      BY <2>3
    <3>2. o[1] <= o[j] /\ o[1] \in Nat /\ o[1] >= 1
      BY <1>3, <2>3, <3>1 DEF Upward
    <3>3. z = 1 /\ m = 1
      BY <1>5, <2>3, <3>1 DEF Mss
    <3>4. x >= 1
      BY <1>5, <1>6, <3>2
    <3> QED
      BY <1>6, <3>3, <3>4
  <2> QED
    BY <2>1, <2>2, <2>3
<1> QED
  BY <1>1, <1>2, <1>5, <1>6, <1>7

\* Joining three sequences of numbers, in either order.
LEMMA NumbersJoin ==
  ASSUME NEW a \in Seq(Nat), NEW b \in Seq(Nat), NEW c \in Seq(Nat)
  PROVE  (a \o b) \o c = a \o (b \o c)
BY ConcatAssociative

\* server_pre_encrypt: the MSS goes first, once.
SentDown(q, g, ch, rb, w, d, got, buf, C, tiny) ==
  \E e : DownRel(e, q + Len(C), g \o buf, ch, rb, w \o PackAll(q + 1, C, tiny), d, got)

\* What server_pre_encrypt makes of buf is a sequence of cells, and it follows.
Sending(q, g, ch, rb, w, d, got, buf, C, tiny) ==
  /\ C \in Seq(Seq(Nat)) /\ Len(C) \in Nat \ {0}
  /\ PackAll(q + 1, C, tiny) \in Seq(Cells)
  /\ SentDown(q, g, ch, rb, w, d, got, buf, C, tiny)

\* The relation holds of the longer stream.
LEMMA DownSends ==
  ASSUME NEW g \in Seq(Nat), NEW q \in Nat, NEW o, NEW ch \in BOOLEAN, NEW rb,
         NEW w \in Seq(Cells), NEW d, NEW got,
         DownRel(o, q, g, ch, rb, w, d, got),
         NEW buf \in Seq(Nat), NEW C,
         C = IF ch /\ q = 0
             THEN <<<<MSS>> \o Chunks(buf)[1]>> \o Tail(Chunks(buf))
             ELSE Chunks(buf),
         NEW tiny \in BOOLEAN
  PROVE  Sending(q, g, ch, rb, w, d, got, buf, C, tiny)
<1>1. PICK F : F = Framed(ch, q, g)
  OBVIOUS
<1>2. /\ Ends(o, q, F) /\ o[0] = 0 /\ d \in 0..q /\ (q = 0 => g = <<>>)
      /\ (ch /\ q > 0 => o[1] >= 1) /\ got = SubSeq(g, 1, o[d] - Mss(ch, d))
      /\ AllGenuine(rb, o, q, F) /\ AllGenuine(w, o, q, F)
  BY <1>1 DEF DownRel
<1>3. F \in Seq(Nat) /\ o[d] - Mss(ch, d) \in Nat /\ o[d] - Mss(ch, d) <= Len(g)
  BY <1>1, <1>2, DownBounds
<1>4. PICK u : u = IF ch /\ q = 0 THEN <<MSS>> \o buf ELSE buf
  OBVIOUS
<1>5. <<MSS>> \in Seq(Nat) /\ Len(<<MSS>>) = 1
  BY DEF MSS
<1>6. u \in Seq(Nat)
  BY <1>4, <1>5
<1>7. PICK B : B = Chunks(buf)
  OBVIOUS
<1>8. PICK bc : Cut(B, bc, buf)
  BY <1>7, ChunksCut
<1>9. B \in Seq(Seq(Nat)) /\ Len(B) \in Nat \ {0} /\ B # <<>> /\ B[1] \in Seq(Nat)
  <2>1. B \in Seq(Seq(Nat))
    BY <1>7, ChunksType
  <2>2. Len(B) \in Nat \ {0}
    BY <1>8 DEF Cut
  <2> QED
    BY <2>1, <2>2
<1>10. C \in Seq(Seq(Nat))
  <2>1. CASE ch /\ q = 0
    <3>1. <<MSS>> \o B[1] \in Seq(Nat)
      BY <1>5, <1>9
    <3>2. <<<<MSS>> \o B[1]>> \in Seq(Seq(Nat))
      BY <3>1
    <3>3. Tail(B) \in Seq(Seq(Nat))
      BY <1>9, HeadTailProperties
    <3>4. <<<<MSS>> \o B[1]>> \o Tail(B) \in Seq(Seq(Nat))
      BY <3>2, <3>3, ConcatProperties
    <3> QED
      BY <1>7, <2>1, <3>4
  <2>2. CASE ~(ch /\ q = 0)
    BY <1>7, <1>9, <2>2
  <2> QED
    BY <2>1, <2>2
<1>11. PICK c : Cut(C, c, u) /\ (ch /\ q = 0 => c[1] >= 1)
  <2>1. CASE ch /\ q = 0
    <3>1. \E c : Cut(<<<<MSS>> \o B[1]>> \o Tail(B), c, <<MSS>> \o buf) /\ c[1] >= Len(<<MSS>>)
      BY <1>5, <1>8, <1>9, LongerCut
    <3>2. C = <<<<MSS>> \o B[1]>> \o Tail(B) /\ u = <<MSS>> \o buf
      BY <1>4, <1>7, <2>1
    <3> QED
      BY <1>5, <3>1, <3>2
  <2>2. CASE ~(ch /\ q = 0)
    BY <1>4, <1>7, <1>8, <2>2
  <2> QED
    BY <2>1, <2>2
<1>12. PICK n : n = Len(C)
  OBVIOUS
<1>13. n \in Nat \ {0} /\ Ends(c, n, u) /\ c[0] = 0
  BY <1>11, <1>12 DEF Cut
<1>14. n \in Nat
  BY <1>13
<1>15. PICK e : Extended(e, o, q, F, c, n, u)
  BY <1>2, <1>3, <1>6, <1>13, <1>14, Extend
<1>16. Framed(ch, q + n, g \o buf) = F \o u
  <2>1. CASE ~ch
    BY <1>1, <1>4, <2>1 DEF Framed
  <2>2. CASE ch /\ q = 0
    <3>1. Framed(ch, q + n, g \o buf) = <<MSS>> \o (g \o buf)
      BY <1>13, <2>2 DEF Framed
    <3>2. g = <<>> /\ F = <<>> /\ u = <<MSS>> \o buf
      BY <1>1, <1>2, <1>4, <2>2 DEF Framed
    <3>3. g \o buf = buf /\ F \o u = u
      BY <1>6, <3>2, ConcatEmptySeq
    <3> QED
      BY <3>1, <3>2, <3>3
  <2>3. CASE ch /\ q > 0
    <3>1. Framed(ch, q + n, g \o buf) = <<MSS>> \o (g \o buf)
      BY <1>13, <2>3 DEF Framed
    <3>2. F = <<MSS>> \o g /\ u = buf
      BY <1>1, <1>4, <2>3 DEF Framed
    <3>3. PICK a \in Seq(Nat) : a = <<MSS>>
      BY <1>5
    <3>4. (a \o g) \o buf = a \o (g \o buf)
      BY NumbersJoin, Zenon
    <3> QED
      BY <3>1, <3>2, <3>3, <3>4
  <2> QED
    BY <2>1, <2>2, <2>3
<1>17. PICK p : p = PackAll(q + 1, C, tiny)
  OBVIOUS
<1>18. p \in Seq(Cells) /\ AllGenuine(p, e, q + n, F \o u)
  <2>1. q + 1 \in Nat
    OBVIOUS
  <2>2. p \in Seq(Cells)
    BY <1>10, <1>17, <2>1, Packing
  <2>3. AllGenuine(p, e, q + n, F \o u)
    BY <1>10, <1>11, <1>12, <1>15, <1>17, SentGenuine
  <2> QED
    BY <2>2, <2>3
<1>19. AllGenuine(w, e, q + n, F \o u) /\ AllGenuine(rb, e, q + n, F \o u)
  BY <1>2, <1>14, <1>15, StaysGenuine
<1>20. AllGenuine(w \o p, e, q + n, F \o u)
  BY <1>18, <1>19, JoinGenuine
<1>21. e[d] = o[d] /\ e[0] = 0
  <2>1. 0 \in 0..q
    OBVIOUS
  <2> QED
    BY <1>2, <1>15, <2>1 DEF Extended
<1>22. got = SubSeq(g \o buf, 1, e[d] - Mss(ch, d))
  <2>1. PICK x : x = o[d] - Mss(ch, d)
    OBVIOUS
  <2>2. x \in Nat /\ x <= Len(g) /\ 0 \in Nat /\ 0 + 1 = 1
    BY <1>3, <2>1
  <2>3. SubSeq(g \o buf, 0 + 1, x) = SubSeq(g, 0 + 1, x)
    BY <2>2, PartLeft
  <2> QED
    BY <1>2, <1>21, <2>1, <2>2, <2>3
<1>23. ch => e[1] >= 1
  <2>1. CASE ch /\ q > 0
    <3>1. 1 \in 0..q
      BY <2>1
    <3> QED
      BY <1>2, <1>15, <2>1, <3>1 DEF Extended
  <2>2. CASE ch /\ q = 0
    <3>1. 1 \in 0..n /\ c[1] >= 1 /\ c[1] \in Nat
      BY <1>11, <1>13, <2>2 DEF Ends
    <3>2. e[q + 1] = o[q] + c[1]
      BY <1>15, <3>1 DEF Extended
    <3>3. q + 1 = 1 /\ o[q] = 0
      BY <1>2, <2>2
    <3> QED
      BY <3>1, <3>2, <3>3
  <2>3. q > 0 \/ q = 0
    OBVIOUS
  <2> QED
    BY <2>1, <2>2, <2>3
<1>24. d \in 0..(q + n) /\ q + n # 0
  BY <1>2, <1>13
<1>25. Ends(e, q + n, F \o u)
  BY <1>15 DEF Extended
<1>26. DownRel(e, q + n, g \o buf, ch, rb, w \o p, d, got)
  BY <1>16, <1>19, <1>20, <1>21, <1>22, <1>23, <1>24, <1>25 DEF DownRel
<1> QED
  BY <1>10, <1>12, <1>13, <1>17, <1>18, <1>26 DEF SentDown, Sending

\* The part of the stream behind the MSS.
LEMMA BehindMSS ==
  ASSUME NEW g \in Seq(Nat), NEW x \in Nat, NEW y \in Nat, y <= Len(g),
         NEW F, F = <<MSS>> \o g
  PROVE  SubSeq(F, (1 + x) + 1, 1 + y) = SubSeq(g, x + 1, y)
<1>1. <<MSS>> \in Seq(Nat) /\ Len(<<MSS>>) = 1
  BY DEF MSS
<1>2. SamePart(<<MSS>>, g, x, y, Len(<<MSS>>))
  BY <1>1, PartRight
<1> QED
  BY <1>1, <1>2 DEF SamePart

\* client_post_decrypt: what it hands out is the next part of the stream.
HandsDown(o, q, g, ch, b, k, v, d, got, units) ==
  /\ k \in Nat /\ SubSeq(b, 2 * k + 1, Len(b)) \in Seq(Cells)
  /\ DownRel(o, q, g, ch, SubSeq(b, 2 * k + 1, Len(b)), v, d + k, got \o units)
  /\ Grows(got, got \o units, g)

\* It does, and takes the MSS off the first frame.
LEMMA DownGets ==
  ASSUME NEW g \in Seq(Nat), NEW q \in Nat, NEW o, NEW ch \in BOOLEAN, NEW rb,
         NEW w, NEW d, NEW got, DownRel(o, q, g, ch, rb, w, d, got),
         NEW b \in Seq(Cells), AllGenuine(b, o, q, Framed(ch, q, g)),
         NEW k, k = NumGood(b, d + 1),
         NEW v, AllGenuine(v, o, q, Framed(ch, q, g)),
         NEW f, f = FlattenSeq(FrameData(b, k)),
         NEW r, r = IF ch /\ d = 0 /\ k > 0 THEN Tail(f) ELSE f
  PROVE  HandsDown(o, q, g, ch, b, k, v, d, got, r)
<1>1. PICK F : F = Framed(ch, q, g)
  OBVIOUS
<1>2. /\ Ends(o, q, F) /\ o[0] = 0 /\ d \in 0..q /\ (q = 0 => g = <<>>)
      /\ (ch /\ q > 0 => o[1] >= 1) /\ got = SubSeq(g, 1, o[d] - Mss(ch, d))
  BY <1>1 DEF DownRel
<1>3. \A j \in 0..q : /\ o[j] \in Nat /\ o[j] <= Len(g) + Mss(ch, q)
                      /\ o[j] - Mss(ch, j) \in Nat /\ o[j] - Mss(ch, j) <= Len(g)
  BY <1>1, <1>2, DownBounds
<1>4. F \in Seq(Nat) /\ Len(F) = Len(g) + Mss(ch, q)
  BY <1>1, <1>2, DownBounds
<1>5. /\ k \in Nat /\ 2 * k <= Len(b) /\ d + k \in 0..q
      /\ f = SubSeq(F, o[d] + 1, o[d + k])
  <2>1. Unpacked(b, k, d, o, q, F)
    BY <1>1, <1>2, <1>4, Unpacks
  <2> QED
    BY <2>1 DEF Unpacked
<1>6. /\ SubSeq(b, 2 * k + 1, Len(b)) \in Seq(Cells)
      /\ AllGenuine(SubSeq(b, 2 * k + 1, Len(b)), o, q, F)
  <2>1. 2 * k \in Nat /\ Len(b) \in Nat /\ Len(b) <= Len(b)
    BY <1>5
  <2> QED
    BY <1>1, <2>1, PartGenuine
<1>7. PICK x, y, mx, my : /\ x = o[d] /\ y = o[d + k]
                          /\ mx = Mss(ch, d) /\ my = Mss(ch, d + k)
  OBVIOUS
<1>8. /\ x \in Nat /\ y \in Nat /\ x <= y /\ mx \in {0, 1} /\ my \in {0, 1}
      /\ x - mx \in Nat /\ y - my \in Nat /\ y - my <= Len(g) /\ x - mx <= Len(g)
  <2>1. d <= d + k
    BY <1>2, <1>5
  <2>2. x <= y
    BY <1>2, <1>5, <1>7, <2>1 DEF Ends, Upward
  <2>3. mx \in {0, 1} /\ my \in {0, 1}
    BY <1>7 DEF Mss
  <2> QED
    BY <1>2, <1>3, <1>5, <1>7, <2>2, <2>3
<1>9. r = SubSeq(g, (x - mx) + 1, y - my) /\ x - mx <= y - my
  <2>1. CASE ~ch
    <3>1. mx = 0 /\ my = 0 /\ F = g /\ r = f
      BY <1>1, <1>7, <2>1 DEF Mss, Framed
    <3>2. x - 0 = x /\ y - 0 = y
      BY <1>8
    <3> QED
      BY <1>5, <1>7, <1>8, <3>1, <3>2
  <2>2. CASE ch /\ d = 0 /\ k = 0
    <3>1. mx = 0 /\ my = 0 /\ x = 0 /\ y = 0 /\ r = f
      BY <1>2, <1>7, <2>2 DEF Mss
    <3>2. SubSeq(F, 0 + 1, 0) = <<>> /\ SubSeq(g, 0 + 1, 0) = <<>>
      BY SubSeqEmpty
    <3>3. 0 - 0 = 0
      OBVIOUS
    <3> QED
      BY <1>5, <1>7, <3>1, <3>2, <3>3
  <2>3. CASE ch /\ d = 0 /\ k > 0
    <3>1. mx = 0 /\ my = 1 /\ x = 0 /\ r = Tail(f)
      BY <1>2, <1>5, <1>7, <2>3 DEF Mss
    <3>2. F = <<MSS>> \o g
      BY <1>1, <1>5, <2>3 DEF Framed
    <3>3. PICK z : z = y - 1
      OBVIOUS
    <3>4. z \in Nat /\ z <= Len(g) /\ 1 + z = y
      BY <1>8, <3>1, <3>3
    <3>5. f = SubSeq(F, 1, y)
      <4>1. 0 + 1 = 1
        OBVIOUS
      <4> QED
        BY <1>5, <1>7, <3>1, <4>1
    <3>6. Len(F) = Len(g) + 1
      BY <1>4, <1>5, <2>3 DEF Mss
    <3>7. 1 \in 1..Len(F) /\ y \in 1..Len(F)
      BY <3>4, <3>6
    <3>8. Tail(SubSeq(F, 1, y)) = SubSeq(F, 1 + 1, y)
      BY <1>4, <3>7, HeadTailOfSubSeq
    <3>9. SubSeq(F, (1 + 0) + 1, 1 + z) = SubSeq(g, 0 + 1, z)
      BY <3>2, <3>4, BehindMSS
    <3>10. (1 + 0) + 1 = 1 + 1 /\ 0 - 0 = 0
      OBVIOUS
    <3>11. r = SubSeq(g, 0 + 1, z)
      BY <3>1, <3>4, <3>5, <3>8, <3>9, <3>10
    <3>12. x - mx = 0 /\ y - my = z /\ 0 <= z
      BY <3>1, <3>3, <3>4
    <3> QED
      BY <3>11, <3>12
  <2>4. CASE ch /\ d > 0
    <3>1. mx = 1 /\ my = 1 /\ r = f
      BY <1>2, <1>5, <1>7, <2>4 DEF Mss
    <3>2. F = <<MSS>> \o g
      BY <1>1, <1>2, <2>4 DEF Framed
    <3>3. PICK a, z : a = x - 1 /\ z = y - 1
      OBVIOUS
    <3>4. a \in Nat /\ z \in Nat /\ z <= Len(g) /\ 1 + z = y /\ 1 + a = x /\ a <= z
      BY <1>8, <3>1, <3>3
    <3>5. SubSeq(F, (1 + a) + 1, 1 + z) = SubSeq(g, a + 1, z)
      BY <3>2, <3>4, BehindMSS
    <3>6. r = SubSeq(g, a + 1, z)
      BY <1>5, <1>7, <3>1, <3>4, <3>5
    <3> QED
      BY <3>1, <3>3, <3>4, <3>6
  <2>5. \/ ~ch \/ (ch /\ d = 0 /\ k = 0) \/ (ch /\ d = 0 /\ k > 0) \/ (ch /\ d > 0)
    BY <1>2, <1>5
  <2> QED
    BY <2>1, <2>2, <2>3, <2>4, <2>5
<1>10. got \o r = SubSeq(g, 1, y - my)
  <2>1. PICK a, z : a = x - mx /\ z = y - my
    OBVIOUS
  <2>2. 1 \in 1..Len(g) + 1 /\ a \in 1 - 1..Len(g) /\ z \in a..Len(g)
    BY <1>8, <1>9, <2>1
  <2>3. SubSeq(g, 1, a) \o SubSeq(g, a + 1, z) = SubSeq(g, 1, z)
    BY <2>2, ConcatAdjacentSubSeq
  <2>4. got = SubSeq(g, 1, a) /\ r = SubSeq(g, a + 1, z)
    BY <1>2, <1>7, <1>9, <2>1
  <2> QED
    BY <2>1, <2>3, <2>4
<1>11. DownRel(o, q, g, ch, SubSeq(b, 2 * k + 1, Len(b)), v, d + k, got \o r)
  BY <1>1, <1>2, <1>5, <1>6, <1>7, <1>10 DEF DownRel
<1>12. Grows(got, got \o r, g)
  <2>1. PICK a, z : a = x - mx /\ z = y - my
    OBVIOUS
  <2>2. a \in Nat /\ z \in Nat /\ a <= z /\ z <= Len(g)
    BY <1>8, <1>9, <2>1
  <2>3. got = SubSeq(g, 1, a) /\ got \o r = SubSeq(g, 1, z)
    BY <1>2, <1>7, <1>10, <2>1
  <2> QED
    BY <2>2, <2>3, Longer
<1> QED
  BY <1>5, <1>6, <1>11, <1>12 DEF HandsDown

-----------------------------------------------------------------------------
(* The relation is kept by every step.                                     *)

\* The two relations in the variables.
UpInv ==
  \E o : UpRel(o, cli.pack_id - 1, givenUp, kind = "chain", srv.recv_buf, up,
               srv.recv_id - 1, srv.hasHeader, gotUp)

\* And for the way back.
DownInv ==
  \E o : DownRel(o, srv.pack_id - 1, givenDown, kind = "chain", cli.recv_buf, down,
                 cli.recv_id - 1, gotDown)

\* Before the header nothing was given, and nothing is on its way.
NotYet ==
  ~cli.hasHeader => /\ cli.pack_id = 1 /\ givenUp = <<>> /\ up = <<>>
                    /\ srv.recv_buf = <<>> /\ ~srv.hasHeader

\* The inductive invariant of the two streams.
DataInv == TypeOK /\ UpInv /\ DownInv /\ NotYet

\* pack_auth_data: the parts of a header, in order.
HeaderOf(h, data) ==
  /\ Len(h) \in {2, 3} /\ Len(h) = Len(HeaderParts)
  /\ \A i \in 1..Len(h) :
       /\ h[i].part = HeaderParts[i] /\ h[i].id = 0 /\ h[i].ok = TRUE
       /\ h[i].part \in {"check", "auth", "body"}
       /\ h[i].data = IF h[i].part = "body" THEN data ELSE <<>>
       /\ kind = "chain" => h[i].part # "body"

\* Header makes such a sequence.
LEMMA HeaderIs ==
  ASSUME kind \in {"sha1", "aes", "chain"}, NEW data \in Seq(Nat),
         NEW h, h = Header(data)
  PROVE  h \in Seq(Cells) /\ HeaderOf(h, data)
<1>1. /\ Len(HeaderParts) \in {2, 3}
      /\ \A i \in 1..Len(HeaderParts) :
           /\ HeaderParts[i] \in {"check", "auth", "body"}
           /\ kind = "chain" => HeaderParts[i] # "body"
  <2>1. CASE kind = "sha1"
    <3>1. HeaderParts = <<"check", "body">>
      BY <2>1 DEF HeaderParts
    <3> QED
      BY <2>1, <3>1
  <2>2. CASE kind = "aes"
    <3>1. HeaderParts = <<"check", "auth", "body">>
      BY <2>2 DEF HeaderParts
    <3> QED
      BY <2>2, <3>1
  <2>3. CASE kind = "chain"
    <3>1. HeaderParts = <<"check", "auth">>
      BY <2>3 DEF HeaderParts
    <3> QED
      BY <3>1
  <2> QED
    BY <2>1, <2>2, <2>3
<1>2. PICK P, N : P = HeaderParts /\ N = Len(HeaderParts)
  OBVIOUS
<1>3. N \in Nat
  BY <1>1, <1>2
<1>4. h = [i \in 1..N |-> Cell(0, P[i], IF P[i] = "body" THEN data ELSE <<>>, FALSE)]
  BY <1>2 DEF Header
<1>5. ASSUME NEW i \in 1..N
      PROVE  /\ h[i] \in Cells /\ h[i].part = P[i] /\ h[i].id = 0 /\ h[i].ok = TRUE
             /\ h[i].data = IF h[i].part = "body" THEN data ELSE <<>>
  <2>1. PICK x : x = IF P[i] = "body" THEN data ELSE <<>>
    OBVIOUS
  <2>2. <<>> \in Seq(Nat)
    OBVIOUS
  <2>3. x \in Seq(Nat)
    BY <2>1, <2>2
  <2>4. h[i] = Cell(0, P[i], x, FALSE)
    BY <1>4, <2>1
  <2>5. P[i] \in {"check", "auth", "body", "len", "rest", "raw"}
    BY <1>1, <1>2
  <2>6. Cell(0, P[i], x, FALSE) \in Cells
    BY <2>3, <2>5, CellType
  <2>7. h[i].part = P[i] /\ h[i].id = 0 /\ h[i].ok = TRUE /\ h[i].data = x
    BY <2>4 DEF Cell
  <2> QED
    BY <2>1, <2>4, <2>6, <2>7
<1>6. h \in Seq(Cells) /\ Len(h) = N
  <2>1. h \in [1..N -> Cells]
    <3>1. DOMAIN h = 1..N /\ h = [i \in DOMAIN h |-> h[i]]
      BY <1>4
    <3> QED
      BY <1>5, <3>1
  <2> QED
    BY <1>3, <2>1
<1>7. ASSUME NEW i \in 1..Len(h)
      PROVE  /\ h[i].part = HeaderParts[i] /\ h[i].id = 0 /\ h[i].ok = TRUE
             /\ h[i].part \in {"check", "auth", "body"}
             /\ h[i].data = IF h[i].part = "body" THEN data ELSE <<>>
             /\ kind = "chain" => h[i].part # "body"
  <2>1. i \in 1..N /\ i \in 1..Len(HeaderParts) /\ P[i] = HeaderParts[i]
    BY <1>2, <1>6
  <2> QED
    BY <1>1, <1>5, <2>1
<1>8. Len(h) \in {2, 3} /\ Len(h) = Len(HeaderParts)
  BY <1>1, <1>2, <1>6
<1> QED
  BY <1>6, <1>7, <1>8 DEF HeaderOf

\* client_pre_encrypt of the first data.
LEMMA Headed ==
  ASSUME kind \in {"sha1", "aes", "chain"}, NEW buf \in Seq(Nat), NEW n, n = Len(buf),
         NEW k \in 1..n, NEW tiny \in BOOLEAN,
         NEW C, C = FirstChunks(SubSeq(buf, 1, k), SubSeq(buf, k + 1, n)),
         NEW h, h = Header(SubSeq(buf, 1, k))
  PROVE  /\ h \in Seq(Cells) /\ C \in Seq(Seq(Nat)) /\ Len(C) \in Nat \ {0}
         /\ PackAll(1, C, tiny) \in Seq(Cells)
         /\ \E e : UpRel(e, Len(C), buf, kind = "chain", <<>>,
                         h \o PackAll(1, C, tiny), 0, FALSE, <<>>)
<1>1. PICK data, rest : data = SubSeq(buf, 1, k) /\ rest = SubSeq(buf, k + 1, n)
  OBVIOUS
<1>2. n \in Nat /\ k \in Nat /\ k <= Len(buf) /\ 0 + 1 = 1 /\ 0 \in Nat
  OBVIOUS
<1>3. data \in Seq(Nat) /\ Len(data) = k /\ rest \in Seq(Nat)
  <2>1. SubSeq(buf, 0 + 1, k) \in Seq(Nat) /\ Len(SubSeq(buf, 0 + 1, k)) = k - 0
    BY <1>2, PartIsSeq
  <2>2. SubSeq(buf, k + 1, n) \in Seq(Nat)
    BY <1>2, PartIsSeq
  <2> QED
    BY <1>1, <1>2, <2>1, <2>2
<1>4. data \o rest = buf
  <2>1. 1 \in 1..Len(buf) + 1 /\ k \in 1 - 1..Len(buf) /\ n \in k..Len(buf)
    OBVIOUS
  <2>2. SubSeq(buf, 1, k) \o SubSeq(buf, k + 1, n) = SubSeq(buf, 1, n)
    BY <2>1, ConcatAdjacentSubSeq
  <2>3. SubSeq(buf, 1, n) = buf
    BY SubSeqFull
  <2> QED
    BY <1>1, <2>2, <2>3
<1>5. PICK B, c : B = Chunks(rest) /\ Cut(B, c, rest)
  BY <1>3, ChunksCut
<1>6. B \in Seq(Seq(Nat))
  BY <1>3, <1>5, ChunksType
<1>7. h \in Seq(Cells) /\ \A i \in 1..Len(h) :
              /\ h[i].ok = TRUE /\ h[i].part \in {"check", "auth", "body"}
              /\ h[i].data = IF h[i].part = "body" THEN data ELSE <<>>
              /\ kind = "chain" => h[i].part # "body"
  <2>1. h \in Seq(Cells) /\ HeaderOf(h, data)
    BY <1>1, <1>3, HeaderIs
  <2> QED
    BY <2>1 DEF HeaderOf
<1>8. <<>> \in Seq(Nat) /\ <<>> \in Seq(Cells) /\ Len(<<>>) = 0
  OBVIOUS
<1>9. ASSUME NEW g \in Seq(Nat), NEW o, UpRel(o, 0, g, kind = "chain", <<>>, h, 0, FALSE, <<>>),
             NEW u \in Seq(Nat), g \o u = buf, C \in Seq(Seq(Nat)), NEW cc, Cut(C, cc, u)
      PROVE  /\ Len(C) \in Nat \ {0} /\ PackAll(1, C, tiny) \in Seq(Cells)
             /\ \E e : UpRel(e, Len(C), buf, kind = "chain", <<>>,
                             h \o PackAll(1, C, tiny), 0, FALSE, <<>>)
  <2>1. PICK N : N = Len(C)
    OBVIOUS
  <2>2. N \in Nat \ {0} /\ 0 + N = N /\ 0 + 1 = 1 /\ 1 \in Nat
    BY <1>9, <2>1 DEF Cut
  <2>3. \E e : UpRel(e, 0 + Len(C), g \o u, kind = "chain", <<>>,
                     h \o PackAll(0 + 1, C, tiny), 0, FALSE, <<>>)
    <3>1. PICK ch, E, z, f : ch = (kind = "chain") /\ E = <<>> /\ z = 0 /\ f = FALSE
      OBVIOUS
    <3>2. UpRel(o, z, g, ch, E, h, z, f, E)
      BY <1>9, <3>1
    <3>3. f \in BOOLEAN /\ z \in Nat /\ h \in Seq(Cells)
      BY <1>7, <3>1
    <3>4. SentUp(z, g, ch, E, h, z, f, E, u, C, tiny)
      BY <1>9, <3>2, <3>3, UpSends
    <3> QED
      BY <3>1, <3>4 DEF SentUp
  <2>4. PackAll(1, C, tiny) \in Seq(Cells)
    BY <1>9, <2>2, Packing
  <2> QED
    BY <1>9, <2>1, <2>2, <2>3, <2>4
<1>10. CASE kind = "chain"
  <2>1. C = <<data>> \o B
    BY <1>1, <1>5, <1>10 DEF FirstChunks
  <2>2. C \in Seq(Seq(Nat))
    <3>1. <<data>> \in Seq(Seq(Nat))
      BY <1>3
    <3> QED
      BY <1>6, <2>1, <3>1, ConcatProperties
  <2>3. PICK cc : Cut(C, cc, data \o rest)
    BY <1>3, <1>5, <1>6, <2>1, FirstCut
  <2>4. PICK o : o = [j \in Nat |-> 0]
    OBVIOUS
  <2>5. Ends(o, 0, <<>>) /\ o[0] = 0
    BY <1>8, <2>4 DEF Ends, Upward
  <2>6. AllGenuine(h, o, 0, <<>>)
    BY <1>7, <1>10 DEF AllGenuine, Genuine
  <2>7. AllGenuine(<<>>, o, 0, <<>>)
    BY <1>8 DEF AllGenuine
  <2>8. UpRel(o, 0, <<>>, kind = "chain", <<>>, h, 0, FALSE, <<>>)
    BY <2>5, <2>6, <2>7 DEF UpRel
  <2>9. <<>> \o buf = buf
    BY ConcatEmptySeq
  <2> QED
    BY <1>4, <1>7, <1>8, <1>9, <2>2, <2>3, <2>8, <2>9
<1>11. CASE kind # "chain"
  <2>1. C = B
    BY <1>1, <1>5, <1>11 DEF FirstChunks
  <2>2. PICK o : o = [j \in Nat |-> k]
    OBVIOUS
  <2>3. Ends(o, 0, data) /\ o[0] = k
    BY <1>2, <1>3, <2>2 DEF Ends, Upward
  <2>4. SubSeq(data, 1, o[0]) = data
    BY <1>3, <2>3, SubSeqFull
  <2>5. AllGenuine(h, o, 0, data)
    BY <1>7, <2>4 DEF AllGenuine, Genuine
  <2>6. AllGenuine(<<>>, o, 0, data)
    BY <1>8 DEF AllGenuine
  <2>7. UpRel(o, 0, data, kind = "chain", <<>>, h, 0, FALSE, <<>>)
    BY <1>11, <2>3, <2>5, <2>6 DEF UpRel
  <2> QED
    BY <1>3, <1>4, <1>5, <1>6, <1>7, <1>9, <2>1, <2>7
<1> QED
  BY <1>10, <1>11

\* client_pre_encrypt.
LEMMA ClientSendData ==
  ASSUME DataInv, NEW n \in 1..MaxWrite, ClientSend(n)
  PROVE  DataInv' /\ IsStrictPrefix(givenUp, givenUp')
<1>1. /\ kind \in {"sha1", "aes", "chain"} /\ kind \in Kinds /\ kind' = kind
      /\ MaxUp \in Nat /\ n \in Nat \ {0}
      /\ cli \in Sides /\ srv \in Sides /\ up \in Seq(Cells) /\ givenUp \in Seq(1..MaxUp)
      /\ ~cli.dead /\ Len(givenUp) + n <= MaxUp
      /\ UNCHANGED <<kind, srv, down, gotUp, givenDown, gotDown, inserts, faulty>>
  BY StreamAssumption DEF DataInv, TypeOK, ClientSend
<1>2. PICK buf : buf = [i \in 1..n |-> Len(givenUp) + i]
  OBVIOUS
<1>3. /\ buf \in Seq(1..MaxUp) /\ buf \in Seq(Nat) /\ Len(buf) = n
      /\ givenUp \in Seq(Nat) /\ givenUp \o buf \in Seq(1..MaxUp)
      /\ IsStrictPrefix(givenUp, givenUp \o buf)
  BY <1>1, <1>2, NewUnits
<1>4. PICK tiny \in Tinies, k \in 1..n :
        LET chunks == IF cli.hasHeader THEN Chunks(buf)
                      ELSE FirstChunks(SubSeq(buf, 1, k), SubSeq(buf, k + 1, n))
        IN /\ up' = up \o (IF cli.hasHeader THEN <<>> ELSE Header(SubSeq(buf, 1, k)))
                       \o PackAll(cli.pack_id, chunks, tiny)
           /\ cli' = [cli EXCEPT !.pack_id = @ + Len(chunks), !.hasHeader = TRUE]
           /\ givenUp' = givenUp \o buf
  BY <1>2 DEF ClientSend
<1>5. tiny \in BOOLEAN
  BY DEF Tinies
<1>6. PICK q : q = cli.pack_id - 1
  OBVIOUS
<1>7. q \in Nat /\ q + 1 = cli.pack_id
  <2>1. cli.pack_id \in Nat \ {0}
    BY <1>1 DEF Sides
  <2> QED
    BY <1>6, <2>1
<1>8. ASSUME NEW C, Len(C) \in Nat \ {0}, NEW p, p = cli.pack_id + Len(C),
             cli' = [cli EXCEPT !.pack_id = p, !.hasHeader = TRUE]
      PROVE  /\ cli' \in Sides /\ cli'.hasHeader = TRUE /\ cli'.pack_id - 1 = q + Len(C)
             /\ cli'.recv_buf = cli.recv_buf /\ cli'.recv_id = cli.recv_id
  <2>1. p \in Nat \ {0} /\ p - 1 = q + Len(C)
    BY <1>7, <1>8
  <2> QED
    BY <1>1, <1>8, <2>1 DEF Sides
<1>9. ASSUME NEW C, Len(C) \in Nat \ {0}, NEW p, p = cli.pack_id + Len(C),
             cli' = [cli EXCEPT !.pack_id = p, !.hasHeader = TRUE],
             up' \in Seq(Cells),
             \E e : UpRel(e, q + Len(C), givenUp', kind = "chain", srv.recv_buf, up',
                          srv.recv_id - 1, srv.hasHeader, gotUp)
      PROVE  DataInv' /\ IsStrictPrefix(givenUp, givenUp')
  <2>1. /\ cli' \in Sides /\ cli'.hasHeader = TRUE /\ cli'.pack_id - 1 = q + Len(C)
        /\ cli'.recv_buf = cli.recv_buf /\ cli'.recv_id = cli.recv_id
    BY <1>8, <1>9
  <2>2. UpInv'
    BY <1>1, <1>9, <2>1 DEF UpInv
  <2>3. DownInv'
    BY <1>1, <2>1 DEF DownInv, DataInv
  <2>4. NotYet'
    BY <2>1 DEF NotYet
  <2>5. TypeOK'
    BY <1>1, <1>3, <1>4, <1>9, <2>1 DEF TypeOK, DataInv
  <2> QED
    BY <1>3, <1>4, <2>2, <2>3, <2>4, <2>5 DEF DataInv
<1>10. CASE cli.hasHeader
  <2>1. PICK C, p : C = Chunks(buf) /\ p = cli.pack_id + Len(C)
    OBVIOUS
  <2>2. PICK c : Cut(C, c, buf)
    BY <1>3, <2>1, ChunksCut
  <2>3. C \in Seq(Seq(Nat)) /\ Len(C) \in Nat \ {0}
    BY <1>3, <2>1, <2>2, ChunksType DEF Cut
  <2>4. PICK P : P = PackAll(q + 1, C, tiny)
    OBVIOUS
  <2>5. P \in Seq(Cells)
    BY <1>5, <1>7, <2>3, <2>4, Packing
  <2>6. up' = up \o P
    <3>1. up' = up \o <<>> \o P
      BY <1>4, <1>7, <1>10, <2>1, <2>4
    <3>2. up \o <<>> = up
      BY <1>1, ConcatEmptySeq
    <3> QED
      BY <3>1, <3>2
  <2>7. PICK o : UpRel(o, q, givenUp, kind = "chain", srv.recv_buf, up,
                       srv.recv_id - 1, srv.hasHeader, gotUp)
    BY <1>6 DEF DataInv, UpInv
  <2>8. PICK ch, d, hd, rb : /\ ch = (kind = "chain") /\ d = srv.recv_id - 1
                             /\ hd = srv.hasHeader /\ rb = srv.recv_buf
    OBVIOUS
  <2>9. hd \in BOOLEAN
    BY <1>1, <2>8 DEF Sides
  <2>10. UpRel(o, q, givenUp, ch, rb, up, d, hd, gotUp)
    BY <2>7, <2>8
  <2>11. SentUp(q, givenUp, ch, rb, up, d, hd, gotUp, buf, C, tiny)
    BY <1>1, <1>3, <1>5, <1>7, <2>2, <2>3, <2>9, <2>10, UpSends
  <2>12. \E e : UpRel(e, q + Len(C), givenUp', kind = "chain", srv.recv_buf, up',
                      srv.recv_id - 1, srv.hasHeader, gotUp)
    BY <1>4, <2>4, <2>6, <2>8, <2>11 DEF SentUp
  <2>13. cli' = [cli EXCEPT !.pack_id = p, !.hasHeader = TRUE]
    BY <1>4, <1>10, <2>1
  <2>14. up' \in Seq(Cells)
    BY <1>1, <2>5, <2>6
  <2> QED
    BY <1>9, <2>1, <2>3, <2>12, <2>13, <2>14
<1>11. CASE ~cli.hasHeader
  <2>1. PICK C, p, h : /\ C = FirstChunks(SubSeq(buf, 1, k), SubSeq(buf, k + 1, n))
                       /\ p = cli.pack_id + Len(C) /\ h = Header(SubSeq(buf, 1, k))
    OBVIOUS
  <2>2. /\ cli.pack_id = 1 /\ givenUp = <<>> /\ up = <<>> /\ srv.recv_buf = <<>>
        /\ ~srv.hasHeader
    BY <1>11 DEF DataInv, NotYet
  <2>3. q = 0
    BY <1>6, <2>2
  <2>4. /\ h \in Seq(Cells) /\ C \in Seq(Seq(Nat)) /\ Len(C) \in Nat \ {0}
        /\ PackAll(1, C, tiny) \in Seq(Cells)
        /\ \E e : UpRel(e, Len(C), buf, kind = "chain", <<>>,
                        h \o PackAll(1, C, tiny), 0, FALSE, <<>>)
    BY <1>1, <1>3, <1>5, <2>1, Headed
  <2>5. PICK P : P = PackAll(1, C, tiny)
    OBVIOUS
  <2>6. up' = h \o P
    <3>1. up' = <<>> \o h \o P
      BY <1>4, <1>11, <2>1, <2>2, <2>5
    <3>2. <<>> \o h = h
      BY <2>4, ConcatEmptySeq
    <3> QED
      BY <3>1, <3>2
  <2>7. givenUp' = buf
    BY <1>3, <1>4, <2>2, ConcatEmptySeq
  <2>8. gotUp = <<>> /\ srv.recv_id - 1 = 0 /\ srv.hasHeader = FALSE
    <3>1. srv.hasHeader = FALSE
      BY <1>1, <2>2 DEF Sides
    <3>2. PICK o : UpRel(o, q, givenUp, kind = "chain", srv.recv_buf, up,
                         srv.recv_id - 1, srv.hasHeader, gotUp)
      BY <1>6 DEF DataInv, UpInv
    <3> QED
      BY <3>1, <3>2 DEF UpRel
  <2>9. q + Len(C) = Len(C)
    BY <2>3, <2>4
  <2>10. \E e : UpRel(e, q + Len(C), givenUp', kind = "chain", srv.recv_buf, up',
                      srv.recv_id - 1, srv.hasHeader, gotUp)
    BY <2>2, <2>4, <2>5, <2>6, <2>7, <2>8, <2>9
  <2>11. cli' = [cli EXCEPT !.pack_id = p, !.hasHeader = TRUE]
    BY <1>4, <1>11, <2>1
  <2>12. up' \in Seq(Cells)
    BY <2>4, <2>5, <2>6
  <2> QED
    BY <1>9, <2>1, <2>4, <2>10, <2>11, <2>12
<1> QED
  BY <1>10, <1>11

\* What has been handed out are units of the stream.
LEMMA UpTyped ==
  ASSUME NEW S, NEW g \in Seq(S), NEW q \in Nat, NEW o, NEW ch, NEW rb, NEW w,
         NEW d, NEW hd, NEW got, UpRel(o, q, g, ch, rb, w, d, hd, got)
  PROVE  got \in Seq(S)
<1>1. /\ Ends(o, q, g) /\ d \in 0..q
      /\ got = IF hd THEN SubSeq(g, 1, o[d]) ELSE <<>>
  BY DEF UpRel
<1>2. o[d] \in 0..Len(g)
  BY <1>1, Bounded DEF Ends
<1>3. SubSeq(g, 1, o[d]) \in Seq(S)
  <2>1. o[d] \in Nat /\ o[d] <= Len(g) /\ o[d] <= o[d]
    BY <1>2
  <2> QED
    BY <2>1, Longer
<1>4. <<>> \in Seq(S)
  OBVIOUS
<1> QED
  BY <1>1, <1>3, <1>4

\* And on the way back.
LEMMA DownTyped ==
  ASSUME NEW S, NEW g \in Seq(S), g \in Seq(Nat), NEW q \in Nat, NEW o,
         NEW ch \in BOOLEAN, NEW rb, NEW w,
         NEW d, NEW got, DownRel(o, q, g, ch, rb, w, d, got)
  PROVE  got \in Seq(S)
<1>1. /\ Ends(o, q, Framed(ch, q, g)) /\ o[0] = 0 /\ (ch /\ q > 0 => o[1] >= 1)
      /\ d \in 0..q /\ got = SubSeq(g, 1, o[d] - Mss(ch, d))
  BY DEF DownRel
<1>2. PICK x : x = o[d] - Mss(ch, d)
  OBVIOUS
<1>3. x \in Nat /\ x <= Len(g)
  BY <1>1, <1>2, DownBounds
<1>4. x <= x
  BY <1>3
<1>5. SubSeq(g, 1, x) \in Seq(S)
  BY <1>3, <1>4, Longer
<1> QED
  BY <1>1, <1>2, <1>5

\* server_pre_encrypt, of data or of nothing.
LEMMA ServerPacks ==
  ASSUME DataInv, NEW buf \in Seq(Nat), NEW tiny \in BOOLEAN,
         NEW C, C = ServerChunks(srv, buf)
  PROVE  /\ C \in Seq(Seq(Nat)) /\ Len(C) \in Nat \ {0}
         /\ PackAll(srv.pack_id, C, tiny) \in Seq(Cells)
         /\ \E e : DownRel(e, (srv.pack_id - 1) + Len(C), givenDown \o buf, kind = "chain",
                           cli.recv_buf, down \o PackAll(srv.pack_id, C, tiny),
                           cli.recv_id - 1, gotDown)
<1>1. /\ srv \in Sides /\ down \in Seq(Cells) /\ givenDown \in Seq(1..MaxDown)
      /\ MaxDown \in Nat
  BY StreamAssumption DEF DataInv, TypeOK
<1>2. givenDown \in Seq(Nat)
  <2>1. 1..MaxDown \subseteq Nat
    OBVIOUS
  <2> QED
    BY <1>1, <2>1, SeqMonotonic
<1>3. PICK q, ch, d, rb : /\ q = srv.pack_id - 1 /\ ch = (kind = "chain")
                          /\ d = cli.recv_id - 1 /\ rb = cli.recv_buf
  OBVIOUS
<1>4. q \in Nat /\ q + 1 = srv.pack_id /\ (q = 0 <=> srv.pack_id = 1)
  <2>1. PICK p : p = srv.pack_id
    OBVIOUS
  <2>2. p \in Nat \ {0}
    BY <1>1, <2>1 DEF Sides
  <2>3. q = p - 1
    BY <1>3, <2>1
  <2>4. q \in Nat /\ q + 1 = p /\ (q = 0 <=> p = 1)
    BY <2>2, <2>3
  <2> QED
    BY <2>1, <2>4
<1>5. ch \in BOOLEAN
  BY <1>3
<1>6. PICK o : DownRel(o, q, givenDown, ch, rb, down, d, gotDown)
  BY <1>3 DEF DataInv, DownInv
<1>7. C = IF ch /\ q = 0
          THEN <<<<MSS>> \o Chunks(buf)[1]>> \o Tail(Chunks(buf))
          ELSE Chunks(buf)
  BY <1>3, <1>4 DEF ServerChunks
<1>8. Sending(q, givenDown, ch, rb, down, d, gotDown, buf, C, tiny)
  BY <1>1, <1>2, <1>4, <1>5, <1>6, <1>7, DownSends
<1> QED
  BY <1>3, <1>4, <1>8 DEF Sending, SentDown

\* What the fields of the server's object are after it has packed something.
LEMMA PackedIs ==
  ASSUME NEW s \in Sides, NEW buf, NEW C, C = ServerChunks(s, buf), Len(C) \in Nat \ {0}
  PROVE  /\ Packed(s, buf) \in Sides
         /\ Packed(s, buf).pack_id - 1 = (s.pack_id - 1) + Len(C)
         /\ Packed(s, buf).recv_buf = s.recv_buf /\ Packed(s, buf).recv_id = s.recv_id
         /\ Packed(s, buf).hasHeader = s.hasHeader /\ Packed(s, buf).raw = s.raw
         /\ Packed(s, buf).dead = s.dead
<1>1. PICK p : p = s.pack_id + Len(C)
  OBVIOUS
<1>2. p \in Nat \ {0} /\ p - 1 = (s.pack_id - 1) + Len(C)
  BY <1>1 DEF Sides
<1>3. Packed(s, buf) = [s EXCEPT !.pack_id = p]
  BY <1>1 DEF Packed
<1> QED
  BY <1>2, <1>3 DEF Sides

\* The destination's answer.
LEMMA ServerSendData ==
  ASSUME DataInv, NEW n \in 1..MaxWrite, ServerSend(n)
  PROVE  DataInv' /\ IsStrictPrefix(givenDown, givenDown')
<1>1. /\ srv \in Sides /\ down \in Seq(Cells) /\ givenDown \in Seq(1..MaxDown)
      /\ MaxDown \in Nat /\ n \in Nat \ {0} /\ Len(givenDown) + n <= MaxDown
      /\ UNCHANGED <<kind, cli, up, givenUp, gotUp, gotDown, inserts, faulty>>
  BY StreamAssumption DEF DataInv, TypeOK, ServerSend
<1>2. PICK buf : buf = [i \in 1..n |-> Len(givenDown) + i]
  OBVIOUS
<1>3. /\ buf \in Seq(1..MaxDown) /\ buf \in Seq(Nat) /\ Len(buf) = n
      /\ givenDown \o buf \in Seq(1..MaxDown)
      /\ IsStrictPrefix(givenDown, givenDown \o buf)
  BY <1>1, <1>2, NewUnits
<1>4. PICK C, P : C = ServerChunks(srv, buf) /\ P = PackAll(srv.pack_id, C, FALSE)
  OBVIOUS
<1>5. down' = down \o P /\ srv' = Packed(srv, buf) /\ givenDown' = givenDown \o buf
  BY <1>2, <1>4 DEF ServerSend
<1>6. FALSE \in BOOLEAN
  OBVIOUS
<1>7. /\ C \in Seq(Seq(Nat)) /\ Len(C) \in Nat \ {0} /\ P \in Seq(Cells)
      /\ \E e : DownRel(e, (srv.pack_id - 1) + Len(C), givenDown \o buf, kind = "chain",
                        cli.recv_buf, down \o P, cli.recv_id - 1, gotDown)
  BY <1>3, <1>4, <1>6, ServerPacks
<1>8. /\ srv' \in Sides /\ srv'.pack_id - 1 = (srv.pack_id - 1) + Len(C)
      /\ srv'.recv_buf = srv.recv_buf /\ srv'.recv_id = srv.recv_id
      /\ srv'.hasHeader = srv.hasHeader
  BY <1>1, <1>4, <1>5, <1>7, PackedIs
<1>9. DownInv'
  BY <1>1, <1>5, <1>7, <1>8 DEF DownInv
<1>10. UpInv'
  BY <1>1, <1>8 DEF DataInv, UpInv
<1>11. NotYet'
  BY <1>1, <1>8 DEF DataInv, NotYet
<1>12. down' \in Seq(Cells)
  BY <1>1, <1>5, <1>7
<1>13. TypeOK'
  BY <1>1, <1>3, <1>5, <1>8, <1>12 DEF DataInv, TypeOK
<1> QED
  BY <1>3, <1>5, <1>9, <1>10, <1>11, <1>13 DEF DataInv

\* A step of the server, once the two directions are known to be related again.
LEMMA ServerStep ==
  ASSUME DataInv, UNCHANGED <<kind, cli, givenUp, givenDown, gotDown, faulty>>,
         inserts' \in Nat, srv' \in Sides, up' \in Seq(Cells), down' \in Seq(Cells),
         UpInv', DownInv', NotYet'
  PROVE  DataInv'
<1>1. /\ cli \in Sides /\ givenUp \in Seq(1..MaxUp)
  BY DEF DataInv, TypeOK
<1>2. PICK q, ch, d, hd, rb, o :
        /\ q = cli'.pack_id - 1
        /\ UpRel(o, q, givenUp', ch, rb, up', d, hd, gotUp')
  BY DEF UpInv
<1>3. q \in Nat
  BY <1>1, <1>2 DEF Sides
<1>4. gotUp' \in Seq(1..MaxUp)
  <2>1. PICK g, got, w, S : g = givenUp' /\ got = gotUp' /\ w = up' /\ S = 1..MaxUp
    OBVIOUS
  <2>2. g \in Seq(S) /\ UpRel(o, q, g, ch, rb, w, d, hd, got)
    BY <1>1, <1>2, <2>1
  <2>3. got \in Seq(S)
    BY <1>3, <2>2, UpTyped
  <2> QED
    BY <2>1, <2>3
<1>5. TypeOK'
  BY <1>4 DEF DataInv, TypeOK
<1> QED
  BY <1>5 DEF DataInv

\* The server keeps what it was sent and hands out nothing.
LEMMA ServerKeeps ==
  ASSUME DataInv, cli.hasHeader, NEW o,
         UpRel(o, cli.pack_id - 1, givenUp, kind = "chain", srv.recv_buf, up,
               srv.recv_id - 1, srv.hasHeader, gotUp),
         up' \in Seq(Cells), AllGenuine(up', o, cli.pack_id - 1, givenUp), inserts' \in Nat,
         UNCHANGED <<kind, cli, givenUp, givenDown, gotDown, faulty>>,
         srv' \in Sides, AllGenuine(srv'.recv_buf, o, cli.pack_id - 1, givenUp),
         srv'.recv_id = srv.recv_id, srv'.hasHeader = srv.hasHeader,
         srv'.pack_id = srv.pack_id, gotUp' = gotUp, down' = down
  PROVE  DataInv' /\ Grows(gotUp, gotUp', givenUp)
<1>1. DownInv /\ down \in Seq(Cells)
  BY DEF DataInv, TypeOK
<1>2. UpRel(o, cli.pack_id - 1, givenUp, kind = "chain", srv'.recv_buf, up',
            srv.recv_id - 1, srv.hasHeader, gotUp)
  BY DEF UpRel
<1>3. UpInv'
  BY <1>2 DEF UpInv
<1>4. DownInv'
  BY <1>1 DEF DownInv
<1>5. NotYet'
  BY DEF NotYet
<1>6. DataInv'
  BY <1>1, <1>3, <1>4, <1>5, ServerStep
<1> QED
  BY <1>6 DEF Grows

\* The loop of server_post_decrypt over cells b, with what the header brought.
LEMMA FramesData ==
  ASSUME DataInv, cli.hasHeader, NEW o,
         UpRel(o, cli.pack_id - 1, givenUp, kind = "chain", srv.recv_buf, up,
               srv.recv_id - 1, srv.hasHeader, gotUp),
         NEW b \in Seq(Cells), AllGenuine(b, o, cli.pack_id - 1, givenUp),
         up' \in Seq(Cells), AllGenuine(up', o, cli.pack_id - 1, givenUp),
         NEW head, head = IF srv.hasHeader THEN <<>> ELSE SubSeq(givenUp, 1, o[0]),
         NEW sendback, ServerFrames(b, head, sendback), inserts' \in Nat,
         UNCHANGED <<kind, cli, givenUp, givenDown, gotDown, faulty>>
  PROVE  DataInv' /\ Grows(gotUp, gotUp', givenUp)
<1>1. /\ srv \in Sides /\ cli \in Sides /\ givenUp \in Seq(1..MaxUp)
      /\ down \in Seq(Cells) /\ DownInv /\ givenDown \in Seq(1..MaxDown)
  BY DEF DataInv, TypeOK
<1>2. PICK q, ch, d, hd, rb, S, v :
        /\ q = cli.pack_id - 1 /\ ch = (kind = "chain") /\ d = srv.recv_id - 1
        /\ hd = srv.hasHeader /\ rb = srv.recv_buf /\ S = 1..MaxUp /\ v = up'
  OBVIOUS
<1>3. q \in Nat /\ hd \in BOOLEAN /\ d \in Nat /\ d + 1 = srv.recv_id
  <2>1. hd \in BOOLEAN
    BY <1>1, <1>2 DEF Sides
  <2>2. cli.pack_id \in Nat \ {0} /\ srv.recv_id \in Nat \ {0}
    BY <1>1 DEF Sides
  <2>3. \A i \in Nat \ {0} : i - 1 \in Nat /\ (i - 1) + 1 = i
    OBVIOUS
  <2>4. q \in Nat /\ d \in Nat /\ d + 1 = srv.recv_id
    BY <1>2, <2>2, <2>3, Zenon
  <2> QED
    BY <2>1, <2>4
<1>4. PICK k, left, units : /\ k = NumGood(b, srv.recv_id)
                            /\ left = SubSeq(b, 2 * k + 1, Len(b))
                            /\ units = head \o FlattenSeq(FrameData(b, k))
  OBVIOUS
<1>5. HandsUp(o, q, givenUp, ch, b, k, v, d, gotUp, units)
  <2>1. UpRel(o, q, givenUp, ch, rb, up, d, hd, gotUp) /\ givenUp \in Seq(S)
    BY <1>1, <1>2
  <2>2. AllGenuine(b, o, q, givenUp) /\ AllGenuine(v, o, q, givenUp)
    BY <1>2
  <2>3. k = NumGood(b, d + 1)
    BY <1>3, <1>4
  <2>4. head = IF hd THEN <<>> ELSE SubSeq(givenUp, 1, o[0])
    BY <1>2
  <2>5. HandsUp(o, q, givenUp, ch, b, k, v, d, gotUp, head \o FlattenSeq(FrameData(b, k)))
    BY <1>3, <2>1, <2>2, <2>3, <2>4, UpGets
  <2> QED
    BY <1>4, <2>5
<1>6. /\ k \in Nat /\ left \in Seq(Cells) /\ Grows(gotUp, gotUp \o units, givenUp)
      /\ UpRel(o, q, givenUp, ch, left, v, d + k, TRUE, gotUp \o units)
  BY <1>4, <1>5 DEF HandsUp
<1>7. PICK id, r, after :
        /\ id = srv.recv_id + k /\ r = (srv.released \/ units # <<>>)
        /\ after = [srv EXCEPT !.recv_buf = left, !.recv_id = id,
                               !.hasHeader = TRUE, !.released = r]
  OBVIOUS
<1>8. id \in Nat \ {0} /\ id - 1 = d + k
  <2>1. id = (d + 1) + k
    BY <1>3, <1>7
  <2> QED
    BY <1>3, <1>6, <2>1
<1>9. /\ after \in Sides /\ after.pack_id = srv.pack_id /\ after.recv_buf = left
      /\ after.recv_id = id /\ after.hasHeader = TRUE
  <2>1. r \in BOOLEAN
    BY <1>7
  <2> QED
    BY <1>1, <1>6, <1>7, <1>8, <2>1 DEF Sides
<1>10. ASSUME srv' \in Sides, srv'.recv_buf = left, srv'.recv_id = id,
              srv'.hasHeader = TRUE, gotUp' = gotUp \o units
       PROVE  UpInv'
  <2>1. srv'.recv_id - 1 = d + k
    BY <1>8, <1>10
  <2>2. UpRel(o, q, givenUp', kind' = "chain", srv'.recv_buf, up', srv'.recv_id - 1,
              srv'.hasHeader, gotUp')
    BY <1>2, <1>6, <1>10, <2>1
  <2> QED
    BY <1>2, <2>2 DEF UpInv
<1>11. NotYet'
  BY DEF NotYet
<1>12. ASSUME srv' = after, gotUp' = gotUp \o units, down' = down
       PROVE  DataInv' /\ Grows(gotUp, gotUp', givenUp)
  <2>1. UpInv'
    BY <1>9, <1>10, <1>12
  <2>2. DownInv'
    BY <1>1, <1>9, <1>12 DEF DownInv
  <2>3. srv' \in Sides /\ down' \in Seq(Cells)
    BY <1>1, <1>9, <1>12
  <2>4. DataInv'
    BY <1>11, <2>1, <2>2, <2>3, ServerStep
  <2> QED
    BY <1>6, <1>12, <2>4
<1>13. ASSUME NEW tiny \in Tinies, srv' = Packed(after, <<>>), gotUp' = gotUp \o units,
              down' = down \o PackAll(srv.pack_id, ServerChunks(srv, <<>>), tiny)
       PROVE  DataInv' /\ Grows(gotUp, gotUp', givenUp)
  <2>1. PICK C, P, E : /\ C = ServerChunks(srv, <<>>) /\ P = PackAll(srv.pack_id, C, tiny)
                       /\ E = <<>>
    OBVIOUS
  <2>2. tiny \in BOOLEAN /\ E \in Seq(Nat)
    <3>1. tiny \in BOOLEAN
      BY <1>13 DEF Tinies
    <3>2. E \in Seq(Nat)
      BY <2>1
    <3> QED
      BY <3>1, <3>2
  <2>3. C = ServerChunks(srv, E)
    BY <2>1
  <2>4. /\ C \in Seq(Seq(Nat)) /\ Len(C) \in Nat \ {0} /\ P \in Seq(Cells)
        /\ \E e : DownRel(e, (srv.pack_id - 1) + Len(C), givenDown \o E, kind = "chain",
                          cli.recv_buf, down \o P, cli.recv_id - 1, gotDown)
    BY <2>1, <2>2, <2>3, ServerPacks
  <2>5. C = ServerChunks(after, E)
    BY <1>9, <2>3 DEF ServerChunks
  <2>6. /\ srv' \in Sides /\ srv'.pack_id - 1 = (srv.pack_id - 1) + Len(C)
        /\ srv'.recv_buf = left /\ srv'.recv_id = id /\ srv'.hasHeader = TRUE
    BY <1>9, <1>13, <2>1, <2>4, <2>5, PackedIs
  <2>7. UpInv'
    BY <1>10, <1>13, <2>6
  <2>8. givenDown \o E = givenDown
    BY <1>1, <2>1, ConcatEmptySeq
  <2>9. down' = down \o P
    BY <1>13, <2>1
  <2>10. DownInv'
    BY <2>4, <2>6, <2>8, <2>9 DEF DownInv
  <2>11. down' \in Seq(Cells)
    BY <1>1, <2>4, <2>9
  <2>12. DataInv'
    BY <1>11, <2>6, <2>7, <2>10, <2>11, ServerStep
  <2> QED
    BY <1>6, <1>13, <2>12
<1>14. AllGenuine(left, o, q, givenUp) /\ AllGenuine(rb, o, q, givenUp)
  BY <1>2, <1>6 DEF UpRel
<1>15. ASSUME srv' \in Sides, srv'.recv_buf \in {left, rb}, srv'.recv_id = srv.recv_id,
              srv'.hasHeader = srv.hasHeader, srv'.pack_id = srv.pack_id,
              gotUp' = gotUp, down' = down
       PROVE  DataInv' /\ Grows(gotUp, gotUp', givenUp)
  <2>1. AllGenuine(srv'.recv_buf, o, cli.pack_id - 1, givenUp)
    BY <1>2, <1>14, <1>15
  <2> QED
    BY <1>15, <2>1, ServerKeeps
<1>16. CASE LeaveProtocol(left)
  <2>1. srv' = [srv EXCEPT !.raw = TRUE, !.recv_buf = left] /\ gotUp' = gotUp /\ down' = down
    BY <1>16 DEF LeaveProtocol
  <2>2. /\ srv' \in Sides /\ srv'.recv_buf = left /\ srv'.recv_id = srv.recv_id
        /\ srv'.hasHeader = srv.hasHeader /\ srv'.pack_id = srv.pack_id
    BY <1>1, <1>6, <2>1 DEF Sides
  <2> QED
    BY <1>15, <2>1, <2>2
<1>17. CASE srv' = [srv EXCEPT !.dead = TRUE] /\ UNCHANGED <<gotUp, down>>
  <2>1. /\ srv' \in Sides /\ srv'.recv_buf = rb /\ srv'.recv_id = srv.recv_id
        /\ srv'.hasHeader = srv.hasHeader /\ srv'.pack_id = srv.pack_id
    BY <1>1, <1>2, <1>17 DEF Sides
  <2> QED
    BY <1>15, <1>17, <2>1
<1>18. \/ srv' = after /\ gotUp' = gotUp \o units /\ down' = down
       \/ /\ gotUp' = gotUp \o units
          /\ \E tiny \in Tinies :
               /\ srv' = Packed(after, <<>>)
               /\ down' = down \o PackAll(srv.pack_id, ServerChunks(srv, <<>>), tiny)
       \/ LeaveProtocol(left)
       \/ srv' = [srv EXCEPT !.dead = TRUE] /\ UNCHANGED <<gotUp, down>>
  BY <1>4, <1>7 DEF ServerFrames
<1> QED
  BY <1>12, <1>13, <1>16, <1>17, <1>18

\* What a complete header carries.
LEMMA HeaderData ==
  ASSUME kind \in {"sha1", "aes", "chain"}, NEW b \in Seq(Cells), NEW o, NEW q, NEW g,
         AllGenuine(b, o, q, g), kind = "chain" => o[0] = 0,
         "complete" \in HeaderVerdicts(b), NEW len, len = Len(HeaderParts)
  PROVE  len \in Nat /\ b[len].data = SubSeq(g, 1, o[0])
<1>1. PICK bad : bad = {i \in 1..Len(b) : i <= len /\ ~Fits(b[i], HeaderParts[i], 0)}
  OBVIOUS
<1>2. bad = {} /\ Len(b) >= len
  <2>1. PICK A, B, D : /\ A = (bad = {} /\ Len(b) < len) /\ B = (bad = {} /\ Len(b) >= len)
                       /\ D = (1 \notin bad /\ 2 \in bad /\ kind = "aes")
    OBVIOUS
  <2>2. HeaderVerdicts(b) = CASE A -> {"wait"} [] B -> {"complete"}
                              [] D -> {"wait", "nomatch"} [] OTHER -> {"nomatch"}
    BY <1>1, <2>1 DEF HeaderVerdicts
  <2>3. "complete" \notin {"wait"} /\ "complete" \notin {"wait", "nomatch"}
        /\ "complete" \notin {"nomatch"}
    OBVIOUS
  <2>4. B
    BY <2>2, <2>3
  <2>5. bad = {} /\ Len(b) >= len
    BY <2>1, <2>4
  <2> QED
    BY <2>5
<1>3. /\ len \in {2, 3}
      /\ HeaderParts[len] = IF kind = "chain" THEN "auth" ELSE "body"
  <2>1. CASE kind = "sha1"
    <3>1. HeaderParts = <<"check", "body">>
      BY <2>1 DEF HeaderParts
    <3> QED
      BY <2>1, <3>1
  <2>2. CASE kind = "aes"
    <3>1. HeaderParts = <<"check", "auth", "body">>
      BY <2>2 DEF HeaderParts
    <3> QED
      BY <2>2, <3>1
  <2>3. CASE kind = "chain"
    <3>1. HeaderParts = <<"check", "auth">>
      BY <2>3 DEF HeaderParts
    <3> QED
      BY <2>3, <3>1
  <2> QED
    BY <2>1, <2>2, <2>3
<1>4. len \in 1..Len(b) /\ len <= len
  BY <1>2, <1>3
<1>5. PICK x : x = b[len]
  OBVIOUS
<1>6. Fits(x, HeaderParts[len], 0)
  BY <1>1, <1>2, <1>4, <1>5
<1>7. Genuine(x, o, q, g)
  BY <1>4, <1>5 DEF AllGenuine
<1>8. x.ok /\ x.part = HeaderParts[len]
  BY <1>6 DEF Fits
<1>9. CASE kind = "chain"
  <2>1. x.data = <<>>
    BY <1>3, <1>7, <1>8, <1>9 DEF Genuine
  <2>2. SubSeq(g, 1, 0) = <<>>
    BY SubSeqEmpty
  <2> QED
    BY <1>3, <1>5, <1>9, <2>1, <2>2
<1>10. CASE kind # "chain"
  BY <1>3, <1>5, <1>7, <1>8, <1>10 DEF Genuine
<1> QED
  BY <1>9, <1>10

\* server_post_decrypt.
LEMMA ServerReceiveData ==
  ASSUME DataInv, NEW n \in 1..Len(up), ServerReceive(n)
  PROVE  DataInv' /\ Grows(gotUp, gotUp', givenUp)
<1>1. /\ srv \in Sides /\ cli \in Sides /\ up \in Seq(Cells) /\ inserts \in Nat
      /\ kind \in {"sha1", "aes", "chain"}
      /\ UNCHANGED <<kind, cli, givenUp, givenDown, gotDown, faulty>>
      /\ up' = SubSeq(up, n + 1, Len(up))
  BY StreamAssumption DEF DataInv, TypeOK, ServerReceive
<1>2. cli.hasHeader
  <2>1. up # <<>>
    OBVIOUS
  <2> QED
    BY <2>1 DEF DataInv, NotYet
<1>3. PICK q, b : q = cli.pack_id - 1 /\ b = srv.recv_buf \o SubSeq(up, 1, n)
  OBVIOUS
<1>4. PICK o : UpRel(o, cli.pack_id - 1, givenUp, kind = "chain", srv.recv_buf, up,
                     srv.recv_id - 1, srv.hasHeader, gotUp)
  BY DEF DataInv, UpInv
<1>5. /\ AllGenuine(srv.recv_buf, o, q, givenUp) /\ AllGenuine(up, o, q, givenUp)
      /\ (kind = "chain" => o[0] = 0)
  BY <1>3, <1>4 DEF UpRel
<1>6. srv.recv_buf \in Seq(Cells)
  BY <1>1 DEF Sides
<1>7. up' \in Seq(Cells) /\ AllGenuine(up', o, q, givenUp)
  <2>1. n \in Nat /\ Len(up) \in Nat /\ Len(up) <= Len(up)
    BY <1>1
  <2> QED
    BY <1>1, <1>5, <2>1, PartGenuine
<1>8. b \in Seq(Cells) /\ AllGenuine(b, o, q, givenUp)
  <2>1. PICK c : c = SubSeq(up, 1, n)
    OBVIOUS
  <2>2. n \in Nat /\ n <= Len(up) /\ 0 \in Nat /\ 0 + 1 = 1
    BY <1>1
  <2>3. SubSeq(up, 0 + 1, n) \in Seq(Cells) /\ AllGenuine(SubSeq(up, 0 + 1, n), o, q, givenUp)
    BY <1>1, <1>5, <2>2, PartGenuine
  <2>4. c \in Seq(Cells) /\ AllGenuine(c, o, q, givenUp)
    BY <2>1, <2>2, <2>3
  <2> QED
    BY <1>3, <1>5, <1>6, <2>1, <2>4, JoinGenuine
<1>9. ASSUME inserts' \in Nat, srv' \in Sides, srv'.recv_buf \in {b, srv.recv_buf},
             srv'.recv_id = srv.recv_id, srv'.hasHeader = srv.hasHeader,
             srv'.pack_id = srv.pack_id, gotUp' = gotUp, down' = down
      PROVE  DataInv' /\ Grows(gotUp, gotUp', givenUp)
  <2>1. /\ AllGenuine(srv'.recv_buf, o, cli.pack_id - 1, givenUp)
        /\ AllGenuine(up', o, cli.pack_id - 1, givenUp)
    BY <1>3, <1>5, <1>7, <1>8, <1>9
  <2> QED
    BY <1>1, <1>2, <1>4, <1>7, <1>9, <2>1, ServerKeeps
<1>10. ASSUME LeaveProtocol(b), inserts' \in Nat
       PROVE  DataInv' /\ Grows(gotUp, gotUp', givenUp)
  <2>1. srv' = [srv EXCEPT !.raw = TRUE, !.recv_buf = b] /\ gotUp' = gotUp /\ down' = down
    BY <1>10 DEF LeaveProtocol
  <2>2. /\ srv' \in Sides /\ srv'.recv_buf = b /\ srv'.recv_id = srv.recv_id
        /\ srv'.hasHeader = srv.hasHeader /\ srv'.pack_id = srv.pack_id
    BY <1>1, <1>8, <2>1 DEF Sides
  <2> QED
    BY <1>9, <1>10, <2>1, <2>2
<1>11. ASSUME NEW c \in Seq(Cells), AllGenuine(c, o, q, givenUp), NEW head, NEW sendback,
              head = IF srv.hasHeader THEN <<>> ELSE SubSeq(givenUp, 1, o[0]),
              ServerFrames(c, head, sendback), inserts' \in Nat
       PROVE  DataInv' /\ Grows(gotUp, gotUp', givenUp)
  <2>1. /\ AllGenuine(c, o, cli.pack_id - 1, givenUp)
        /\ AllGenuine(up', o, cli.pack_id - 1, givenUp)
    BY <1>3, <1>7, <1>11
  <2> QED
    BY <1>1, <1>2, <1>4, <1>7, <1>11, <2>1, FramesData
<1>12. CASE srv.raw /\ UNCHANGED <<srv, gotUp, down, inserts>>
  BY <1>1, <1>9, <1>12
<1>13. CASE srv.hasHeader /\ ServerFrames(b, <<>>, FALSE) /\ UNCHANGED inserts
  <2>1. PICK E, f : E = <<>> /\ f = FALSE
    OBVIOUS
  <2>2. ServerFrames(b, E, f) /\ E = IF srv.hasHeader THEN <<>> ELSE SubSeq(givenUp, 1, o[0])
    BY <1>13, <2>1
  <2>3. inserts' \in Nat
    BY <1>1, <1>13
  <2> QED
    BY <1>8, <1>11, <2>2, <2>3
<1>14. CASE srv' = [srv EXCEPT !.recv_buf = b] /\ UNCHANGED <<gotUp, down, inserts>>
  <2>1. /\ srv' \in Sides /\ srv'.recv_buf = b /\ srv'.recv_id = srv.recv_id
        /\ srv'.hasHeader = srv.hasHeader /\ srv'.pack_id = srv.pack_id
    BY <1>1, <1>8, <1>14 DEF Sides
  <2>2. inserts' \in Nat
    BY <1>1, <1>14
  <2> QED
    BY <1>9, <1>14, <2>1, <2>2
<1>15. CASE LeaveProtocol(b) /\ UNCHANGED inserts
  <2>1. inserts' \in Nat
    BY <1>1, <1>15
  <2> QED
    BY <1>10, <1>15, <2>1
<1>16. CASE ~srv.hasHeader /\ "complete" \in HeaderVerdicts(b) /\ ServerHeader(b)
  <2>1. PICK len : len = Len(HeaderParts)
    OBVIOUS
  <2>2. len \in Nat /\ b[len].data = SubSeq(givenUp, 1, o[0])
    BY <1>1, <1>5, <1>8, <1>16, <2>1, HeaderData
  <2>3. PICK c, head, t : c = SubSeq(b, len + 1, Len(b)) /\ head = b[len].data /\ t = TRUE
    OBVIOUS
  <2>4. c \in Seq(Cells) /\ AllGenuine(c, o, q, givenUp)
    <3>1. Len(b) \in Nat /\ Len(b) <= Len(b)
      BY <1>8
    <3> QED
      BY <1>8, <2>2, <2>3, <3>1, PartGenuine
  <2>5. head = IF srv.hasHeader THEN <<>> ELSE SubSeq(givenUp, 1, o[0])
    BY <1>16, <2>2, <2>3
  <2>6. \/ inserts' \in {inserts, inserts + 1} /\ LeaveProtocol(b)
        \/ inserts' = 1 /\ ServerFrames(c, head, t)
    BY <1>16, <2>1, <2>3 DEF ServerHeader
  <2>7. inserts' \in Nat
    <3>1. \/ inserts' \in {inserts, inserts + 1} \/ inserts' = 1
      BY <2>6
    <3> QED
      BY <1>1, <3>1
  <2> QED
    BY <1>10, <1>11, <2>4, <2>5, <2>6, <2>7
<1> QED
  BY <1>3, <1>12, <1>13, <1>14, <1>15, <1>16 DEF ServerReceive

\* A step of the client, once the direction it reads is known to be related again.
LEMMA ClientStep ==
  ASSUME DataInv, UNCHANGED <<kind, srv, up, givenUp, gotUp, givenDown, inserts, faulty>>,
         cli' \in Sides, cli'.pack_id = cli.pack_id, cli'.hasHeader = cli.hasHeader,
         down' \in Seq(Cells), DownInv'
  PROVE  DataInv'
<1>1. /\ srv \in Sides /\ givenDown \in Seq(1..MaxDown) /\ MaxDown \in Nat
  BY StreamAssumption DEF DataInv, TypeOK
<1>2. PICK q, ch, d, rb, o :
        /\ q = srv'.pack_id - 1 /\ ch = (kind' = "chain")
        /\ DownRel(o, q, givenDown', ch, rb, down', d, gotDown')
  BY DEF DownInv
<1>3. q \in Nat
  BY <1>1, <1>2 DEF Sides
<1>4. gotDown' \in Seq(1..MaxDown)
  <2>1. PICK g, got, w, S : g = givenDown' /\ got = gotDown' /\ w = down' /\ S = 1..MaxDown
    OBVIOUS
  <2>2. g \in Seq(S) /\ DownRel(o, q, g, ch, rb, w, d, got)
    BY <1>1, <1>2, <2>1
  <2>3. g \in Seq(Nat)
    <3>1. S \subseteq Nat
      BY <2>1
    <3> QED
      BY <2>2, <3>1, SeqMonotonic
  <2>4. ch \in BOOLEAN
    BY <1>2
  <2>5. got \in Seq(S)
    BY <1>3, <2>2, <2>3, <2>4, DownTyped
  <2> QED
    BY <2>1, <2>5
<1>5. TypeOK'
  BY <1>4 DEF DataInv, TypeOK
<1>6. UpInv' /\ NotYet'
  BY DEF DataInv, UpInv, NotYet
<1> QED
  BY <1>5, <1>6 DEF DataInv

\* client_post_decrypt.
LEMMA ClientReceiveData ==
  ASSUME DataInv, NEW n \in 1..Len(down), ClientReceive(n)
  PROVE  DataInv' /\ Grows(gotDown, gotDown', givenDown)
<1>1. /\ srv \in Sides /\ cli \in Sides /\ down \in Seq(Cells)
      /\ givenDown \in Seq(1..MaxDown) /\ MaxDown \in Nat
      /\ UNCHANGED <<kind, srv, up, givenUp, gotUp, givenDown, inserts, faulty>>
      /\ down' = SubSeq(down, n + 1, Len(down))
  BY StreamAssumption DEF DataInv, TypeOK, ClientReceive
<1>2. givenDown \in Seq(Nat)
  <2>1. 1..MaxDown \subseteq Nat
    OBVIOUS
  <2> QED
    BY <1>1, <2>1, SeqMonotonic
<1>3. PICK q, ch, d, rb, b, g :
        /\ q = srv.pack_id - 1 /\ ch = (kind = "chain") /\ d = cli.recv_id - 1
        /\ rb = cli.recv_buf /\ b = cli.recv_buf \o SubSeq(down, 1, n)
        /\ g = Framed(ch, q, givenDown)
  OBVIOUS
<1>4. q \in Nat /\ ch \in BOOLEAN /\ d \in Nat /\ d + 1 = cli.recv_id
      /\ (d = 0 <=> cli.recv_id = 1)
  <2>1. srv.pack_id \in Nat \ {0} /\ cli.recv_id \in Nat \ {0}
    BY <1>1 DEF Sides
  <2>2. q \in Nat /\ d \in Nat /\ d + 1 = cli.recv_id /\ (d = 0 <=> cli.recv_id = 1)
    BY <1>3, <2>1
  <2>3. ch \in BOOLEAN
    BY <1>3
  <2> QED
    BY <2>2, <2>3
<1>5. PICK o : DownRel(o, q, givenDown, ch, rb, down, d, gotDown)
  BY <1>3 DEF DataInv, DownInv
<1>6. AllGenuine(rb, o, q, g) /\ AllGenuine(down, o, q, g)
  BY <1>3, <1>5 DEF DownRel
<1>7. rb \in Seq(Cells)
  BY <1>1, <1>3 DEF Sides
<1>8. down' \in Seq(Cells) /\ AllGenuine(down', o, q, g)
  <2>1. n \in Nat /\ Len(down) \in Nat /\ Len(down) <= Len(down)
    BY <1>1
  <2> QED
    BY <1>1, <1>6, <2>1, PartGenuine
<1>9. b \in Seq(Cells) /\ AllGenuine(b, o, q, g)
  <2>1. PICK c : c = SubSeq(down, 1, n)
    OBVIOUS
  <2>2. n \in Nat /\ n <= Len(down) /\ 0 \in Nat /\ 0 + 1 = 1
    BY <1>1
  <2>3. SubSeq(down, 0 + 1, n) \in Seq(Cells) /\ AllGenuine(SubSeq(down, 0 + 1, n), o, q, g)
    BY <1>1, <1>6, <2>2, PartGenuine
  <2>4. c \in Seq(Cells) /\ AllGenuine(c, o, q, g)
    BY <2>1, <2>2, <2>3
  <2> QED
    BY <1>3, <1>6, <1>7, <2>1, <2>4, JoinGenuine
<1>10. PICK k, left, f, r, v :
         /\ k = NumGood(b, cli.recv_id) /\ left = SubSeq(b, 2 * k + 1, Len(b))
         /\ f = FlattenSeq(FrameData(b, k)) /\ r = WithoutMSS(k, f) /\ v = down'
  OBVIOUS
<1>11. HandsDown(o, q, givenDown, ch, b, k, v, d, gotDown, r)
  <2>1. k = NumGood(b, d + 1)
    BY <1>4, <1>10
  <2>2. r = IF ch /\ d = 0 /\ k > 0 THEN Tail(f) ELSE f
    BY <1>3, <1>4, <1>10 DEF WithoutMSS
  <2>3. AllGenuine(b, o, q, Framed(ch, q, givenDown)) /\ AllGenuine(v, o, q, Framed(ch, q, givenDown))
    BY <1>3, <1>8, <1>9, <1>10
  <2> QED
    BY <1>2, <1>4, <1>5, <1>9, <1>10, <2>1, <2>2, <2>3, DownGets
<1>12. /\ k \in Nat /\ left \in Seq(Cells) /\ Grows(gotDown, gotDown \o r, givenDown)
       /\ DownRel(o, q, givenDown, ch, left, v, d + k, gotDown \o r)
  BY <1>10, <1>11 DEF HandsDown
<1>13. PICK id : id = cli.recv_id + k
  OBVIOUS
<1>14. id \in Nat \ {0} /\ id - 1 = d + k
  <2>1. id = (d + 1) + k
    BY <1>4, <1>13
  <2> QED
    BY <1>4, <1>12, <2>1
<1>15. CASE cli' = [cli EXCEPT !.recv_buf = left, !.recv_id = id] /\ gotDown' = gotDown \o r
  <2>1. /\ cli' \in Sides /\ cli'.pack_id = cli.pack_id /\ cli'.hasHeader = cli.hasHeader
        /\ cli'.recv_buf = left /\ cli'.recv_id = id
    BY <1>1, <1>12, <1>14, <1>15 DEF Sides
  <2>2. DownInv'
    <3>1. cli'.recv_id - 1 = d + k
      BY <1>14, <2>1
    <3>2. DownRel(o, q, givenDown', kind' = "chain", cli'.recv_buf, down',
                  cli'.recv_id - 1, gotDown')
      BY <1>1, <1>3, <1>10, <1>12, <1>15, <2>1, <3>1
    <3> QED
      BY <1>1, <1>3, <3>2 DEF DownInv
  <2>3. DataInv'
    BY <1>1, <1>8, <2>1, <2>2, ClientStep
  <2> QED
    BY <1>12, <1>15, <2>3
<1>16. CASE cli' = [cli EXCEPT !.dead = TRUE] /\ UNCHANGED gotDown
  <2>1. /\ cli' \in Sides /\ cli'.pack_id = cli.pack_id /\ cli'.hasHeader = cli.hasHeader
        /\ cli'.recv_buf = rb /\ cli'.recv_id = cli.recv_id
    BY <1>1, <1>3, <1>16 DEF Sides
  <2>2. DownRel(o, q, givenDown, ch, rb, v, d, gotDown)
    BY <1>3, <1>5, <1>8, <1>10 DEF DownRel
  <2>3. DownInv'
    BY <1>1, <1>3, <1>10, <1>16, <2>1, <2>2 DEF DownInv
  <2>4. DataInv'
    BY <1>1, <1>8, <2>1, <2>3, ClientStep
  <2> QED
    BY <1>16, <2>4 DEF Grows
<1>17. \/ cli' = [cli EXCEPT !.recv_buf = left, !.recv_id = id] /\ gotDown' = gotDown \o r
       \/ cli' = [cli EXCEPT !.dead = TRUE] /\ UNCHANGED gotDown
  BY <1>3, <1>10, <1>13 DEF ClientReceive
<1> QED
  BY <1>15, <1>16, <1>17

\* What a server in raw transfer sends, and what the network does, adds nothing
\* genuine.
LEMMA DownAltered ==
  ASSUME DataInv, UNCHANGED <<kind, cli, srv, up, givenUp, gotUp, givenDown, gotDown, inserts>>,
         faulty' \in BOOLEAN, down' \in Seq(Cells),
         \A o, q, g : AllGenuine(down, o, q, g) => AllGenuine(down', o, q, g)
  PROVE  DataInv'
<1>1. DownInv'
  <2>1. PICK o : DownRel(o, srv.pack_id - 1, givenDown, kind = "chain", cli.recv_buf, down,
                         cli.recv_id - 1, gotDown)
    BY DEF DataInv, DownInv
  <2>2. DownRel(o, srv.pack_id - 1, givenDown, kind = "chain", cli.recv_buf, down',
                cli.recv_id - 1, gotDown)
    BY <2>1 DEF DownRel
  <2> QED
    BY <2>2 DEF DownInv
<1>2. TypeOK'
  BY DEF DataInv, TypeOK
<1>3. UpInv' /\ NotYet'
  BY DEF DataInv, UpInv, NotYet
<1> QED
  BY <1>1, <1>2, <1>3 DEF DataInv

\* The network alters what the server has sent.
LEMMA AlterDownData == ASSUME DataInv, AlterDown PROVE DataInv'
<1>1. /\ UNCHANGED <<kind, cli, srv, up, givenUp, gotUp, givenDown, gotDown, inserts>>
      /\ faulty' \in BOOLEAN /\ down \in Seq(Cells)
  BY DEF DataInv, TypeOK, AlterDown
<1>2. PICK v \in Altered(down) : v = down'
  BY DEF AlterDown
<1>3. ASSUME NEW o, NEW q, NEW g, AllGenuine(down, o, q, g)
      PROVE  AllGenuine(down', o, q, g) /\ down' \in Seq(Cells)
  BY <1>1, <1>2, <1>3, AlteredGenuine
<1>4. down' \in Seq(Cells)
  BY <1>3 DEF DataInv, DownInv, DownRel
<1> QED
  BY <1>1, <1>3, <1>4, DownAltered

\* A server in raw transfer sends something.
LEMMA SendRawData == ASSUME DataInv, ServerSendRaw PROVE DataInv'
<1>1. /\ UNCHANGED <<kind, cli, srv, up, givenUp, gotUp, givenDown, gotDown, inserts>>
      /\ faulty' \in BOOLEAN /\ down \in Seq(Cells) /\ down' = Append(down, Unprotected)
  BY DEF DataInv, TypeOK, ServerSendRaw
<1>2. Unprotected \in Cells /\ Unprotected.ok = FALSE
  <2>1. PICK c, f : c = Cell(0, "raw", <<>>, FALSE) /\ f = FALSE
    OBVIOUS
  <2>2. f \in BOOLEAN
    BY <2>1
  <2>3. c \in Cells
    <3>1. 0 \in Nat /\ <<>> \in Seq(Nat)
      OBVIOUS
    <3> QED
      BY <2>1, <2>2, <3>1, CellType
  <2>4. Unprotected = [c EXCEPT !.ok = f]
    BY <2>1 DEF Unprotected
  <2> QED
    BY <2>1, <2>2, <2>3, <2>4 DEF Cells
<1>3. PICK x : x = Unprotected
  OBVIOUS
<1>4. /\ down' \in Seq(Cells) /\ Len(down') = Len(down) + 1
      /\ \A i \in 1..(Len(down) + 1) : down'[i] = IF i <= Len(down) THEN down[i] ELSE x
  BY <1>1, <1>2, <1>3, AppendProperties
<1>5. ASSUME NEW o, NEW q, NEW g, AllGenuine(down, o, q, g)
      PROVE  AllGenuine(down', o, q, g)
  <2>1. Genuine(x, o, q, g)
    BY <1>2, <1>3 DEF Genuine
  <2>2. ASSUME NEW i \in 1..(Len(down) + 1) PROVE Genuine(down'[i], o, q, g)
    <3>1. CASE i <= Len(down)
      <4>1. i \in 1..Len(down) /\ down'[i] = down[i]
        BY <1>1, <1>4, <3>1
      <4> QED
        BY <1>5, <4>1 DEF AllGenuine
    <3>2. CASE ~(i <= Len(down))
      BY <1>4, <2>1, <3>2
    <3> QED
      BY <3>1, <3>2
  <2> QED
    BY <1>4, <2>2 DEF AllGenuine
<1> QED
  BY <1>1, <1>4, <1>5, DownAltered

\* The network alters what the client has sent.
LEMMA AlterUpData == ASSUME DataInv, AlterUp PROVE DataInv'
<1>1. /\ UNCHANGED <<kind, cli, srv, down, givenUp, gotUp, givenDown, gotDown, inserts>>
      /\ faulty' \in BOOLEAN /\ up \in Seq(Cells)
  BY DEF DataInv, TypeOK, AlterUp
<1>2. PICK v \in Altered(up) : v = up'
  BY DEF AlterUp
<1>3. ASSUME NEW o, NEW q, NEW g, AllGenuine(up, o, q, g)
      PROVE  AllGenuine(up', o, q, g) /\ up' \in Seq(Cells)
  BY <1>1, <1>2, <1>3, AlteredGenuine
<1>4. PICK o : UpRel(o, cli.pack_id - 1, givenUp, kind = "chain", srv.recv_buf, up,
                     srv.recv_id - 1, srv.hasHeader, gotUp)
  BY DEF DataInv, UpInv
<1>5. AllGenuine(up', o, cli.pack_id - 1, givenUp) /\ up' \in Seq(Cells)
  BY <1>3, <1>4 DEF UpRel
<1>6. UpRel(o, cli.pack_id - 1, givenUp, kind = "chain", srv.recv_buf, up',
            srv.recv_id - 1, srv.hasHeader, gotUp)
  BY <1>4, <1>5 DEF UpRel
<1>7. UpInv'
  BY <1>1, <1>6 DEF UpInv
<1>8. DownInv' /\ TypeOK'
  BY <1>1, <1>5 DEF DataInv, DownInv, TypeOK
<1>9. NotYet'
  <2>1. up # <<>>
    <3>1. Altered(<<>>) = {}
      BY DEF Altered, FrameAt
    <3> QED
      BY <1>2, <3>1
  <2> QED
    BY <1>1, <2>1 DEF DataInv, NotYet
<1> QED
  BY <1>7, <1>8, <1>9 DEF DataInv

\* The two streams are empty.
LEMMA InitData == Init => DataInv
<1> SUFFICES ASSUME Init PROVE DataInv
  OBVIOUS
<1>1. /\ kind \in Kinds /\ cli = NewSide /\ srv = NewSide /\ up = <<>> /\ down = <<>>
      /\ givenUp = <<>> /\ gotUp = <<>> /\ givenDown = <<>> /\ gotDown = <<>>
      /\ inserts = 0 /\ faulty = FALSE
  BY DEF Init
<1>2. /\ NewSide \in Sides /\ NewSide.pack_id = 1 /\ NewSide.recv_id = 1
      /\ NewSide.recv_buf = <<>> /\ NewSide.hasHeader = FALSE
  BY DEF NewSide, Sides
<1>3. TypeOK
  <2>1. /\ <<>> \in Seq(Cells) /\ <<>> \in Seq(1..MaxUp) /\ <<>> \in Seq(1..MaxDown)
        /\ 0 \in Nat
    OBVIOUS
  <2>2. FALSE \in BOOLEAN
    OBVIOUS
  <2> QED
    BY <1>1, <1>2, <2>1, <2>2, Zenon DEF TypeOK
<1>4. NotYet
  BY <1>1, <1>2 DEF NotYet
<1>5. PICK o : o = [j \in Nat |-> 0]
  OBVIOUS
<1>6. /\ Ends(o, 0, <<>>) /\ o[0] = 0
  BY <1>5 DEF Ends, Upward
<1>7. AllGenuine(<<>>, o, 0, <<>>)
  BY DEF AllGenuine
<1>8. 1 - 1 = 0 /\ 0 \in 0..0 /\ ~(0 > 0)
  OBVIOUS
<1>9. UpRel(o, 0, <<>>, kind = "chain", <<>>, <<>>, 0, FALSE, <<>>)
  BY <1>6, <1>7, <1>8 DEF UpRel
<1>10. UpInv
  BY <1>1, <1>2, <1>8, <1>9 DEF UpInv
<1>11. Framed(kind = "chain", 0, <<>>) = <<>> /\ Mss(kind = "chain", 0) = 0
  BY <1>8 DEF Framed, Mss
<1>12. SubSeq(<<>>, 1, 0) = <<>> /\ 0 - 0 = 0
  BY SubSeqEmpty
<1>13. DownRel(o, 0, <<>>, kind = "chain", <<>>, <<>>, 0, <<>>)
  BY <1>6, <1>7, <1>8, <1>11, <1>12 DEF DownRel
<1>14. DownInv
  BY <1>1, <1>2, <1>8, <1>13 DEF DownInv
<1> QED
  BY <1>3, <1>4, <1>10, <1>14 DEF DataInv

\* What a step may do to the two streams.
UpStep ==
  \/ IsStrictPrefix(givenUp, givenUp') /\ UNCHANGED <<gotUp, srv>>
  \/ givenUp' = givenUp /\ Grows(gotUp, gotUp', givenUp)

\* And on the way back, where the client fails for good.
DownStep ==
  \/ IsStrictPrefix(givenDown, givenDown') /\ UNCHANGED <<gotDown, cli>>
  \/ /\ givenDown' = givenDown /\ Grows(gotDown, gotDown', givenDown)
     /\ cli.dead => cli'.dead /\ gotDown' = gotDown
     /\ cli'.dead # cli.dead => cli'.dead /\ gotDown' = gotDown

\* Each step keeps the relation.
LEMMA NextData ==
  ASSUME DataInv, [Next]_vars
  PROVE  DataInv' /\ UpStep /\ DownStep
<1>1. cli \in Sides
  BY DEF DataInv, TypeOK
<1>2. ASSUME NEW n \in 1..MaxWrite, ClientSend(n) PROVE DataInv' /\ UpStep /\ DownStep
  <2>1. DataInv' /\ IsStrictPrefix(givenUp, givenUp')
    BY <1>2, ClientSendData
  <2>2. UNCHANGED <<srv, gotUp, givenDown, gotDown>>
    BY <1>2 DEF ClientSend
  <2>3. cli'.dead = cli.dead
    <3>1. PICK p : cli' = [cli EXCEPT !.pack_id = p, !.hasHeader = TRUE]
      BY <1>2 DEF ClientSend
    <3> QED
      BY <1>1, <3>1 DEF Sides
  <2> QED
    BY <2>1, <2>2, <2>3 DEF UpStep, DownStep, Grows
<1>3. ASSUME NEW n \in 1..MaxWrite, ServerSend(n) PROVE DataInv' /\ UpStep /\ DownStep
  <2>1. DataInv' /\ IsStrictPrefix(givenDown, givenDown')
    BY <1>3, ServerSendData
  <2>2. UNCHANGED <<cli, givenUp, gotUp, gotDown>>
    BY <1>3 DEF ServerSend
  <2> QED
    BY <2>1, <2>2 DEF UpStep, DownStep, Grows
<1>4. ASSUME NEW n \in 1..Len(up), ServerReceive(n) PROVE DataInv' /\ UpStep /\ DownStep
  <2>1. DataInv' /\ Grows(gotUp, gotUp', givenUp)
    BY <1>4, ServerReceiveData
  <2>2. UNCHANGED <<cli, givenUp, givenDown, gotDown>>
    BY <1>4 DEF ServerReceive
  <2> QED
    BY <2>1, <2>2 DEF UpStep, DownStep, Grows
<1>5. ASSUME NEW n \in 1..Len(down), ClientReceive(n) PROVE DataInv' /\ UpStep /\ DownStep
  <2>1. DataInv' /\ Grows(gotDown, gotDown', givenDown)
    BY <1>5, ClientReceiveData
  <2>2. UNCHANGED <<srv, givenUp, gotUp, givenDown>> /\ ~cli.dead
    BY <1>5 DEF ClientReceive
  <2>3. (cli'.dead = cli.dead) \/ (cli'.dead /\ gotDown' = gotDown)
    <3>1. PICK rb, id : \/ cli' = [cli EXCEPT !.recv_buf = rb, !.recv_id = id]
                        \/ cli' = [cli EXCEPT !.dead = TRUE] /\ gotDown' = gotDown
      BY <1>5 DEF ClientReceive
    <3> QED
      BY <1>1, <3>1 DEF Sides
  <2> QED
    BY <2>1, <2>2, <2>3 DEF UpStep, DownStep, Grows
<1>6. CASE ServerSendRaw \/ AlterUp \/ AlterDown
  <2>1. DataInv'
    BY <1>6, SendRawData, AlterUpData, AlterDownData
  <2>2. UNCHANGED <<cli, srv, givenUp, gotUp, givenDown, gotDown>>
    BY <1>6 DEF ServerSendRaw, AlterUp, AlterDown
  <2> QED
    BY <2>1, <2>2 DEF UpStep, DownStep, Grows
<1>7. CASE UNCHANGED vars
  <2>1. DataInv'
    BY <1>7 DEF vars, DataInv, TypeOK, UpInv, DownInv, NotYet
  <2> QED
    BY <1>7, <2>1 DEF vars, UpStep, DownStep, Grows
<1> QED
  BY <1>2, <1>3, <1>4, <1>5, <1>6, <1>7 DEF Next

\* The invariant holds all the time.
LEMMA DataInvariant == Spec => []DataInv
<1>1. DataInv /\ [Next]_vars => DataInv'
  BY NextData
<1> QED
  BY <1>1, InitData, PTL DEF Spec

\* The plugin objects, the cells in flight and the two streams have their types:
\* pack_id and recv_id never fall to 0, and what server_post_decrypt and
\* client_post_decrypt hand out consists of units that were handed over.
THEOREM TypeCorrect == Spec => []TypeOK
<1>1. DataInv => TypeOK
  BY DEF DataInv
<1> QED
  BY <1>1, DataInvariant, PTL

\* client_post_decrypt implements the abstract stream Channel: what it hands out
\* is, after every call, a prefix of what the destination has sent, without the
\* MSS of auth_chain, however the frames are cut into pieces, changed, lost or
\* repeated, and after an exception nothing follows.
THEOREM DownRefines == Spec => DownStream
<1>1. Init => DownChannel!Init
  BY DEF Init, NewSide, DownChannel!Init
<1>2. DataInv /\ [Next]_vars => [DownChannel!Next]_(DownChannel!vars)
  <2> SUFFICES ASSUME DataInv, [Next]_vars PROVE [DownChannel!Next]_(DownChannel!vars)
    OBVIOUS
  <2>1. DownStep
    BY NextData
  <2>2. cli.dead \in BOOLEAN
    BY DEF DataInv, TypeOK, Sides
  <2>3. CASE IsStrictPrefix(givenDown, givenDown') /\ UNCHANGED <<gotDown, cli>>
    <3>1. DownChannel!IsStrictPrefix(givenDown, givenDown')
      BY <2>3 DEF IsStrictPrefix, IsPrefix, DownChannel!IsStrictPrefix, DownChannel!IsPrefix
    <3> QED
      BY <2>3, <3>1 DEF DownChannel!Next, DownChannel!Give
  <2>4. CASE /\ givenDown' = givenDown /\ Grows(gotDown, gotDown', givenDown)
             /\ cli.dead => cli'.dead /\ gotDown' = gotDown
             /\ cli'.dead # cli.dead => cli'.dead /\ gotDown' = gotDown
    <3>1. CASE gotDown' = gotDown
      BY <2>2, <2>4, <3>1 DEF DownChannel!Next, DownChannel!Fail, DownChannel!vars
    <3>2. CASE gotDown' # gotDown
      <4>1. IsStrictPrefix(gotDown, gotDown') /\ IsPrefix(gotDown', givenDown)
        BY <2>4, <3>2 DEF Grows
      <4>2. DownChannel!IsStrictPrefix(gotDown, gotDown')
        BY <4>1 DEF IsStrictPrefix, IsPrefix, DownChannel!IsStrictPrefix, DownChannel!IsPrefix
      <4>3. DownChannel!IsPrefix(gotDown', givenDown)
        BY <4>1 DEF IsPrefix, DownChannel!IsPrefix
      <4>4. ~cli.dead /\ cli'.dead = cli.dead
        BY <2>4, <3>2
      <4> QED
        BY <2>4, <4>2, <4>3, <4>4 DEF DownChannel!Next, DownChannel!Get
    <3> QED
      BY <3>1, <3>2
  <2> QED
    BY <2>1, <2>3, <2>4 DEF DownStep
<1>3. DownChannel!Init /\ [][DownChannel!Next]_(DownChannel!vars) => DownStream
  BY DEF DownStream, DownChannel!Spec
<1> QED
  BY <1>1, <1>2, <1>3, DataInvariant, PTL DEF Spec

\* server_post_decrypt implements the abstract stream Channel: what it releases
\* is, after every call, a prefix of what the client was given, the header's data
\* included; after an exception nothing follows; and the protocol is left only by
\* a connection that has released nothing.
THEOREM UpRefines == Spec => UpStream
<1>1. Init => UpChannel!Init
  BY DEF Init, NewSide, UpChannel!Init
<1>2. DataInv /\ Inv /\ [Next]_vars => [UpChannel!Next]_(UpChannel!vars)
  <2> SUFFICES ASSUME DataInv, Inv, [Next]_vars PROVE [UpChannel!Next]_(UpChannel!vars)
    OBVIOUS
  <2>1. UpStep /\ Inv'
    BY NextData, NextInv
  <2>2. /\ srv.dead \in BOOLEAN /\ srv.raw \in BOOLEAN
        /\ srv'.dead \in BOOLEAN /\ srv'.raw \in BOOLEAN
    BY <2>1 DEF Inv, HeaderInv
  <2>3. CASE UNCHANGED vars
    BY <2>3 DEF vars, UpChannel!vars
  <2>4. CASE IsStrictPrefix(givenUp, givenUp') /\ UNCHANGED <<gotUp, srv>>
    <3>1. UpChannel!IsStrictPrefix(givenUp, givenUp')
      BY <2>4 DEF IsStrictPrefix, IsPrefix, UpChannel!IsStrictPrefix, UpChannel!IsPrefix
    <3> QED
      BY <2>4, <3>1 DEF UpChannel!Next, UpChannel!Give
  <2>5. CASE UpModeStep /\ givenUp' = givenUp /\ Grows(gotUp, gotUp', givenUp)
    <3>1. PICK m, n : m = UpMode /\ n = UpMode'
      OBVIOUS
    <3>2. /\ m # "open" => n = m /\ gotUp' = gotUp
          /\ n # m => gotUp' = gotUp
          /\ n = "left" => gotUp' = <<>>
      BY <2>5, <3>1 DEF UpModeStep
    <3>3. n \in {"open", "failed", "left"}
      BY <3>1 DEF UpMode
    <3>4. CASE gotUp' # gotUp
      <4>1. IsStrictPrefix(gotUp, gotUp') /\ IsPrefix(gotUp', givenUp)
        BY <2>5, <3>4 DEF Grows
      <4>2. UpChannel!IsStrictPrefix(gotUp, gotUp')
        BY <4>1 DEF IsStrictPrefix, IsPrefix, UpChannel!IsStrictPrefix, UpChannel!IsPrefix
      <4>3. UpChannel!IsPrefix(gotUp', givenUp)
        BY <4>1 DEF IsPrefix, UpChannel!IsPrefix
      <4>4. UpMode = "open" /\ UpMode' = UpMode
        BY <3>1, <3>2, <3>4
      <4> QED
        BY <2>5, <4>2, <4>3, <4>4 DEF UpChannel!Next, UpChannel!Get, UpMode
    <3>5. CASE gotUp' = gotUp /\ n = m
      BY <2>5, <3>1, <3>5 DEF UpChannel!vars, UpMode
    <3>6. CASE gotUp' = gotUp /\ n # m
      <4>1. m = "open"
        BY <3>2, <3>6
      <4>2. CASE n = "failed"
        BY <2>5, <3>1, <3>6, <4>1, <4>2 DEF UpChannel!Next, UpChannel!Fail, UpMode
      <4>3. CASE n = "left"
        <5>1. gotUp = <<>>
          BY <3>2, <3>6, <4>3
        <5> QED
          BY <2>5, <3>1, <3>6, <4>1, <4>3, <5>1 DEF UpChannel!Next, UpChannel!Leave, UpMode
      <4> QED
        BY <3>3, <3>6, <4>1, <4>2, <4>3
    <3> QED
      BY <3>4, <3>5, <3>6
  <2>6. UpModeStep \/ UNCHANGED vars
    BY NextInv
  <2> QED
    BY <2>1, <2>3, <2>4, <2>5, <2>6 DEF UpStep
<1>3. UpChannel!Init /\ [][UpChannel!Next]_(UpChannel!vars) => UpStream
  BY DEF UpStream, UpChannel!Spec
<1> QED
  BY <1>1, <1>2, <1>3, DataInvariant, Invariant, PTL DEF Spec

-----------------------------------------------------------------------------
(* Without a fault the frames on their way are in line.                    *)

\* Without a fault the cells on their way are those of the frames d + 1 to q.
Lined(w, d, q) ==
  /\ Len(w) = 2 * (q - d)
  /\ \A j \in 1..(q - d) :
       /\ Fits(w[2 * j - 1], "len", d + j) /\ Fits(w[2 * j], "rest", d + j)
       /\ w[2 * j].tiny => w[2 * j].data = <<>>

\* What may be left in a buffer: less than a frame, or one that is too short
\* to be looked at.
Idle(b) == Len(b) \in {0, 1} \/ Short(b)

\* The place of the next frame, j, when k have been taken.
FramePlace(k, L, V, M, d, j) ==
  /\ j \in 1..M /\ 2 * j - 1 = 2 * k + 1 /\ (d + 1) + j - 1 = d + j
  /\ d + j = (d + 1) + k /\ 2 * j - 1 \in 1..L /\ 2 * j - 1 \in 1..(L + V)
  /\ 2 * j \in 1..(L + V) /\ (k < L \div 2 => 2 * j \in 1..L)

\* It is in the buffer.
LEMMA NextPlace ==
  ASSUME NEW k \in Nat, NEW L \in Nat, NEW V \in Nat, NEW M \in Nat, NEW d \in Nat,
         L + V = 2 * M, NEW j, j = k + 1, 2 * k < L \/ k < L \div 2
  PROVE  FramePlace(k, L, V, M, d, j)
<1>1. 2 * k < L
  OBVIOUS
<1> QED
  BY <1>1 DEF FramePlace

\* Frames that are sent follow those on their way.
LEMMA LinedMore ==
  ASSUME NEW w \in Seq(Cells), NEW d \in Nat, NEW q \in Nat, d <= q, Lined(w, d, q),
         NEW p \in Seq(Cells), NEW C \in Seq(Seq(Nat)), NEW tiny,
         FramesOf(p, q + 1, C, tiny)
  PROVE  Lined(w \o p, d, q + Len(C))
<1>0. q - d \in Nat /\ Len(C) \in Nat
  OBVIOUS
<1>1. PICK M \in Nat, N \in Nat : M = q - d /\ N = Len(C)
  BY <1>0
<1>2. /\ Len(w) = 2 * M /\ Len(p) = 2 * N
      /\ \A j \in 1..M :
           /\ Fits(w[2 * j - 1], "len", d + j) /\ Fits(w[2 * j], "rest", d + j)
           /\ w[2 * j].tiny => w[2 * j].data = <<>>
      /\ \A j \in 1..N :
           /\ p[2 * j - 1] = Cell((q + 1) + j - 1, "len", <<>>, tiny /\ C[j] = <<>>)
           /\ p[2 * j] = Cell((q + 1) + j - 1, "rest", C[j], tiny /\ C[j] = <<>>)
  BY <1>1 DEF Lined, FramesOf
<1>3. PICK v : v = w \o p
  OBVIOUS
<1>4. /\ v \in Seq(Cells) /\ Len(v) = 2 * M + 2 * N
      /\ \A i \in 1..(2 * M + 2 * N) : v[i] = IF i <= 2 * M THEN w[i] ELSE p[i - 2 * M]
  <2>1. PICK A, B : A = 2 * M /\ B = 2 * N
    OBVIOUS
  <2>2. A = Len(w) /\ B = Len(p)
    BY <1>2, <2>1
  <2>3. Joint(Cells, v, w, p, A, B)
    BY <1>3, <2>2, Joined
  <2> QED
    BY <2>1, <2>3 DEF Joint
<1>5. (q + N) - d = M + N /\ 2 * M + 2 * N = 2 * (M + N)
  BY <1>1
<1>6. ASSUME NEW j \in 1..(M + N)
      PROVE  /\ Fits(v[2 * j - 1], "len", d + j) /\ Fits(v[2 * j], "rest", d + j)
             /\ v[2 * j].tiny => v[2 * j].data = <<>>
  <2>1. PICK a, b : a = 2 * j - 1 /\ b = 2 * j
    OBVIOUS
  <2>2. a \in 1..(2 * M + 2 * N) /\ b \in 1..(2 * M + 2 * N)
    BY <2>1
  <2>3. CASE j <= M
    <3>1. a <= 2 * M /\ b <= 2 * M /\ j \in 1..M
      BY <2>1, <2>3
    <3>2. v[a] = w[a] /\ v[b] = w[b]
      BY <1>4, <2>2, <3>1
    <3> QED
      BY <1>2, <2>1, <3>1, <3>2
  <2>4. CASE ~(j <= M)
    <3>1. PICK i : i = j - M
      OBVIOUS
    <3>2. /\ i \in 1..N /\ a - 2 * M = 2 * i - 1 /\ b - 2 * M = 2 * i
          /\ ~(a <= 2 * M) /\ ~(b <= 2 * M)
      BY <2>1, <2>4, <3>1
    <3>3. (q + 1) + i - 1 = d + j
      BY <1>1, <3>1
    <3>4. v[a] = p[2 * i - 1] /\ v[b] = p[2 * i]
      BY <1>4, <2>2, <3>2
    <3>5. PICK t : t = (tiny /\ C[i] = <<>>)
      OBVIOUS
    <3>6. v[a] = Cell(d + j, "len", <<>>, t) /\ v[b] = Cell(d + j, "rest", C[i], t)
      BY <1>2, <3>2, <3>3, <3>4, <3>5
    <3>7. /\ v[a].part = "len" /\ v[a].id = d + j /\ v[a].ok = TRUE
          /\ v[b].part = "rest" /\ v[b].id = d + j /\ v[b].ok = TRUE
          /\ v[b].tiny = t /\ v[b].data = C[i]
      BY <3>6 DEF Cell
    <3> QED
      BY <2>1, <3>5, <3>7 DEF Fits
  <2> QED
    BY <2>3, <2>4
<1>7. Lined(v, d, q + N)
  BY <1>4, <1>5, <1>6 DEF Lined
<1> QED
  BY <1>1, <1>3, <1>7

\* When the first k frames are taken the others are left.
LEMMA LinedRest ==
  ASSUME NEW w \in Seq(Cells), NEW d \in Nat, NEW q \in Nat, Lined(w, d, q),
         NEW k \in Nat, d + k <= q
  PROVE  Lined(SubSeq(w, 2 * k + 1, Len(w)), d + k, q)
<1>1. PICK M \in Nat, N \in Nat : M = q - d /\ N = q - (d + k)
  OBVIOUS
<1>2. /\ Len(w) = 2 * M /\ M = N + k
      /\ \A j \in 1..M :
           /\ Fits(w[2 * j - 1], "len", d + j) /\ Fits(w[2 * j], "rest", d + j)
           /\ w[2 * j].tiny => w[2 * j].data = <<>>
  BY <1>1 DEF Lined
<1>3. PICK s : s = SubSeq(w, 2 * k + 1, Len(w))
  OBVIOUS
<1>4. 2 * k \in Nat /\ 2 * k <= 2 * M /\ 2 * M - 2 * k = 2 * N /\ 2 * M <= 2 * M /\ 2 * M \in Nat
  BY <1>1, <1>2
<1>5. /\ Len(s) = 2 * N
      /\ \A i \in 1..(2 * N) : s[i] = w[2 * k + i]
  BY <1>2, <1>3, <1>4, PartIsSeq
<1>6. ASSUME NEW j \in 1..N
      PROVE  /\ Fits(s[2 * j - 1], "len", (d + k) + j) /\ Fits(s[2 * j], "rest", (d + k) + j)
             /\ s[2 * j].tiny => s[2 * j].data = <<>>
  <2>1. PICK i, a, b : i = k + j /\ a = 2 * j - 1 /\ b = 2 * j
    OBVIOUS
  <2>2. /\ a \in 1..(2 * N) /\ b \in 1..(2 * N) /\ i \in 1..M
        /\ 2 * k + a = 2 * i - 1 /\ 2 * k + b = 2 * i /\ d + i = (d + k) + j
    BY <1>1, <1>2, <2>1
  <2>3. s[a] = w[2 * i - 1] /\ s[b] = w[2 * i]
    BY <1>5, <2>2
  <2> QED
    BY <1>2, <2>1, <2>2, <2>3
<1> QED
  BY <1>1, <1>3, <1>5, <1>6 DEF Lined

\* The loop over frames that are in line takes all that are complete and waits.
Passed(b, v, d, q, k) ==
  /\ k \in Nat /\ d + k <= q /\ Idle(SubSeq(b, 2 * k + 1, Len(b)))
  /\ Lined(SubSeq(b, 2 * k + 1, Len(b)) \o v, d + k, q)
  /\ Verdicts(SubSeq(b, 2 * k + 1, Len(b)), (d + 1) + k) = {"wait"}

\* It does.
LEMMA Passes ==
  ASSUME NEW b \in Seq(Cells), NEW v \in Seq(Cells), NEW d \in Nat, NEW q \in Nat, d <= q,
         Lined(b \o v, d, q), NEW k, k = NumGood(b, d + 1)
  PROVE  Passed(b, v, d, q, k)
<1>0. Len(b) \in Nat /\ Len(v) \in Nat /\ q - d \in Nat
  OBVIOUS
<1>w. PICK w : w = b \o v
  OBVIOUS
<1>1. PICK L \in Nat, V \in Nat, M \in Nat : L = Len(b) /\ V = Len(v) /\ M = q - d
  BY <1>0
<1>2. /\ k \in 0..(L \div 2)
      /\ k < L \div 2 => ~GoodFrame(b, d + 1, k + 1)
  BY <1>1, TakesGood
<1>3. /\ w \in Seq(Cells) /\ Len(w) = L + V
      /\ \A i \in 1..(L + V) : w[i] = IF i <= L THEN b[i] ELSE v[i - L]
  BY <1>w, <1>1, ConcatProperties
<1>4. /\ Len(w) = 2 * M
      /\ \A j \in 1..M : Fits(w[2 * j - 1], "len", d + j) /\ Fits(w[2 * j], "rest", d + j)
  BY <1>w, <1>1 DEF Lined
<1>5. /\ L + V = 2 * M /\ L <= 2 * M /\ k \in Nat /\ k <= M /\ 2 * k <= L /\ d + k <= q
      /\ 2 * k \in Nat
  <2>1. L + V = 2 * M
    BY <1>3, <1>4
  <2>2. k \in 0..(L \div 2)
    BY <1>2
  <2>3. L <= 2 * M /\ k \in Nat /\ k <= M /\ 2 * k <= L /\ d + k <= q /\ 2 * k \in Nat
    BY <1>1, <2>1, <2>2
  <2> QED
    BY <2>1, <2>3
<1>6. PICK left : left = SubSeq(b, 2 * k + 1, Len(b))
  OBVIOUS
<1>7. /\ left \in Seq(Cells) /\ Len(left) = L - 2 * k
      /\ \A i \in 1..(L - 2 * k) : left[i] = b[2 * k + i]
  <2>1. PICK x : x = 2 * k
    OBVIOUS
  <2>2. x \in Nat /\ x <= L /\ left = SubSeq(b, x + 1, Len(b))
    BY <1>5, <1>6, <2>1
  <2>3. Dropped(Cells, left, b, x, L)
    BY <1>1, <2>2, DropFirst
  <2> QED
    BY <2>1, <2>3 DEF Dropped
<1>8. Lined(left \o v, d + k, q)
  <2>1. SubSeq(w, 2 * k + 1, Len(w)) = left \o v
    BY <1>w, <1>1, <1>5, <1>6, DropLeft
  <2>2. Lined(w, d, q)
    BY <1>w
  <2>3. Lined(SubSeq(w, 2 * k + 1, Len(w)), d + k, q)
    BY <1>3, <1>5, <2>2, LinedRest
  <2> QED
    BY <2>1, <2>3
<1>9. CASE k < L \div 2
  <2>1. PICK j : j = k + 1
    OBVIOUS
  <2>2. /\ j \in 1..M /\ 2 * j \in 1..L /\ 2 * j - 1 \in 1..L /\ (d + 1) + j - 1 = d + j
        /\ 2 * j - 1 = 2 * k + 1 /\ 2 * j \in 1..(L + V) /\ 2 * j - 1 \in 1..(L + V)
    <3>1. FramePlace(k, L, V, M, d, j)
      BY <1>5, <1>9, <2>1, NextPlace
    <3> QED
      BY <1>9, <3>1 DEF FramePlace
  <2>3. w[2 * j - 1] = b[2 * j - 1] /\ w[2 * j] = b[2 * j]
    BY <1>3, <2>2
  <2>4. Fits(b[2 * j - 1], "len", (d + 1) + j - 1) /\ Fits(b[2 * j], "rest", (d + 1) + j - 1)
    BY <1>4, <2>2, <2>3
  <2>5. ~GoodFrame(b, d + 1, j)
    BY <1>2, <1>9, <2>1
  <2>6. Short(SubSeq(b, 2 * j - 1, Len(b)))
    BY <2>4, <2>5 DEF GoodFrame
  <2>7. Short(left)
    BY <1>6, <2>2, <2>6
  <2> QED
    BY <1>5, <1>6, <1>8, <2>7 DEF Passed, Idle, Verdicts
<1>10. CASE ~(k < L \div 2)
  <2>1. L - 2 * k \in {0, 1}
    BY <1>2, <1>10
  <2>2. CASE L - 2 * k = 0
    <3>1. left = <<>>
      BY <1>7, <2>2, EmptySeq
    <3> QED
      BY <1>5, <1>6, <1>7, <1>8, <2>2, <3>1 DEF Passed, Idle, Verdicts
  <2>3. CASE L - 2 * k = 1
    <3>1. PICK j : j = k + 1
      OBVIOUS
    <3>2. /\ j \in 1..M /\ 2 * k + 1 = 2 * j - 1 /\ 2 * j - 1 \in 1..(L + V)
          /\ 2 * j - 1 \in 1..L /\ d + j = (d + 1) + k /\ 1 \in 1..(L - 2 * k)
      <4>1. 2 * k < L
        BY <1>5, <2>3
      <4>2. FramePlace(k, L, V, M, d, j)
        BY <1>5, <3>1, <4>1, NextPlace
      <4>3. 1 \in 1..(L - 2 * k)
        BY <2>3
      <4> QED
        BY <4>2, <4>3 DEF FramePlace
    <3>3. left[1] = b[2 * j - 1] /\ b[2 * j - 1] = w[2 * j - 1]
      <4>1. left[1] = b[2 * k + 1]
        BY <1>7, <3>2
      <4>2. PICK i : i = 2 * j - 1
        OBVIOUS
      <4>3. i \in 1..(L + V) /\ i <= L
        BY <3>2, <4>2
      <4>4. w[i] = b[i]
        BY <1>3, <4>3
      <4> QED
        BY <3>2, <4>1, <4>2, <4>4
    <3>4. Fits(left[1], "len", (d + 1) + k)
      BY <1>4, <3>2, <3>3
    <3>5. Len(left) = 1 /\ left # <<>> /\ ~Short(left)
      BY <1>7, <2>3 DEF Short
    <3>6. Verdicts(left, (d + 1) + k) = {"wait"}
      BY <3>4, <3>5 DEF Verdicts
    <3> QED
      BY <1>5, <1>6, <1>8, <3>5, <3>6 DEF Passed, Idle
  <2> QED
    BY <2>1, <2>2, <2>3
<1> QED
  BY <1>9, <1>10

\* A header that has not been seen yet, and the frames behind it.
HeadLine(parts, rb, w, d, q) ==
  /\ Len(rb) < Len(parts) /\ Len(parts) <= Len(rb \o w)
  /\ \A i \in 1..Len(parts) : Fits((rb \o w)[i], parts[i], 0)
  /\ Lined(SubSeq(rb \o w, Len(parts) + 1, Len(rb \o w)), d, q)

\* Without a fault the server finds the header, and then frame after frame.
UpLine ==
  ~faulty =>
    /\ ~srv.dead
    /\ ~srv.raw /\ srv.hasHeader =>
         /\ Idle(srv.recv_buf)
         /\ Lined(srv.recv_buf \o up, srv.recv_id - 1, cli.pack_id - 1)
    /\ ~srv.raw /\ ~srv.hasHeader /\ cli.hasHeader =>
         HeadLine(HeaderParts, srv.recv_buf, up, srv.recv_id - 1, cli.pack_id - 1)

\* And the client finds frame after frame.
DownLine ==
  ~faulty /\ ~srv.raw =>
    /\ ~cli.dead /\ Idle(cli.recv_buf)
    /\ Lined(cli.recv_buf \o down, cli.recv_id - 1, srv.pack_id - 1)

\* What the types and the relations say of the numbers of frames.
LEMMA Numbers ==
  ASSUME DataInv
  PROVE  /\ cli \in Sides /\ srv \in Sides /\ up \in Seq(Cells) /\ down \in Seq(Cells)
         /\ srv.recv_buf \in Seq(Cells) /\ cli.recv_buf \in Seq(Cells)
         /\ cli.pack_id - 1 \in Nat /\ srv.pack_id - 1 \in Nat
         /\ srv.recv_id - 1 \in Nat /\ cli.recv_id - 1 \in Nat
         /\ srv.recv_id - 1 <= cli.pack_id - 1 /\ cli.recv_id - 1 <= srv.pack_id - 1
<1>1. /\ cli \in Sides /\ srv \in Sides /\ up \in Seq(Cells) /\ down \in Seq(Cells)
  BY DEF DataInv, TypeOK
<1>2. /\ srv.recv_buf \in Seq(Cells) /\ cli.recv_buf \in Seq(Cells)
      /\ cli.pack_id \in Nat \ {0} /\ srv.pack_id \in Nat \ {0}
      /\ srv.recv_id \in Nat \ {0} /\ cli.recv_id \in Nat \ {0}
  BY <1>1 DEF Sides
<1>3. srv.recv_id - 1 \in 0..(cli.pack_id - 1)
  BY DEF DataInv, UpInv, UpRel
<1>4. cli.recv_id - 1 \in 0..(srv.pack_id - 1)
  BY DEF DataInv, DownInv, DownRel
<1>5. PICK a, b, c, e : /\ a = cli.pack_id /\ b = srv.pack_id
                        /\ c = srv.recv_id /\ e = cli.recv_id
  OBVIOUS
<1>6. /\ a - 1 \in Nat /\ b - 1 \in Nat /\ c - 1 \in Nat /\ e - 1 \in Nat
      /\ c - 1 <= a - 1 /\ e - 1 <= b - 1
  <2>1. /\ a \in Nat \ {0} /\ b \in Nat \ {0} /\ c \in Nat \ {0} /\ e \in Nat \ {0}
        /\ c - 1 \in 0..(a - 1) /\ e - 1 \in 0..(b - 1)
    BY <1>2, <1>3, <1>4, <1>5
  <2> QED
    BY <2>1
<1> QED
  BY <1>1, <1>2, <1>5, <1>6

\* Frames that are sent behind a header.
LEMMA HeadMore ==
  ASSUME NEW rb \in Seq(Cells), NEW w \in Seq(Cells), NEW d \in Nat, NEW q \in Nat,
         d <= q, NEW P, Len(P) \in Nat, HeadLine(P, rb, w, d, q),
         NEW p \in Seq(Cells), NEW C \in Seq(Seq(Nat)), NEW tiny,
         FramesOf(p, q + 1, C, tiny)
  PROVE  HeadLine(P, rb, w \o p, d, q + Len(C))
<1>1. PICK len \in Nat : len = Len(P)
  OBVIOUS
<1>2. PICK W, V : W = rb \o w /\ V = rb \o (w \o p)
  OBVIOUS
<1>3. V = W \o p /\ W \in Seq(Cells)
  <2>1. Chained(Cells, rb, w, p)
    BY Behind
  <2> QED
    BY <1>2, <2>1 DEF Chained
<1>4. /\ Len(rb) < len /\ len <= Len(W) /\ \A i \in 1..len : Fits(W[i], P[i], 0)
      /\ Lined(SubSeq(W, len + 1, Len(W)), d, q)
  BY <1>1, <1>2 DEF HeadLine
<1>5. PICK A, B : A = Len(W) /\ B = Len(p)
  OBVIOUS
<1>6. A \in Nat /\ B \in Nat /\ len <= A
  BY <1>3, <1>4, <1>5
<1>7. Joint(Cells, V, W, p, A, B)
  BY <1>3, <1>5, Joined
<1>8. len <= Len(V)
  BY <1>6, <1>7 DEF Joint
<1>9. ASSUME NEW i \in 1..len PROVE Fits(V[i], P[i], 0)
  <2>1. i \in 1..(A + B) /\ i <= A
    BY <1>6
  <2>2. V[i] = W[i]
    BY <1>7, <2>1 DEF Joint
  <2> QED
    BY <1>4, <2>2
<1>10. PICK s : s = SubSeq(W, len + 1, Len(W))
  OBVIOUS
<1>11. s \in Seq(Cells)
  <2>1. Dropped(Cells, s, W, len, A)
    BY <1>3, <1>5, <1>6, <1>10, DropFirst
  <2> QED
    BY <2>1 DEF Dropped
<1>12. SubSeq(V, len + 1, Len(V)) = s \o p
  BY <1>3, <1>4, <1>10, DropLeft
<1>13. Lined(s \o p, d, q + Len(C))
  BY <1>4, <1>10, <1>11, LinedMore
<1> QED
  BY <1>1, <1>2, <1>4, <1>8, <1>9, <1>12, <1>13 DEF HeadLine

\* The first frames behind the header they are sent with.
LEMMA HeadFirst ==
  ASSUME NEW h \in Seq(Cells), NEW data, HeaderOf(h, data),
         NEW p \in Seq(Cells), NEW C \in Seq(Seq(Nat)), NEW tiny, FramesOf(p, 1, C, tiny)
  PROVE  HeadLine(HeaderParts, <<>>, h \o p, 0, Len(C))
<1>1. PICK len, P : len = Len(HeaderParts) /\ P = HeaderParts
  OBVIOUS
<1>2. /\ len \in {2, 3} /\ Len(h) = len
      /\ \A i \in 1..len : h[i].part = P[i] /\ h[i].id = 0 /\ h[i].ok = TRUE
  BY <1>1 DEF HeaderOf
<1>3. \A i \in 1..len : Fits(h[i], P[i], 0)
  BY <1>2 DEF Fits
<1>4. PICK W, B : W = h \o p /\ B = Len(p)
  OBVIOUS
<1>5. Joint(Cells, W, h, p, len, B)
  BY <1>2, <1>4, Joined
<1>6. B \in Nat /\ len \in Nat /\ W \in Seq(Cells)
  BY <1>2, <1>4, <1>5 DEF Joint
<1>7. <<>> \o W = W /\ Len(<<>>) = 0
  BY <1>6, ConcatEmptySeq
<1>8. len <= Len(W)
  BY <1>5, <1>6 DEF Joint
<1>9. ASSUME NEW i \in 1..len PROVE Fits(W[i], P[i], 0)
  <2>1. i \in 1..(len + B) /\ i <= len
    BY <1>6
  <2>2. W[i] = h[i]
    BY <1>5, <2>1 DEF Joint
  <2> QED
    BY <1>3, <2>2
<1>10. SubSeq(W, len + 1, Len(W)) = p
  <2>1. SubSeq(W, len + 1, Len(W)) = SubSeq(h, len + 1, Len(h)) \o p
    <3>1. len <= Len(h)
      BY <1>2, <1>6
    <3> QED
      BY <1>4, <1>6, <3>1, DropLeft
  <2>2. SubSeq(h, len + 1, len) = <<>>
    BY <1>6, SubSeqEmpty
  <2>3. <<>> \o p = p
    BY ConcatEmptySeq
  <2> QED
    BY <1>2, <2>1, <2>2, <2>3
<1>11. Lined(p, 0, Len(C))
  <2>1. PICK E, z : E = <<>> /\ z = 0
    OBVIOUS
  <2>2. E \in Seq(Cells) /\ z \in Nat /\ z <= z /\ z + 1 = 1 /\ z + Len(C) = Len(C)
    BY <2>1
  <2>3. Lined(E, z, z)
    BY <2>1 DEF Lined
  <2>4. FramesOf(p, z + 1, C, tiny)
    BY <2>2
  <2>5. Lined(E \o p, z, z + Len(C))
    BY <2>2, <2>3, <2>4, LinedMore
  <2>6. E \o p = p
    BY <2>1, ConcatEmptySeq
  <2> QED
    BY <2>1, <2>2, <2>5, <2>6
<1>12. Len(<<>>) < len
  BY <1>2, <1>7
<1> QED
  BY <1>1, <1>4, <1>7, <1>8, <1>9, <1>10, <1>11, <1>12 DEF HeadLine

\* client_pre_encrypt.
LEMMA ClientSendLine ==
  ASSUME DataInv, UpLine, DownLine, NEW n \in 1..MaxWrite, ClientSend(n)
  PROVE  UpLine' /\ DownLine'
<1>1. /\ kind \in {"sha1", "aes", "chain"} /\ MaxUp \in Nat /\ n \in Nat \ {0}
      /\ givenUp \in Seq(1..MaxUp) /\ Len(givenUp) + n <= MaxUp
      /\ UNCHANGED <<kind, srv, down, gotUp, givenDown, gotDown, inserts, faulty>>
  BY StreamAssumption DEF DataInv, TypeOK, ClientSend
<1>2. PICK buf : buf = [i \in 1..n |-> Len(givenUp) + i]
  OBVIOUS
<1>3. buf \in Seq(Nat) /\ Len(buf) = n
  BY <1>1, <1>2, NewUnits
<1>4. PICK tiny \in Tinies, k \in 1..n :
        LET chunks == IF cli.hasHeader THEN Chunks(buf)
                      ELSE FirstChunks(SubSeq(buf, 1, k), SubSeq(buf, k + 1, n))
        IN /\ up' = up \o (IF cli.hasHeader THEN <<>> ELSE Header(SubSeq(buf, 1, k)))
                       \o PackAll(cli.pack_id, chunks, tiny)
           /\ cli' = [cli EXCEPT !.pack_id = @ + Len(chunks), !.hasHeader = TRUE]
  BY <1>2 DEF ClientSend
<1>5. tiny \in BOOLEAN
  BY DEF Tinies
<1>6. PICK q, d, rb : q = cli.pack_id - 1 /\ d = srv.recv_id - 1 /\ rb = srv.recv_buf
  OBVIOUS
<1>7. /\ cli \in Sides /\ up \in Seq(Cells) /\ rb \in Seq(Cells)
      /\ q \in Nat /\ d \in Nat /\ d <= q
  BY <1>6, Numbers
<1>8. q + 1 = cli.pack_id
  <2>1. cli.pack_id \in Nat
    BY <1>7 DEF Sides
  <2> QED
    BY <1>6, <2>1
<1>9. ASSUME NEW C \in Seq(Seq(Nat)), NEW p, p = cli.pack_id + Len(C),
             cli' = [cli EXCEPT !.pack_id = p, !.hasHeader = TRUE]
      PROVE  /\ cli'.pack_id - 1 = q + Len(C) /\ cli'.hasHeader = TRUE
             /\ cli'.recv_buf = cli.recv_buf /\ cli'.recv_id = cli.recv_id
             /\ cli'.dead = cli.dead
  <2>1. p - 1 = q + Len(C)
    BY <1>7, <1>8, <1>9
  <2> QED
    BY <1>7, <1>9, <2>1 DEF Sides
<1>10. CASE cli.hasHeader
  <2>1. PICK C, p : C = Chunks(buf) /\ p = cli.pack_id + Len(C)
    OBVIOUS
  <2>2. C \in Seq(Seq(Nat))
    BY <1>3, <2>1, ChunksType
  <2>3. PICK P : P = PackAll(q + 1, C, tiny)
    OBVIOUS
  <2>4. P \in Seq(Cells) /\ FramesOf(P, q + 1, C, tiny)
    <3>1. q + 1 \in Nat
      BY <1>7
    <3> QED
      BY <1>5, <2>2, <2>3, <3>1, Packing
  <2>5. up' = up \o P
    <3>1. up' = up \o <<>> \o P
      BY <1>4, <1>8, <1>10, <2>1, <2>3
    <3>2. up \o <<>> = up
      BY <1>7, ConcatEmptySeq
    <3> QED
      BY <3>1, <3>2
  <2>6. cli' = [cli EXCEPT !.pack_id = p, !.hasHeader = TRUE]
    BY <1>4, <1>10, <2>1
  <2>7. /\ cli'.pack_id - 1 = q + Len(C) /\ cli'.recv_buf = cli.recv_buf
        /\ cli'.recv_id = cli.recv_id /\ cli'.dead = cli.dead
    BY <1>9, <2>1, <2>2, <2>6
  <2>8. DownLine'
    BY <1>1, <2>7 DEF DownLine
  <2>9. ASSUME Lined(rb \o up, d, q) PROVE Lined(rb \o up', d, q + Len(C))
    <3>1. rb \o up' = (rb \o up) \o P /\ rb \o up \in Seq(Cells)
      <4>1. Chained(Cells, rb, up, P)
        BY <1>7, <2>4, Behind
      <4> QED
        BY <2>5, <4>1 DEF Chained
    <3>2. PICK W : W = rb \o up
      OBVIOUS
    <3>3. Lined(W \o P, d, q + Len(C))
      BY <1>7, <2>2, <2>4, <2>9, <3>1, <3>2, LinedMore
    <3> QED
      BY <3>1, <3>2, <3>3
  <2>10. ASSUME HeadLine(HeaderParts, rb, up, d, q)
         PROVE  HeadLine(HeaderParts, rb, up', d, q + Len(C))
    <3>1. Len(HeaderParts) \in Nat
      BY <1>1 DEF HeaderParts
    <3> QED
      BY <1>7, <2>2, <2>4, <2>5, <2>10, <3>1, HeadMore
  <2>11. HeaderParts' = HeaderParts
    BY <1>1 DEF HeaderParts
  <2>12. UpLine'
    BY <1>1, <1>6, <1>10, <2>7, <2>9, <2>10, <2>11 DEF UpLine
  <2> QED
    BY <2>8, <2>12
<1>11. CASE ~cli.hasHeader
  <2>1. PICK C, p, x, h : /\ x = SubSeq(buf, 1, k)
                          /\ C = FirstChunks(x, SubSeq(buf, k + 1, n))
                          /\ p = cli.pack_id + Len(C) /\ h = Header(x)
    OBVIOUS
  <2>2. /\ cli.pack_id = 1 /\ up = <<>> /\ srv.recv_buf = <<>> /\ ~srv.hasHeader
    BY <1>11 DEF DataInv, NotYet
  <2>3. q = 0 /\ d = 0
    <3>1. q = 0
      BY <1>6, <2>2
    <3> QED
      BY <1>7, <3>1
  <2>4. C \in Seq(Seq(Nat))
    BY <1>1, <1>3, <1>5, <2>1, Headed
  <2>5. h \in Seq(Cells) /\ HeaderOf(h, x)
    <3>1. x \in Seq(Nat)
      <4>1. SubSeq(buf, 0 + 1, k) \in Seq(Nat) /\ 0 + 1 = 1
        BY <1>3, PartIsSeq
      <4> QED
        BY <2>1, <4>1
    <3> QED
      BY <1>1, <2>1, <3>1, HeaderIs
  <2>6. PICK P : P = PackAll(1, C, tiny)
    OBVIOUS
  <2>7. P \in Seq(Cells) /\ FramesOf(P, 1, C, tiny)
    BY <1>5, <2>4, <2>6, Packing
  <2>8. up' = h \o P
    <3>1. up' = <<>> \o h \o P
      BY <1>4, <1>11, <2>1, <2>2, <2>6
    <3>2. <<>> \o h = h
      BY <2>5, ConcatEmptySeq
    <3> QED
      BY <3>1, <3>2
  <2>9. cli' = [cli EXCEPT !.pack_id = p, !.hasHeader = TRUE]
    BY <1>4, <1>11, <2>1
  <2>10. /\ cli'.pack_id - 1 = q + Len(C) /\ cli'.recv_buf = cli.recv_buf
         /\ cli'.recv_id = cli.recv_id /\ cli'.dead = cli.dead
    BY <1>9, <2>1, <2>4, <2>9
  <2>11. DownLine'
    BY <1>1, <2>10 DEF DownLine
  <2>12. HeadLine(HeaderParts, <<>>, up', 0, Len(C))
    BY <2>4, <2>5, <2>7, <2>8, HeadFirst
  <2>13. q + Len(C) = Len(C)
    BY <2>3, <2>4
  <2>14. HeaderParts' = HeaderParts
    BY <1>1 DEF HeaderParts
  <2>15. UpLine'
    BY <1>1, <1>6, <2>2, <2>3, <2>10, <2>12, <2>13, <2>14 DEF UpLine
  <2> QED
    BY <2>11, <2>15
<1> QED
  BY <1>10, <1>11

\* An answer that the server packs follows the frames on their way.
LEMMA AnswerLine ==
  ASSUME DataInv, DownLine, ~faulty => ~srv.raw, NEW buf \in Seq(Nat), NEW tiny \in BOOLEAN,
         NEW C, C = ServerChunks(srv, buf),
         down' = down \o PackAll(srv.pack_id, C, tiny),
         srv'.pack_id - 1 = (srv.pack_id - 1) + Len(C),
         UNCHANGED <<cli, faulty>>
  PROVE  DownLine'
<1>1. SUFFICES ASSUME ~faulty PROVE DownLine'
  BY DEF DownLine
<1>2. PICK q, d, rb, P : /\ q = srv.pack_id - 1 /\ d = cli.recv_id - 1
                         /\ rb = cli.recv_buf /\ P = PackAll(srv.pack_id, C, tiny)
  OBVIOUS
<1>3. /\ q \in Nat /\ d \in Nat /\ d <= q /\ rb \in Seq(Cells) /\ down \in Seq(Cells)
      /\ srv \in Sides
  BY <1>2, Numbers
<1>4. q + 1 = srv.pack_id /\ srv.pack_id \in Nat
  <2>1. srv.pack_id \in Nat
    BY <1>3 DEF Sides
  <2> QED
    BY <1>2, <2>1
<1>5. C \in Seq(Seq(Nat))
  BY ServerPacks
<1>6. P \in Seq(Cells) /\ FramesOf(P, q + 1, C, tiny)
  BY <1>2, <1>4, <1>5, Packing
<1>7. /\ ~cli.dead /\ Idle(rb) /\ Lined(rb \o down, d, q)
  BY <1>1, <1>2 DEF DownLine
<1>8. rb \o (down \o P) = (rb \o down) \o P /\ rb \o down \in Seq(Cells)
  <2>1. Chained(Cells, rb, down, P)
    BY <1>3, <1>6, Behind
  <2> QED
    BY <2>1 DEF Chained
<1>9. PICK W : W = rb \o down
  OBVIOUS
<1>10. Lined(W \o P, d, q + Len(C))
  BY <1>3, <1>5, <1>6, <1>7, <1>8, <1>9, LinedMore
<1>11. Lined(rb \o down', d, q + Len(C))
  BY <1>2, <1>8, <1>9, <1>10
<1> QED
  BY <1>2, <1>7, <1>11 DEF DownLine

\* server_pre_encrypt.
LEMMA ServerSendLine ==
  ASSUME DataInv, UpLine, DownLine, NEW n \in 1..MaxWrite, ServerSend(n)
  PROVE  UpLine' /\ DownLine'
<1>1. /\ srv \in Sides /\ n \in Nat \ {0} /\ ~srv.raw
      /\ givenDown \in Seq(1..MaxDown) /\ MaxDown \in Nat /\ Len(givenDown) + n <= MaxDown
      /\ UNCHANGED <<kind, cli, up, faulty>>
  BY StreamAssumption DEF DataInv, TypeOK, ServerSend
<1>2. PICK buf, C, f : /\ buf = [i \in 1..n |-> Len(givenDown) + i]
                       /\ C = ServerChunks(srv, buf) /\ f = FALSE
  OBVIOUS
<1>3. buf \in Seq(Nat)
  BY <1>1, <1>2, NewUnits
<1>4. down' = down \o PackAll(srv.pack_id, C, f) /\ srv' = Packed(srv, buf)
  BY <1>2 DEF ServerSend
<1>5. f \in BOOLEAN
  BY <1>2
<1>6. Len(C) \in Nat \ {0}
  BY <1>2, <1>3, <1>5, ServerPacks
<1>7. /\ srv'.pack_id - 1 = (srv.pack_id - 1) + Len(C)
      /\ srv'.recv_buf = srv.recv_buf /\ srv'.recv_id = srv.recv_id
      /\ srv'.hasHeader = srv.hasHeader /\ srv'.raw = srv.raw /\ srv'.dead = srv.dead
  BY <1>1, <1>2, <1>4, <1>6, PackedIs
<1>8. DownLine'
  BY <1>1, <1>2, <1>3, <1>4, <1>5, <1>7, AnswerLine
<1>9. HeaderParts' = HeaderParts
  BY <1>1 DEF HeaderParts
<1>10. UpLine'
  BY <1>1, <1>7, <1>9 DEF UpLine
<1> QED
  BY <1>8, <1>10

\* The loop of server_post_decrypt over frames that are in line.
LEMMA FramesLine ==
  ASSUME DataInv, DownLine, ~faulty, ~srv.raw, ~srv.dead,
         NEW b \in Seq(Cells), up' \in Seq(Cells),
         Lined(b \o up', srv.recv_id - 1, cli.pack_id - 1),
         NEW head, NEW sendback, ServerFrames(b, head, sendback),
         UNCHANGED <<kind, cli, faulty>>
  PROVE  UpLine' /\ DownLine'
<1>1. PICK q, d, v : q = cli.pack_id - 1 /\ d = srv.recv_id - 1 /\ v = up'
  OBVIOUS
<1>2. srv \in Sides /\ q \in Nat /\ d \in Nat /\ d <= q
  BY <1>1, Numbers
<1>3. d + 1 = srv.recv_id
  <2>1. srv.recv_id \in Nat
    BY <1>2 DEF Sides
  <2> QED
    BY <1>1, <2>1
<1>4. PICK k, left, units : /\ k = NumGood(b, srv.recv_id)
                            /\ left = SubSeq(b, 2 * k + 1, Len(b))
                            /\ units = head \o FlattenSeq(FrameData(b, k))
  OBVIOUS
<1>5. Passed(b, v, d, q, k)
  <2>1. k = NumGood(b, d + 1) /\ Lined(b \o v, d, q)
    BY <1>1, <1>3, <1>4
  <2> QED
    BY <1>1, <1>2, <2>1, Passes
<1>6. /\ k \in Nat /\ Idle(left) /\ Lined(left \o v, d + k, q)
      /\ Verdicts(left, srv.recv_id + k) = {"wait"}
  BY <1>3, <1>4, <1>5 DEF Passed
<1>7. PICK id, r, after :
        /\ id = srv.recv_id + k /\ r = (srv.released \/ units # <<>>)
        /\ after = [srv EXCEPT !.recv_buf = left, !.recv_id = id,
                               !.hasHeader = TRUE, !.released = r]
  OBVIOUS
<1>8. id \in Nat \ {0} /\ id - 1 = d + k
  <2>1. id = (d + 1) + k
    BY <1>3, <1>7
  <2> QED
    BY <1>2, <1>6, <2>1
<1>9. left \in Seq(Cells)
  <2>1. 2 * k \in Nat /\ Len(b) \in Nat /\ Len(b) <= Len(b)
    BY <1>6
  <2> QED
    BY <1>4, <2>1, PartIsSeq
<1>10. /\ after \in Sides /\ after.pack_id = srv.pack_id /\ after.recv_buf = left
       /\ after.recv_id = id /\ after.hasHeader = TRUE
       /\ after.raw = srv.raw /\ after.dead = srv.dead
  <2>1. r \in BOOLEAN
    BY <1>7
  <2> QED
    BY <1>2, <1>7, <1>8, <1>9, <2>1 DEF Sides
<1>11. ASSUME srv'.recv_buf = left, srv'.recv_id = id, srv'.hasHeader = TRUE,
              srv'.dead = srv.dead
       PROVE  UpLine'
  <2>1. Lined(srv'.recv_buf \o up', srv'.recv_id - 1, cli'.pack_id - 1)
    BY <1>1, <1>6, <1>8, <1>11
  <2> QED
    BY <1>6, <1>11, <2>1 DEF UpLine
<1>12. CASE srv' = after /\ down' = down
  <2>1. UpLine'
    BY <1>10, <1>11, <1>12
  <2>2. DownLine'
    BY <1>10, <1>12 DEF DownLine
  <2> QED
    BY <2>1, <2>2
<1>13. ASSUME NEW tiny \in Tinies, srv' = Packed(after, <<>>),
              down' = down \o PackAll(srv.pack_id, ServerChunks(srv, <<>>), tiny)
       PROVE  UpLine' /\ DownLine'
  <2>1. PICK C, E : C = ServerChunks(srv, E) /\ E = <<>>
    OBVIOUS
  <2>2. tiny \in BOOLEAN
    BY <1>13 DEF Tinies
  <2>3. E \in Seq(Nat)
    BY <2>1
  <2>4. Len(C) \in Nat \ {0}
    BY <2>1, <2>2, <2>3, ServerPacks
  <2>5. C = ServerChunks(after, E)
    BY <1>10, <2>1 DEF ServerChunks
  <2>6. /\ srv'.pack_id - 1 = (srv.pack_id - 1) + Len(C)
        /\ srv'.recv_buf = left /\ srv'.recv_id = id /\ srv'.hasHeader = TRUE
        /\ srv'.dead = srv.dead
    BY <1>10, <1>13, <2>1, <2>4, <2>5, PackedIs
  <2>7. UpLine'
    BY <1>11, <2>6
  <2>8. DownLine'
    BY <1>13, <2>1, <2>2, <2>3, <2>6, AnswerLine
  <2> QED
    BY <2>7, <2>8
<1>14. "error" \notin Verdicts(left, srv.recv_id + k)
  BY <1>6
<1>15. \/ srv' = after /\ down' = down
       \/ \E tiny \in Tinies :
            /\ srv' = Packed(after, <<>>)
            /\ down' = down \o PackAll(srv.pack_id, ServerChunks(srv, <<>>), tiny)
  BY <1>4, <1>7, <1>14 DEF ServerFrames
<1> QED
  BY <1>12, <1>13, <1>15

\* The verdict on a header, or a piece of one, in which nothing is wrong.
LEMMA HeadVerdict ==
  ASSUME NEW b \in Seq(Cells), NEW len \in Nat, len = Len(HeaderParts),
         \A i \in 1..Len(b) : i <= len => Fits(b[i], HeaderParts[i], 0)
  PROVE  HeaderVerdicts(b) = IF Len(b) < len THEN {"wait"} ELSE {"complete"}
<1>1. PICK bad : bad = {i \in 1..Len(b) : i <= len /\ ~Fits(b[i], HeaderParts[i], 0)}
  OBVIOUS
<1>2. bad = {}
  BY <1>1
<1>3. PICK A, B, D : /\ A = (bad = {} /\ Len(b) < len) /\ B = (bad = {} /\ Len(b) >= len)
                     /\ D = (1 \notin bad /\ 2 \in bad /\ kind = "aes")
  OBVIOUS
<1>4. HeaderVerdicts(b) = CASE A -> {"wait"} [] B -> {"complete"}
                            [] D -> {"wait", "nomatch"} [] OTHER -> {"nomatch"}
  BY <1>1, <1>3 DEF HeaderVerdicts
<1>5. Len(b) < len <=> ~(Len(b) >= len)
  OBVIOUS
<1>6. ~D
  BY <1>2, <1>3
<1>7. CASE Len(b) < len
  <2>1. A /\ ~B
    BY <1>2, <1>3, <1>5, <1>7, Zenon
  <2> QED
    BY <1>4, <1>6, <1>7, <2>1
<1>8. CASE ~(Len(b) < len)
  <2>1. ~A /\ B
    BY <1>2, <1>3, <1>5, <1>8, Zenon
  <2> QED
    BY <1>4, <1>6, <1>8, <2>1
<1> QED
  BY <1>7, <1>8

\* server_post_decrypt.
LEMMA ServerReceiveLine ==
  ASSUME DataInv, UpLine, DownLine, NEW n \in 1..Len(up), ServerReceive(n)
  PROVE  UpLine' /\ DownLine'
<1>1. /\ kind \in {"sha1", "aes", "chain"} /\ srv \in Sides
      /\ UNCHANGED <<kind, cli, faulty>> /\ up' = SubSeq(up, n + 1, Len(up))
  BY StreamAssumption DEF DataInv, TypeOK, ServerReceive
<1>2. CASE faulty
  BY <1>1, <1>2 DEF UpLine, DownLine
<1>3. CASE ~faulty
  <2>1. PICK q, d, rb, b, len : /\ q = cli.pack_id - 1 /\ d = srv.recv_id - 1
                                /\ rb = srv.recv_buf /\ b = rb \o SubSeq(up, 1, n)
                                /\ len = Len(HeaderParts)
    OBVIOUS
  <2>2. /\ rb \in Seq(Cells) /\ up \in Seq(Cells) /\ n \in Nat /\ n <= Len(up)
        /\ Len(up) \in Nat /\ Len(up) <= Len(up) /\ 0 \in Nat /\ 0 + 1 = 1
    BY <2>1, Numbers
  <2>3. b \in Seq(Cells) /\ up' \in Seq(Cells)
    <3>1. SubSeq(up, 0 + 1, n) \in Seq(Cells)
      BY <2>2, PartIsSeq
    <3>2. SubSeq(up, n + 1, Len(up)) \in Seq(Cells)
      BY <2>2, PartIsSeq
    <3>3. SubSeq(up, 1, n) \in Seq(Cells)
      BY <2>2, <3>1
    <3> QED
      BY <1>1, <2>1, <2>2, <3>2, <3>3
  <2>4. b \o up' = rb \o up
    BY <1>1, <2>1, <2>2, Moved
  <2>5. ~srv.dead
    BY <1>3 DEF UpLine
  <2>6. cli.hasHeader
    <3>1. up # <<>>
      OBVIOUS
    <3> QED
      BY <3>1 DEF DataInv, NotYet
  <2>7. ASSUME LeaveProtocol(b) PROVE UpLine' /\ DownLine'
    <3>1. srv' = [srv EXCEPT !.raw = TRUE, !.recv_buf = b]
      BY <2>7 DEF LeaveProtocol
    <3>2. srv'.raw = TRUE /\ srv'.dead = srv.dead
      BY <1>1, <3>1 DEF Sides
    <3> QED
      BY <2>5, <3>2 DEF UpLine, DownLine
  <2>8. CASE srv.raw /\ UNCHANGED <<srv, down>>
    BY <1>1, <2>5, <2>8 DEF UpLine, DownLine
  <2>9. CASE ~srv.raw /\ srv.hasHeader /\ ServerFrames(b, <<>>, FALSE)
    <3>1. PICK E, f : E = <<>> /\ f = FALSE
      OBVIOUS
    <3>2. ServerFrames(b, E, f)
      BY <2>9, <3>1
    <3>3. Lined(rb \o up, d, q)
      BY <1>3, <2>1, <2>9 DEF UpLine
    <3>4. Lined(b \o up', srv.recv_id - 1, cli.pack_id - 1)
      BY <2>1, <2>4, <3>3
    <3> QED
      BY <1>1, <1>3, <2>3, <2>5, <2>9, <3>2, <3>4, FramesLine
  <2>10. CASE ~srv.raw /\ ~srv.hasHeader
    <3>1. PICK W, B, V : W = rb \o up /\ B = Len(b) /\ V = Len(up')
      OBVIOUS
    <3>2. len \in Nat
      BY <1>1, <2>1 DEF HeaderParts
    <3>3. HeadLine(HeaderParts, rb, up, d, q)
      BY <1>3, <2>1, <2>6, <2>10 DEF UpLine
    <3>4. /\ len <= Len(W) /\ \A i \in 1..len : Fits(W[i], HeaderParts[i], 0)
          /\ Lined(SubSeq(W, len + 1, Len(W)), d, q)
      BY <2>1, <3>1, <3>3 DEF HeadLine
    <3>5. Joint(Cells, W, b, up', B, V)
      <4>1. PICK v \in Seq(Cells) : v = up'
        BY <2>3
      <4>2. Joint(Cells, W, b, v, B, V)
        BY <2>3, <2>4, <3>1, <4>1, Joined
      <4> QED
        BY <4>1, <4>2
    <3>6. B \in Nat /\ V \in Nat
      BY <2>3, <3>1
    <3>7. \A i \in 1..Len(b) : i <= len => Fits(b[i], HeaderParts[i], 0)
      <4>1. SUFFICES ASSUME NEW i \in 1..Len(b), i <= len PROVE Fits(b[i], HeaderParts[i], 0)
        OBVIOUS
      <4>2. i \in 1..(B + V) /\ i <= B /\ i \in 1..len
        BY <3>1, <3>2, <3>6, <4>1
      <4>3. b[i] = W[i]
        BY <3>5, <4>2 DEF Joint
      <4> QED
        BY <3>4, <4>2, <4>3
    <3>8. HeaderVerdicts(b) = IF Len(b) < len THEN {"wait"} ELSE {"complete"}
      BY <2>1, <2>3, <3>2, <3>7, HeadVerdict
    <3>9. CASE "wait" \in HeaderVerdicts(b) /\ srv' = [srv EXCEPT !.recv_buf = b] /\ down' = down
      <4>1. Len(b) < len
        BY <3>8, <3>9
      <4>2. /\ srv'.recv_buf = b /\ srv'.raw = srv.raw /\ srv'.dead = srv.dead
            /\ srv'.recv_id = srv.recv_id /\ srv'.hasHeader = srv.hasHeader
            /\ srv'.pack_id = srv.pack_id
        BY <1>1, <3>9 DEF Sides
      <4>3. HeadLine(HeaderParts, b, up', d, q)
        BY <2>1, <2>4, <3>1, <3>4, <4>1 DEF HeadLine
      <4>4. HeaderParts' = HeaderParts
        BY <1>1 DEF HeaderParts
      <4>5. UpLine'
        BY <1>1, <2>1, <2>5, <2>10, <4>2, <4>3, <4>4 DEF UpLine
      <4>6. DownLine'
        BY <1>1, <3>9, <4>2 DEF DownLine
      <4> QED
        BY <4>5, <4>6
    <3>10. CASE "complete" \in HeaderVerdicts(b) /\ ServerHeader(b)
      <4>1. CASE LeaveProtocol(b)
        BY <2>7, <4>1
      <4>2. CASE ServerFrames(SubSeq(b, len + 1, Len(b)), b[len].data, TRUE)
        <5>1. PICK c, head, t : /\ c = SubSeq(b, len + 1, Len(b)) /\ head = b[len].data
                                /\ t = TRUE
          OBVIOUS
        <5>2. len <= B
          BY <3>1, <3>2, <3>6, <3>8, <3>10
        <5>3. Dropped(Cells, c, b, len, B)
          BY <2>3, <3>1, <3>2, <5>1, <5>2, DropFirst
        <5>4. c \in Seq(Cells)
          BY <5>3 DEF Dropped
        <5>5. SubSeq(b \o up', len + 1, Len(b \o up')) = c \o up'
          <6>1. PICK v \in Seq(Cells) : v = up'
            BY <2>3
          <6>2. SubSeq(b \o v, len + 1, Len(b \o v)) = SubSeq(b, len + 1, Len(b)) \o v
            BY <2>3, <3>1, <3>2, <5>2, DropLeft
          <6> QED
            BY <5>1, <6>1, <6>2
        <5>6. Lined(c \o up', srv.recv_id - 1, cli.pack_id - 1)
          BY <2>1, <2>4, <3>1, <3>4, <5>5
        <5>7. ServerFrames(c, head, t)
          BY <4>2, <5>1
        <5> QED
          BY <1>1, <1>3, <2>3, <2>5, <2>10, <5>4, <5>6, <5>7, FramesLine
      <4> QED
        BY <2>1, <3>10, <4>1, <4>2 DEF ServerHeader
    <3>11. \/ "wait" \in HeaderVerdicts(b) /\ srv' = [srv EXCEPT !.recv_buf = b] /\ down' = down
           \/ LeaveProtocol(b)
           \/ "complete" \in HeaderVerdicts(b) /\ ServerHeader(b)
      BY <2>1, <2>10 DEF ServerReceive
    <3> QED
      BY <2>7, <3>9, <3>10, <3>11
  <2>11. \/ srv.raw /\ UNCHANGED <<srv, down>>
         \/ ~srv.raw /\ srv.hasHeader /\ ServerFrames(b, <<>>, FALSE)
         \/ ~srv.raw /\ ~srv.hasHeader
    BY <2>1 DEF ServerReceive
  <2> QED
    BY <2>8, <2>9, <2>10, <2>11
<1> QED
  BY <1>2, <1>3

\* client_post_decrypt.
LEMMA ClientReceiveLine ==
  ASSUME DataInv, UpLine, DownLine, NEW n \in 1..Len(down), ClientReceive(n)
  PROVE  UpLine' /\ DownLine'
<1>1. /\ cli \in Sides /\ down \in Seq(Cells)
      /\ UNCHANGED <<kind, srv, up, faulty>> /\ down' = SubSeq(down, n + 1, Len(down))
  BY DEF DataInv, TypeOK, ClientReceive
<1>2. PICK q, d, rb, b, v : /\ q = srv.pack_id - 1 /\ d = cli.recv_id - 1
                            /\ rb = cli.recv_buf /\ b = rb \o SubSeq(down, 1, n)
                            /\ v = down'
  OBVIOUS
<1>3. PICK k, left, id : /\ k = NumGood(b, cli.recv_id)
                         /\ left = SubSeq(b, 2 * k + 1, Len(b)) /\ id = cli.recv_id + k
  OBVIOUS
<1>4. \/ cli' = [cli EXCEPT !.recv_buf = left, !.recv_id = id]
      \/ cli' = [cli EXCEPT !.dead = TRUE] /\ "error" \in Verdicts(left, id)
  BY <1>2, <1>3 DEF ClientReceive
<1>5. cli'.pack_id = cli.pack_id /\ cli'.hasHeader = cli.hasHeader
  BY <1>1, <1>4 DEF Sides
<1>6. HeaderParts' = HeaderParts
  BY <1>1 DEF HeaderParts
<1>7. UpLine'
  BY <1>1, <1>5, <1>6 DEF UpLine
<1>8. CASE faulty \/ srv.raw
  <2>1. DownLine'
    BY <1>1, <1>8 DEF DownLine
  <2> QED
    BY <1>7, <2>1
<1>9. CASE ~faulty /\ ~srv.raw
  <2>1. /\ rb \in Seq(Cells) /\ n \in Nat /\ n <= Len(down) /\ q \in Nat /\ d \in Nat /\ d <= q
        /\ Len(down) \in Nat /\ Len(down) <= Len(down) /\ 0 \in Nat /\ 0 + 1 = 1
    BY <1>1, <1>2, Numbers
  <2>2. d + 1 = cli.recv_id
    <3>1. cli.recv_id \in Nat
      BY <1>1 DEF Sides
    <3> QED
      BY <1>2, <3>1
  <2>3. b \in Seq(Cells) /\ v \in Seq(Cells)
    <3>1. SubSeq(down, 0 + 1, n) \in Seq(Cells)
      BY <1>1, <2>1, PartIsSeq
    <3>2. SubSeq(down, n + 1, Len(down)) \in Seq(Cells)
      BY <1>1, <2>1, PartIsSeq
    <3>3. SubSeq(down, 1, n) \in Seq(Cells)
      BY <2>1, <3>1
    <3> QED
      BY <1>1, <1>2, <2>1, <3>2, <3>3
  <2>4. b \o v = rb \o down
    BY <1>1, <1>2, <2>1, Moved
  <2>5. ~cli.dead /\ Lined(rb \o down, d, q)
    BY <1>2, <1>9 DEF DownLine
  <2>6. Passed(b, v, d, q, k)
    <3>1. k = NumGood(b, d + 1) /\ Lined(b \o v, d, q)
      BY <1>3, <2>2, <2>4, <2>5
    <3> QED
      BY <2>1, <2>3, <3>1, Passes
  <2>7. /\ k \in Nat /\ Idle(left) /\ Lined(left \o v, d + k, q)
        /\ Verdicts(left, id) = {"wait"}
    BY <1>3, <2>2, <2>6 DEF Passed
  <2>8. cli' = [cli EXCEPT !.recv_buf = left, !.recv_id = id]
    <3>1. "error" \notin Verdicts(left, id)
      BY <2>7
    <3> QED
      BY <1>4, <3>1
  <2>9. cli'.recv_buf = left /\ cli'.recv_id = id /\ cli'.dead = cli.dead
    BY <1>1, <2>8 DEF Sides
  <2>10. id - 1 = d + k
    <3>1. id = (d + 1) + k
      BY <1>3, <2>2
    <3> QED
      BY <2>1, <2>7, <3>1
  <2>11. Lined(cli'.recv_buf \o down', cli'.recv_id - 1, srv'.pack_id - 1)
    BY <1>1, <1>2, <2>7, <2>9, <2>10
  <2>12. DownLine'
    BY <2>5, <2>7, <2>9, <2>11 DEF DownLine
  <2> QED
    BY <1>7, <2>12
<1> QED
  BY <1>8, <1>9

\* Every step keeps the frames in line.
LEMMA NextLine ==
  ASSUME DataInv, UpLine, DownLine, [Next]_vars
  PROVE  UpLine' /\ DownLine'
<1>1. CASE AlterUp \/ AlterDown
  <2>1. faulty' = TRUE
    BY <1>1 DEF AlterUp, AlterDown
  <2> QED
    BY <2>1 DEF UpLine, DownLine
<1>2. CASE ServerSendRaw
  <2>1. srv.raw /\ UNCHANGED <<kind, cli, srv, up, faulty>>
    BY <1>2 DEF ServerSendRaw
  <2>2. HeaderParts' = HeaderParts
    BY <2>1 DEF HeaderParts
  <2> QED
    BY <2>1, <2>2 DEF UpLine, DownLine
<1>3. CASE UNCHANGED vars
  <2>1. HeaderParts' = HeaderParts
    BY <1>3 DEF vars, HeaderParts
  <2> QED
    BY <1>3, <2>1 DEF vars, UpLine, DownLine
<1> QED
  BY <1>1, <1>2, <1>3, ClientSendLine, ServerSendLine, ServerReceiveLine, ClientReceiveLine
  DEF Next

\* Nothing is on its way at first.
LEMMA InitLine == Init => UpLine /\ DownLine
<1> SUFFICES ASSUME Init PROVE UpLine /\ DownLine
  OBVIOUS
<1>1. cli = NewSide /\ srv = NewSide /\ up = <<>> /\ down = <<>>
  BY DEF Init
<1>2. /\ NewSide.pack_id = 1 /\ NewSide.recv_id = 1 /\ NewSide.recv_buf = <<>>
      /\ NewSide.hasHeader = FALSE /\ NewSide.dead = FALSE
  BY DEF NewSide
<1>3. <<>> \o <<>> = <<>> /\ Len(<<>>) = 0 /\ 1 - 1 = 0
  OBVIOUS
<1>4. Lined(<<>>, 0, 0) /\ Idle(<<>>)
  BY <1>3 DEF Lined, Idle
<1> QED
  BY <1>1, <1>2, <1>3, <1>4 DEF UpLine, DownLine

\* When no more is on its way than the receiver keeps for later, all was handed
\* out: what may be kept is an empty frame.
LEMMA AtEnd ==
  ASSUME NEW S, NEW g \in Seq(S), NEW q \in Nat, NEW o, Ends(o, q, g), NEW d \in 0..q,
         NEW rb \in Seq(Cells), AllGenuine(rb, o, q, g), Lined(rb, d, q), Idle(rb)
  PROVE  o[d] = Len(g)
<1>1. /\ o \in [Nat -> Nat] /\ Upward(o, q) /\ o[q] = Len(g) /\ d \in Nat /\ d <= q
  <2>1. d \in Nat /\ d <= q
    OBVIOUS
  <2>2. o \in [Nat -> Nat] /\ Upward(o, q) /\ o[q] = Len(g)
    BY Zenon DEF Ends
  <2> QED
    BY <2>1, <2>2
<1>2. PICK L \in Nat : L = Len(rb)
  OBVIOUS
<1>3. L = 2 * (q - d)
  BY <1>2 DEF Lined
<1>4. CASE L \in {0, 1}
  <2>1. d = q
    BY <1>1, <1>3, <1>4
  <2> QED
    BY <1>1, <2>1
<1>5. CASE Short(rb)
  <2>1. L = 2 /\ rb[2].tiny
    BY <1>2, <1>5 DEF Short
  <2>2. q = d + 1 /\ 1 \in 1..(q - d) /\ 2 * 1 = 2 /\ 2 \in 1..L
    BY <1>1, <1>3, <2>1
  <2>3. PICK x : x = rb[2]
    OBVIOUS
  <2>4. Fits(x, "rest", q) /\ (x.tiny => x.data = <<>>)
    <3>1. Fits(rb[2 * 1], "rest", d + 1) /\ (rb[2 * 1].tiny => rb[2 * 1].data = <<>>)
      BY <2>2 DEF Lined
    <3> QED
      BY <2>2, <2>3, <3>1
  <2>5. Genuine(x, o, q, g)
    BY <1>2, <2>2, <2>3 DEF AllGenuine
  <2>6. x.data = SubSeq(g, o[q - 1] + 1, o[q]) /\ x.data = <<>>
    BY <2>1, <2>3, <2>4, <2>5 DEF Genuine, Fits
  <2>7. PICK a, N : a = o[d] /\ N = Len(g)
    OBVIOUS
  <2>8. a \in Nat /\ N \in Nat /\ a <= N
    <3>1. d \in 0..q /\ q \in 0..q
      BY <1>1
    <3> QED
      BY <1>1, <2>7, <3>1 DEF Upward
  <2>9. q - 1 = d
    BY <1>1, <2>2
  <2>10. SubSeq(g, a + 1, Len(g)) = <<>>
    BY <1>1, <2>6, <2>7, <2>9
  <2>11. PICK t : t = SubSeq(g, a + 1, Len(g))
    OBVIOUS
  <2>12. Dropped(S, t, g, a, N)
    BY <2>7, <2>8, <2>11, DropFirst
  <2>13. N - a = 0
    <3>1. Len(t) = 0
      BY <2>10, <2>11
    <3> QED
      BY <2>12, <3>1 DEF Dropped
  <2> QED
    BY <2>7, <2>8, <2>13
<1> QED
  BY <1>2, <1>4, <1>5 DEF Idle

\* The server has handed out everything.
LEMMA UpEnd ==
  ASSUME DataInv, UpLine, ~faulty, up = <<>>, ~srv.raw
  PROVE  gotUp = givenUp
<1>1. PICK q, d, rb, hd, ch : /\ q = cli.pack_id - 1 /\ d = srv.recv_id - 1
                              /\ rb = srv.recv_buf /\ hd = srv.hasHeader /\ ch = (kind = "chain")
  OBVIOUS
<1>2. q \in Nat /\ rb \in Seq(Cells) /\ kind \in {"sha1", "aes", "chain"}
  BY <1>1, Numbers, StreamAssumption DEF DataInv, TypeOK
<1>3. PICK o : UpRel(o, q, givenUp, ch, rb, up, d, hd, gotUp)
  BY <1>1 DEF DataInv, UpInv
<1>4. givenUp \in Seq(1..MaxUp)
  BY DEF DataInv, TypeOK
<1>5. rb \o up = rb
  BY <1>2, ConcatEmptySeq
<1>6. CASE srv.hasHeader
  <2>1. Idle(rb) /\ Lined(rb, d, q)
    BY <1>1, <1>5, <1>6 DEF UpLine
  <2>2. /\ Ends(o, q, givenUp) /\ d \in 0..q /\ AllGenuine(rb, o, q, givenUp)
        /\ gotUp = SubSeq(givenUp, 1, o[d])
    BY <1>1, <1>3, <1>6 DEF UpRel
  <2>3. o[d] = Len(givenUp)
    BY <1>2, <1>4, <2>1, <2>2, AtEnd
  <2> QED
    BY <1>4, <2>2, <2>3, SubSeqFull
<1>7. CASE ~srv.hasHeader /\ cli.hasHeader
  <2>1. HeadLine(HeaderParts, rb, up, d, q)
    BY <1>1, <1>7 DEF UpLine
  <2>2. PICK len \in Nat : len = Len(HeaderParts)
    BY <1>2 DEF HeaderParts
  <2>3. Len(rb) < len /\ len <= Len(rb) /\ Len(rb) \in Nat
    BY <1>2, <1>5, <2>1, <2>2 DEF HeadLine
  <2> QED
    BY <2>3
<1>8. CASE ~cli.hasHeader
  <2>1. givenUp = <<>> /\ ~srv.hasHeader
    BY <1>8 DEF DataInv, NotYet
  <2>2. gotUp = <<>>
    BY <1>1, <1>3, <2>1 DEF UpRel
  <2> QED
    BY <2>1, <2>2
<1> QED
  BY <1>6, <1>7, <1>8

\* The client has handed out everything.
LEMMA DownEnd ==
  ASSUME DataInv, DownLine, ~faulty, down = <<>>, ~srv.raw
  PROVE  gotDown = givenDown
<1>1. PICK q, d, rb, ch, F : /\ q = srv.pack_id - 1 /\ d = cli.recv_id - 1
                             /\ rb = cli.recv_buf /\ ch = (kind = "chain")
                             /\ F = Framed(ch, q, givenDown)
  OBVIOUS
<1>2. q \in Nat /\ rb \in Seq(Cells)
  BY <1>1, Numbers
<1>3. givenDown \in Seq(1..MaxDown) /\ givenDown \in Seq(Nat)
  <2>1. givenDown \in Seq(1..MaxDown) /\ MaxDown \in Nat
    BY StreamAssumption DEF DataInv, TypeOK
  <2>2. 1..MaxDown \subseteq Nat
    BY <2>1
  <2> QED
    BY <2>1, <2>2, SeqMonotonic
<1>4. PICK o : DownRel(o, q, givenDown, ch, rb, down, d, gotDown)
  BY <1>1 DEF DataInv, DownInv
<1>5. /\ Ends(o, q, F) /\ o[0] = 0 /\ AllGenuine(rb, o, q, F) /\ d \in 0..q
      /\ (ch /\ q > 0 => o[1] >= 1) /\ gotDown = SubSeq(givenDown, 1, o[d] - Mss(ch, d))
  BY <1>1, <1>4 DEF DownRel
<1>6. ch \in BOOLEAN
  BY <1>1
<1>7. F \in Seq(Nat) /\ Len(F) = Len(givenDown) + Mss(ch, q)
  <2>1. q \in 0..q
    BY <1>2
  <2>2. Ends(o, q, Framed(ch, q, givenDown))
    BY <1>1, <1>5
  <2>3. /\ Framed(ch, q, givenDown) \in Seq(Nat)
        /\ Len(Framed(ch, q, givenDown)) = Len(givenDown) + Mss(ch, q)
    BY <1>2, <1>3, <1>5, <1>6, <2>1, <2>2, DownBounds
  <2> QED
    BY <1>1, <2>3
<1>8. Idle(rb) /\ Lined(rb, d, q)
  <2>1. rb \o down = rb
    BY <1>2, ConcatEmptySeq
  <2> QED
    BY <1>1, <2>1 DEF DownLine
<1>9. o[d] = Len(givenDown) + Mss(ch, q)
  <2>1. o[d] = Len(F)
    BY <1>2, <1>5, <1>7, <1>8, AtEnd
  <2> QED
    BY <1>7, <2>1
<1>10. o[d] - Mss(ch, d) = Len(givenDown)
  <2>1. PICK N, x : N \in Nat /\ N = Len(givenDown) /\ x = o[d]
    BY <1>3
  <2>2. CASE ~ch
    <3>1. Mss(ch, d) = 0 /\ Mss(ch, q) = 0
      BY <2>2 DEF Mss
    <3> QED
      BY <1>9, <2>1, <3>1
  <2>3. CASE ch
    <3>1. /\ Mss(ch, d) = (IF d > 0 THEN 1 ELSE 0)
          /\ Mss(ch, q) = (IF q > 0 THEN 1 ELSE 0)
      BY <2>3 DEF Mss
    <3>2. x = N + (IF q > 0 THEN 1 ELSE 0) /\ (d = 0 => x = 0)
      BY <1>5, <1>9, <2>1, <3>1
    <3>3. x - (IF d > 0 THEN 1 ELSE 0) = N
      BY <1>2, <1>5, <2>1, <3>2
    <3> QED
      BY <2>1, <3>1, <3>3
  <2> QED
    BY <1>6, <2>2, <2>3
<1> QED
  BY <1>3, <1>5, <1>10, SubSeqFull

\* All that is given arrives.
THEOREM NothingLost == Spec => []Undisturbed
<1>1. DataInv /\ UpLine /\ DownLine => Undisturbed
  <2>1. ASSUME DataInv, UpLine, DownLine PROVE Undisturbed
    BY <2>1, UpEnd, DownEnd DEF UpLine, DownLine, Undisturbed
  <2> QED
    BY <2>1
<1>2. DataInv /\ UpLine /\ DownLine /\ [Next]_vars => UpLine' /\ DownLine'
  BY NextLine
<1> QED
  BY <1>1, <1>2, InitLine, DataInvariant, PTL DEF Spec
=============================================================================
