----------------------- MODULE TCPRelayHandlerProofs -----------------------
(* Theorems about TCPRelayHandler: its invariants hold for every number of *)
(* units, every size of what recv yields, and both kinds of plugins.       *)
EXTENDS TCPRelayHandler, SequenceTheorems, TLAPS

\* What the loop has to poll for: local, then remote.
ModeL(g) ==
  {"ERR"} \cup (IF "W" \in g.down THEN {"OUT"} ELSE {})
          \cup (IF "R" \in g.up THEN {"IN"} ELSE {})
ModeR(g) ==
  IF g.remote
  THEN {"ERR"} \cup (IF "R" \in g.down THEN {"IN"} ELSE {})
               \cup (IF "W" \in g.up THEN {"OUT"} ELSE {})
  ELSE {}
Follows(g) == g.modeL = ModeL(g) /\ g.modeR = ModeR(g)

\* The streams of a live handler g: the loop polls for what the statuses say,
\* every stream waits for something, and while the name is being resolved
\* nothing is read from the client.
Waits(g) ==
  /\ g.end = "none" /\ Follows(g)
  /\ g.stage = "DNS" => g.up = {"W"}
  /\ g.up # {} /\ (g.remote => g.down # {})

\* What was sent, what is buffered and what is in hand are together the units
\* 1..n.
Held(sent, buffer, hand, n) ==
  /\ Len(sent) + Len(buffer) + Len(hand) = n
  /\ ToSet(sent) \cup ToSet(buffer) \cup ToSet(hand) = 1..n

\* The same for the two directions of the handler, with the units u and d in
\* hand.
HeldUp(g, u) == Held(g.sentUp, g.toRemote, u, g.upOut)
HeldDown(g, d) == Held(g.sentDown, g.toLocal, d, g.downOut)

\* Downstream, without plugins that answer: in order, and nothing is read from
\* the destination while something is buffered.
InOrder(g) ==
  ~g.sendsBack =>
    /\ g.sentDown \o g.toLocal = Units(0, g.downOut)
    /\ g.toLocal # <<>> => g.remote /\ g.down = {"W"}

Live(g) == Waits(g) /\ HeldUp(g, <<>>) /\ HeldDown(g, <<>>) /\ InOrder(g)

HasRemote(g) == g.remote <=> g.stage \in {"CONNECTING", "STREAM"}

\* The handler has ended at the end of the destination's data: all is sent.
AllSent(g) ==
  ~g.sendsBack /\ g.end = "remoteEof" => g.sentDown = Units(0, g.downOut)

Good(g) ==
  /\ g \in HandlerType /\ HasRemote(g) /\ AllSent(g)
  /\ g.stage # "DESTROYED" => Live(g)

BatchType == {"local", "remote"} \X {"IN", "OUT", "ERR"}

\* The events still to be handled, although the handler has changed since the
\* poll: those of the remote socket are of one that is there; none brings data
\* of the client while the name is being resolved, or data of the destination
\* while something is buffered for the client.
Timely(g, event) ==
  /\ event[1] = "remote" => g.remote
  /\ g.stage = "DNS" => event # <<"local", "IN">>
  /\ event = <<"remote", "IN">> /\ ~g.sendsBack => g.toLocal = <<>>

BatchInv ==
  /\ batch \in Seq(BatchType) /\ OncePerSocket(batch)
  /\ Alive => \A i \in 1..Len(batch) : Timely(h, batch[i])

Inv == Good(h) /\ BatchInv

-----------------------------------------------------------------------------
\* The members of a sequence, and of two that are joined.
LEMMA Members ==
  ASSUME NEW S, NEW s \in Seq(S), NEW t \in Seq(S)
  PROVE  /\ ToSet(s) = {s[i] : i \in 1..Len(s)}
         /\ ToSet(s \o t) = ToSet(s) \cup ToSet(t)
         /\ s \o t \in Seq(S) /\ Len(s \o t) = Len(s) + Len(t)
<1>1. DOMAIN s = 1..Len(s) /\ DOMAIN t = 1..Len(t) /\ Len(s) \in Nat /\ Len(t) \in Nat
  OBVIOUS
<1>2. /\ s \o t \in Seq(S) /\ Len(s \o t) = Len(s) + Len(t)
      /\ DOMAIN (s \o t) = 1..(Len(s) + Len(t))
      /\ \A i \in 1..(Len(s) + Len(t)) :
           (s \o t)[i] = IF i <= Len(s) THEN s[i] ELSE t[i - Len(s)]
  OBVIOUS
<1>3. ASSUME NEW x \in ToSet(s \o t) PROVE x \in ToSet(s) \cup ToSet(t)
  <2>1. PICK i \in 1..(Len(s) + Len(t)) : x = (s \o t)[i]
    BY <1>2 DEF ToSet
  <2>2. CASE i <= Len(s)
    BY <1>1, <1>2, <2>1, <2>2 DEF ToSet
  <2>3. CASE ~(i <= Len(s))
    <3>1. i - Len(s) \in 1..Len(t) /\ x = t[i - Len(s)]
      BY <1>1, <1>2, <2>1, <2>3
    <3> QED
      BY <1>1, <3>1 DEF ToSet
  <2> QED
    BY <2>2, <2>3
<1>4. ASSUME NEW x \in ToSet(s) PROVE x \in ToSet(s \o t)
  <2>1. PICK i \in 1..Len(s) : x = s[i]
    BY <1>1 DEF ToSet
  <2>2. i \in 1..(Len(s) + Len(t)) /\ x = (s \o t)[i]
    BY <1>1, <1>2, <2>1
  <2> QED
    BY <1>2, <2>2 DEF ToSet
<1>5. ASSUME NEW x \in ToSet(t) PROVE x \in ToSet(s \o t)
  <2>1. PICK i \in 1..Len(t) : x = t[i]
    BY <1>1 DEF ToSet
  <2>2. Len(s) + i \in 1..(Len(s) + Len(t)) /\ x = (s \o t)[Len(s) + i]
    BY <1>1, <1>2, <2>1
  <2> QED
    BY <1>2, <2>2 DEF ToSet
<1>6. ToSet(s) = {s[i] : i \in 1..Len(s)}
  BY <1>1 DEF ToSet
<1> QED
  BY <1>2, <1>3, <1>4, <1>5, <1>6

\* The next k units after n.
LEMMA UnitsNext ==
  ASSUME NEW n \in Nat, NEW k \in Nat, NEW M \in Nat, n + k <= M
  PROVE  /\ Units(n, k) \in Seq(1..M) /\ Len(Units(n, k)) = k
         /\ ToSet(Units(n, k)) = (n + 1)..(n + k)
         /\ Units(n, k) = <<>> <=> k = 0
<1>1. Units(n, k) = [i \in 1..k |-> n + i]
  BY DEF Units
<1>2. Units(n, k) \in [1..k -> 1..M]
  BY <1>1
<1>3. Units(n, k) \in Seq(1..M) /\ Len(Units(n, k)) = k /\ DOMAIN Units(n, k) = 1..k
  BY <1>1, <1>2
<1>4. ASSUME NEW x \in (n + 1)..(n + k) PROVE x \in ToSet(Units(n, k))
  <2>1. x - n \in 1..k /\ Units(n, k)[x - n] = x
    BY <1>1
  <2> QED
    BY <1>3, <2>1 DEF ToSet
<1>5. ASSUME NEW x \in ToSet(Units(n, k)) PROVE x \in (n + 1)..(n + k)
  BY <1>1, <1>3 DEF ToSet
<1>6. Units(n, k) = <<>> <=> k = 0
  BY <1>3
<1> QED
  BY <1>3, <1>4, <1>5, <1>6

\* Joined to the first n units they make the first n + k.
LEMMA UnitsJoined ==
  ASSUME NEW n \in Nat, NEW k \in Nat
  PROVE  Units(0, n) \o Units(n, k) = Units(0, n + k)
<1> SUFFICES ASSUME NEW u, NEW v, NEW w,
                    u = Units(0, n), v = Units(n, k), w = Units(0, n + k)
             PROVE  u \o v = w
  OBVIOUS
<1>1. /\ u \in Seq(Nat) /\ Len(u) = n /\ v \in Seq(Nat) /\ Len(v) = k
      /\ w \in Seq(Nat) /\ Len(w) = n + k
  BY DEF Units
<1>2. /\ \A i \in 1..n : u[i] = i
      /\ \A i \in 1..k : v[i] = n + i
      /\ \A i \in 1..(n + k) : w[i] = i
  BY DEF Units
<1>3. /\ u \o v \in Seq(Nat) /\ Len(u \o v) = Len(u) + Len(v)
      /\ \A i \in 1..(Len(u) + Len(v)) :
           (u \o v)[i] = IF i <= Len(u) THEN u[i] ELSE v[i - Len(u)]
  BY <1>1
<1>4. ASSUME NEW i \in 1..(n + k) PROVE (u \o v)[i] = w[i]
  <2>1. w[i] = i /\ i \in 1..(Len(u) + Len(v))
    BY <1>1, <1>2
  <2>2. (u \o v)[i] = IF i <= n THEN u[i] ELSE v[i - n]
    BY <1>1, <1>3, <2>1
  <2>3. CASE i <= n
    BY <1>2, <2>1, <2>2, <2>3
  <2>4. CASE ~(i <= n)
    <3>1. i - n \in 1..k
      BY <2>4
    <3>2. v[i - n] = n + (i - n)
      BY <1>2, <3>1
    <3> QED
      BY <2>1, <2>2, <2>4, <3>2
  <2> QED
    BY <2>3, <2>4
<1> QED
  BY <1>1, <1>3, <1>4, SeqEqual

\* Units x join the sequence s of what was sent, and units y the buffer b.
Splits(S, s, b, x, y) ==
  /\ s \o x \in Seq(S) /\ b \o y \in Seq(S)
  /\ Len(s \o x) + Len(b \o y) = Len(s) + Len(b) + Len(x \o y)
  /\ ToSet(s \o x) \cup ToSet(b \o y) = ToSet(s) \cup ToSet(b) \cup ToSet(x \o y)
  /\ b = <<>> => (s \o x) \o (b \o y) = s \o (x \o y)
  /\ b = <<>> /\ y = <<>> => b \o y = <<>>

\* Nothing is lost or doubled by such a step.
LEMMA SplitWrite ==
  ASSUME NEW S, NEW s \in Seq(S), NEW b \in Seq(S),
         NEW x \in Seq(S), NEW y \in Seq(S)
  PROVE  Splits(S, s, b, x, y)
<1>1. /\ s \o x \in Seq(S) /\ Len(s \o x) = Len(s) + Len(x)
      /\ ToSet(s \o x) = ToSet(s) \cup ToSet(x)
  BY Members
<1>2. /\ b \o y \in Seq(S) /\ Len(b \o y) = Len(b) + Len(y)
      /\ ToSet(b \o y) = ToSet(b) \cup ToSet(y)
  BY Members
<1>3. /\ Len(x \o y) = Len(x) + Len(y)
      /\ ToSet(x \o y) = ToSet(x) \cup ToSet(y)
  BY Members
<1>4. /\ Len(s) \in Nat /\ Len(b) \in Nat /\ Len(x) \in Nat /\ Len(y) \in Nat
  OBVIOUS
<1>5. ASSUME b = <<>> PROVE b \o y = y
  BY <1>5, ConcatEmptySeq
<1>6. (s \o x) \o y = s \o (x \o y)
  BY ConcatAssociative
<1>7. Len(s \o x) + Len(b \o y) = Len(s) + Len(b) + Len(x \o y)
  BY <1>1, <1>2, <1>3, <1>4
<1>8. ToSet(s \o x) \cup ToSet(b \o y) = ToSet(s) \cup ToSet(b) \cup ToSet(x \o y)
  BY <1>1, <1>2, <1>3, Zenon
<1> QED
  BY <1>1, <1>2, <1>5, <1>6, <1>7, <1>8, Zenon DEF Splits

\* sent and left hold what s, b and d held before; in order if b was empty.
Written(S, s, b, d, k, sent, left) ==
  /\ sent \in Seq(S) /\ left \in Seq(S)
  /\ Len(sent) + Len(left) = Len(s) + Len(b) + Len(d)
  /\ ToSet(sent) \cup ToSet(left) = ToSet(s) \cup ToSet(b) \cup ToSet(d)
  /\ b = <<>> => sent \o left = s \o d
  /\ b = <<>> /\ k = Len(d) => left = <<>>

\* What a partial write does with the units d: k of them join what was sent,
\* the others join the buffer.
LEMMA PartialWrite ==
  ASSUME NEW S, NEW s \in Seq(S), NEW b \in Seq(S), NEW d \in Seq(S),
         NEW k \in 0..Len(d)
  PROVE  Written(S, s, b, d, k,
                 s \o SubSeq(d, 1, k), b \o SubSeq(d, k + 1, Len(d)))
<1>1. k \in Nat /\ Len(d) \in Nat /\ k <= Len(d)
  OBVIOUS
<1>2. /\ SubSeq(d, 1, k) \in Seq(S) /\ SubSeq(d, k + 1, Len(d)) \in Seq(S)
      /\ k = Len(d) => SubSeq(d, k + 1, Len(d)) = <<>>
  BY <1>1
<1>3. SubSeq(d, 1, k) \o SubSeq(d, k + 1, Len(d)) = d
  <2>1. SubSeq(d, 1, k) \o SubSeq(d, k + 1, Len(d)) = SubSeq(d, 1, Len(d))
    <3>1. 1 \in 1..(Len(d) + 1) /\ k \in (1 - 1)..Len(d) /\ Len(d) \in k..Len(d)
      BY <1>1
    <3> QED
      BY <3>1, ConcatAdjacentSubSeq
  <2>2. SubSeq(d, 1, Len(d)) = d
    BY SubSeqFull
  <2> QED
    BY <2>1, <2>2
<1>4. PICK x \in Seq(S), y \in Seq(S) :
         /\ x = SubSeq(d, 1, k) /\ y = SubSeq(d, k + 1, Len(d)) /\ x \o y = d
         /\ k = Len(d) => y = <<>>
  BY <1>2, <1>3, Zenon
<1>5. Splits(S, s, b, x, y)
  BY SplitWrite, Zenon
<1> QED
  BY <1>4, <1>5, Zenon DEF Splits, Written
\* So the units that were in hand no longer are.
LEMMA HeldWritten ==
  ASSUME NEW S, NEW s, NEW b, NEW d, NEW k, NEW sent, NEW left, NEW n,
         Written(S, s, b, d, k, sent, left), Held(s, b, d, n)
  PROVE  Held(sent, left, <<>>, n)
<1>1. Len(sent) \in Nat /\ Len(left) \in Nat /\ Len(<<>>) = 0
  BY DEF Written
<1>2. Len(sent) + Len(left) = n
  BY DEF Written, Held
<1>3. Len(sent) + Len(left) + Len(<<>>) = n
  BY <1>1, <1>2
<1>4. ToSet(<<>>) = {}
  BY DEF ToSet
<1>5. ToSet(sent) \cup ToSet(left) \cup ToSet(<<>>) = 1..n
  BY <1>4, Zenon DEF Written, Held
<1> QED
  BY <1>3, <1>5 DEF Held

\* A buffer that takes all the units in hand, or the empty hand.
LEMMA HeldBuffered ==
  ASSUME NEW S, NEW s \in Seq(S), NEW b \in Seq(S), NEW d \in Seq(S), NEW n,
         Held(s, b, d, n)
  PROVE  Held(s, b \o d, <<>>, n)
<1>1. /\ b \o d \in Seq(S) /\ Len(b \o d) = Len(b) + Len(d)
      /\ ToSet(b \o d) = ToSet(b) \cup ToSet(d)
  BY Members
<1>2. Len(s) \in Nat /\ Len(b) \in Nat /\ Len(d) \in Nat /\ Len(<<>>) = 0
  OBVIOUS
<1>3. Len(s) + Len(b) + Len(d) = n
  BY DEF Held
<1>4. Len(s) + Len(b \o d) + Len(<<>>) = n
  BY <1>1, <1>2, <1>3
<1>5. ToSet(<<>>) = {}
  BY DEF ToSet
<1>6. ToSet(s) \cup ToSet(b \o d) \cup ToSet(<<>>) = 1..n
  BY <1>1, <1>5, Zenon DEF Held
<1> QED
  BY <1>4, <1>6 DEF Held

\* k new units in hand.
LEMMA HeldMore ==
  ASSUME NEW M \in Nat, NEW s \in Seq(1..M), NEW b \in Seq(1..M),
         NEW n \in Nat, NEW k \in Nat, n + k <= M, Held(s, b, <<>>, n)
  PROVE  Held(s, b, Units(n, k), n + k)
<1>1. /\ Len(Units(n, k)) = k /\ ToSet(Units(n, k)) = (n + 1)..(n + k)
  BY UnitsNext
<1>2. Len(s) \in Nat /\ Len(b) \in Nat /\ Len(<<>>) = 0
  OBVIOUS
<1>3. Len(s) + Len(b) + Len(<<>>) = n
  BY DEF Held
<1>4. Len(s) + Len(b) + Len(Units(n, k)) = n + k
  <2>1. Len(s) + Len(b) = n
    BY <1>2, <1>3
  <2>2. Len(Units(n, k)) = k
    BY <1>1
  <2> QED
    BY <2>1, <2>2
<1>5. ToSet(<<>>) = {}
  BY DEF ToSet
<1>6. ToSet(s) \cup ToSet(b) = 1..n
  BY <1>5, Zenon DEF Held
<1>7. (1..n) \cup ((n + 1)..(n + k)) = 1..(n + k)
  OBVIOUS
<1>8. ToSet(s) \cup ToSet(b) \cup ToSet(Units(n, k)) = 1..(n + k)
  BY <1>1, <1>6, <1>7, Zenon
<1> QED
  BY <1>4, <1>8 DEF Held

\* The buffer's units taken in hand.
LEMMA HeldTaken ==
  ASSUME NEW S, NEW s \in Seq(S), NEW b \in Seq(S), NEW n, Held(s, b, <<>>, n)
  PROVE  Held(s, <<>>, b, n)
<1>1. Len(s) \in Nat /\ Len(b) \in Nat /\ Len(<<>>) = 0
  OBVIOUS
<1>2. Len(s) + Len(b) + Len(<<>>) = n
  BY DEF Held
<1>3. Len(s) + Len(<<>>) + Len(b) = n
  BY <1>1, <1>2
<1>4. ToSet(s) \cup ToSet(<<>>) \cup ToSet(b) = 1..n
  BY Zenon DEF Held
<1> QED
  BY <1>3, <1>4 DEF Held

-----------------------------------------------------------------------------
\* r differs from g at most in the statuses and the events polled for.
SameButWaits(r, g) ==
  /\ r.stage = g.stage /\ r.remote = g.remote /\ r.toRemote = g.toRemote
  /\ r.toLocal = g.toLocal /\ r.upOut = g.upOut /\ r.downOut = g.downOut
  /\ r.sentUp = g.sentUp /\ r.sentDown = g.sentDown
  /\ r.sendsBack = g.sendsBack /\ r.end = g.end

\* _update_stream makes the loop follow the statuses.
LEMMA PolledFollows ==
  ASSUME NEW g \in HandlerType
  PROVE  /\ Polled(g) \in HandlerType /\ Follows(Polled(g))
         /\ SameButWaits(Polled(g), g)
         /\ Polled(g).up = g.up /\ Polled(g).down = g.down
         /\ Follows(g) <=> /\ g.modeL = Polled(g).modeL
                           /\ g.modeR = Polled(g).modeR
<1>1. /\ Polled(g).modeL = ModeL(g) /\ Polled(g).modeR = ModeR(g)
      /\ Polled(g).up = g.up /\ Polled(g).down = g.down
      /\ SameButWaits(Polled(g), g)
  BY DEF HandlerType, Polled, ModeL, ModeR, SameButWaits
<1>2. ModeL(g) \subseteq {"IN", "OUT", "ERR"} /\ ModeR(g) \subseteq {"IN", "OUT", "ERR"}
  BY DEF ModeL, ModeR
<1>3. Polled(g) \in HandlerType
  <2>1. PICK a \in SUBSET {"IN", "OUT", "ERR"}, b \in SUBSET {"IN", "OUT", "ERR"} :
          a = ModeL(g) /\ b = ModeR(g)
    BY <1>2
  <2>2. Polled(g) = [g EXCEPT !.modeL = a, !.modeR = b]
    BY <2>1 DEF Polled, ModeL, ModeR
  <2> QED
    BY <2>2 DEF HandlerType
<1>4. ModeL(Polled(g)) = ModeL(g) /\ ModeR(Polled(g)) = ModeR(g)
  BY <1>1 DEF ModeL, ModeR, SameButWaits
<1> QED
  BY <1>1, <1>3, <1>4 DEF Follows

\* A new upstream status.
LEMMA UpdateUpFollows ==
  ASSUME NEW g \in HandlerType, NEW st \in SUBSET {"R", "W"},
         Follows(g) \/ g.up # st
  PROVE  /\ UpdateUp(g, st) \in HandlerType /\ Follows(UpdateUp(g, st))
         /\ SameButWaits(UpdateUp(g, st), g)
         /\ UpdateUp(g, st).up = st /\ UpdateUp(g, st).down = g.down
<1>1. CASE g.up = st
  BY <1>1 DEF UpdateUp, SameButWaits
<1>2. CASE g.up # st
  <2>1. PICK w : w = [g EXCEPT !.up = st]
    OBVIOUS
  <2>2. w \in HandlerType /\ SameButWaits(w, g) /\ w.up = st /\ w.down = g.down
    BY <2>1 DEF HandlerType, SameButWaits
  <2>3. UpdateUp(g, st) = Polled(w)
    BY <1>2, <2>1 DEF UpdateUp
  <2> QED
    BY <2>2, <2>3, PolledFollows DEF SameButWaits
<1> QED
  BY <1>1, <1>2

\* A new downstream status.
LEMMA UpdateDownFollows ==
  ASSUME NEW g \in HandlerType, NEW st \in SUBSET {"R", "W"},
         Follows(g) \/ g.down # st
  PROVE  /\ UpdateDown(g, st) \in HandlerType /\ Follows(UpdateDown(g, st))
         /\ SameButWaits(UpdateDown(g, st), g)
         /\ UpdateDown(g, st).up = g.up /\ UpdateDown(g, st).down = st
<1>1. CASE g.down = st
  BY <1>1 DEF UpdateDown, SameButWaits
<1>2. CASE g.down # st
  <2>1. PICK w : w = [g EXCEPT !.down = st]
    OBVIOUS
  <2>2. w \in HandlerType /\ SameButWaits(w, g) /\ w.up = g.up /\ w.down = st
    BY <2>1 DEF HandlerType, SameButWaits
  <2>3. UpdateDown(g, st) = Polled(w)
    BY <1>2, <2>1 DEF UpdateDown
  <2> QED
    BY <2>2, <2>3, PolledFollows DEF SameButWaits
<1> QED
  BY <1>1, <1>2
-----------------------------------------------------------------------------
\* destroy, for a reason that is not the end of the destination's data unless
\* all of it is sent.
LEMMA DestroyedGood ==
  ASSUME NEW g \in HandlerType,
         NEW why \in {"error", "localEof", "remoteEof", "userGone", "timeout"},
         ~g.sendsBack /\ why = "remoteEof" => g.sentDown = Units(0, g.downOut)
  PROVE  Good(Destroyed(g, why)) /\ Destroyed(g, why).stage = "DESTROYED"
<1>1. /\ Destroyed(g, why) \in HandlerType
      /\ Destroyed(g, why).stage = "DESTROYED" /\ ~Destroyed(g, why).remote
      /\ Destroyed(g, why).end = why
      /\ Destroyed(g, why).sentDown = g.sentDown
      /\ Destroyed(g, why).downOut = g.downOut
      /\ Destroyed(g, why).sendsBack = g.sendsBack
  BY DEF HandlerType, Destroyed
<1> QED
  BY <1>1 DEF Good, HasRemote, AllSent

\* _write_to_sock with units d for the client: nothing of them is lost.
LEMMA WriteLocalGood ==
  ASSUME NEW g \in HandlerType, NEW d \in Seq(1..MaxDown), d # <<>>,
         g.stage # "DESTROYED", HasRemote(g), Waits(g),
         HeldUp(g, <<>>), HeldDown(g, d),
         ~g.sendsBack => /\ g.toLocal = <<>> /\ g.remote
                         /\ g.sentDown \o d = Units(0, g.downOut),
         NEW r \in WriteLocal(g, d)
  PROVE  /\ Good(r)
         /\ \/ r.stage = "DESTROYED"
            \/ /\ r.stage = g.stage /\ r.remote = g.remote /\ r.upOut = g.upOut
               /\ r.downOut = g.downOut /\ r.sendsBack = g.sendsBack
<1>1. CASE r = Destroyed(g, "error")
  BY <1>1, DestroyedGood
<1>2. ASSUME NEW k \in 0..Len(d), r = WroteLocal(g, d, k)
      PROVE  /\ Good(r) /\ r.stage = g.stage /\ r.remote = g.remote
             /\ r.upOut = g.upOut /\ r.downOut = g.downOut
             /\ r.sendsBack = g.sendsBack
  <2>1. PICK sent, left : /\ sent = g.sentDown \o SubSeq(d, 1, k)
                          /\ left = g.toLocal \o SubSeq(d, k + 1, Len(d))
    OBVIOUS
  <2>2. Written(1..MaxDown, g.sentDown, g.toLocal, d, k, sent, left)
    <3>1. g.sentDown \in Seq(1..MaxDown) /\ g.toLocal \in Seq(1..MaxDown)
      BY DEF HandlerType
    <3> QED
      BY <2>1, <3>1, PartialWrite, Zenon
  <2>3. PICK w : w = [g EXCEPT !.sentDown = sent, !.toLocal = left]
    OBVIOUS
  <2>4. /\ w \in HandlerType /\ w.sentDown = sent /\ w.toLocal = left
        /\ w.stage = g.stage /\ w.up = g.up /\ w.down = g.down
        /\ w.modeL = g.modeL /\ w.modeR = g.modeR /\ w.remote = g.remote
        /\ w.toRemote = g.toRemote /\ w.upOut = g.upOut /\ w.downOut = g.downOut
        /\ w.sentUp = g.sentUp /\ w.sendsBack = g.sendsBack /\ w.end = g.end
    BY <2>2, <2>3 DEF HandlerType, Written
  <2>5. Follows(w)
    BY <2>4 DEF Waits, Follows, ModeL, ModeR
  <2>6. PICK st \in SUBSET {"R", "W"} : st = IF k < Len(d) THEN {"W"} ELSE {"R"}
    OBVIOUS
  <2>7. r = UpdateDown(w, st)
    BY <1>2, <2>1, <2>3, <2>6, Zenon DEF WroteLocal
  <2>8. /\ r \in HandlerType /\ Follows(r) /\ SameButWaits(r, w)
        /\ r.up = g.up /\ r.down = st
    BY <2>4, <2>5, <2>7, UpdateDownFollows
  <2>9. Waits(r)
    BY <2>4, <2>6, <2>8 DEF Waits, SameButWaits
  <2>10. HeldUp(r, <<>>)
    BY <2>4, <2>8 DEF HeldUp, SameButWaits
  <2>11. HeldDown(r, <<>>)
    <3>1. r.sentDown = sent /\ r.toLocal = left /\ r.downOut = g.downOut
      BY <2>4, <2>8 DEF SameButWaits
    <3>2. Held(sent, left, <<>>, g.downOut)
      BY <2>2, HeldWritten DEF HeldDown
    <3> QED
      BY <3>1, <3>2 DEF HeldDown
  <2>12. InOrder(r)
    <3> SUFFICES ASSUME ~r.sendsBack
                 PROVE  /\ r.sentDown \o r.toLocal = Units(0, r.downOut)
                        /\ r.toLocal # <<>> => r.remote /\ r.down = {"W"}
      BY DEF InOrder
    <3>1. g.toLocal = <<>> /\ g.remote /\ g.sentDown \o d = Units(0, g.downOut)
      BY <2>4, <2>8 DEF SameButWaits
    <3>2. r.sentDown \o r.toLocal = Units(0, r.downOut)
      <4>1. r.sentDown = sent /\ r.toLocal = left /\ r.downOut = g.downOut
        BY <2>4, <2>8 DEF SameButWaits
      <4> QED
        BY <2>2, <3>1, <4>1, Zenon DEF Written
    <3>3. r.toLocal = left /\ r.remote
      BY <2>4, <2>8, <3>1 DEF SameButWaits
    <3>4. left # <<>> => k < Len(d)
      <4>1. left # <<>> => k # Len(d)
        BY <2>2, <3>1 DEF Written
      <4> QED
        BY <4>1
    <3> QED
      BY <2>6, <2>8, <3>2, <3>3, <3>4
  <2> QED
    <3>1. HasRemote(r) /\ AllSent(r)
      BY <2>4, <2>8, <2>9 DEF HasRemote, AllSent, SameButWaits, Waits
    <3> QED
      BY <2>4, <2>8, <2>9, <2>10, <2>11, <2>12, <3>1
         DEF Good, Live, SameButWaits
<1> QED
  BY <1>1, <1>2 DEF WriteLocal

\* _write_to_sock with units d for the destination.
LEMMA WriteRemoteGood ==
  ASSUME NEW g \in HandlerType, NEW d \in Seq(1..MaxUp), d # <<>>,
         g.stage = "STREAM", HasRemote(g), Waits(g),
         HeldUp(g, d), HeldDown(g, <<>>), InOrder(g),
         NEW r \in WriteRemote(g, d)
  PROVE  /\ Good(r)
         /\ \/ r.stage = "DESTROYED"
            \/ /\ r.stage = g.stage /\ r.remote = g.remote
               /\ r.toLocal = g.toLocal /\ r.sendsBack = g.sendsBack
<1>1. CASE r = Destroyed(g, "error")
  BY <1>1, DestroyedGood
<1>2. ASSUME NEW k \in 0..Len(d), r = WroteRemote(g, d, k)
      PROVE  /\ Good(r) /\ r.stage = g.stage /\ r.remote = g.remote
             /\ r.toLocal = g.toLocal /\ r.sendsBack = g.sendsBack
  <2>1. PICK sent, left : /\ sent = g.sentUp \o SubSeq(d, 1, k)
                          /\ left = g.toRemote \o SubSeq(d, k + 1, Len(d))
    OBVIOUS
  <2>2. Written(1..MaxUp, g.sentUp, g.toRemote, d, k, sent, left)
    <3>1. g.sentUp \in Seq(1..MaxUp) /\ g.toRemote \in Seq(1..MaxUp)
      BY DEF HandlerType
    <3> QED
      BY <2>1, <3>1, PartialWrite, Zenon
  <2>3. PICK w : w = [g EXCEPT !.sentUp = sent, !.toRemote = left]
    OBVIOUS
  <2>4. /\ w \in HandlerType /\ w.sentUp = sent /\ w.toRemote = left
        /\ w.stage = g.stage /\ w.up = g.up /\ w.down = g.down
        /\ w.modeL = g.modeL /\ w.modeR = g.modeR /\ w.remote = g.remote
        /\ w.toLocal = g.toLocal /\ w.upOut = g.upOut /\ w.downOut = g.downOut
        /\ w.sentDown = g.sentDown /\ w.sendsBack = g.sendsBack /\ w.end = g.end
    BY <2>2, <2>3 DEF HandlerType, Written
  <2>5. Follows(w)
    BY <2>4 DEF Waits, Follows, ModeL, ModeR
  <2>6. PICK st \in SUBSET {"R", "W"} : st = IF k < Len(d) THEN {"W"} ELSE {"R"}
    OBVIOUS
  <2>7. r = UpdateUp(w, st)
    BY <1>2, <2>1, <2>3, <2>6, Zenon DEF WroteRemote
  <2>8. /\ r \in HandlerType /\ Follows(r) /\ SameButWaits(r, w)
        /\ r.up = st /\ r.down = g.down
    BY <2>4, <2>5, <2>7, UpdateUpFollows
  <2>9. Waits(r)
    BY <2>4, <2>6, <2>8 DEF Waits, SameButWaits
  <2>10. HeldUp(r, <<>>)
    <3>1. r.sentUp = sent /\ r.toRemote = left /\ r.upOut = g.upOut
      BY <2>4, <2>8 DEF SameButWaits
    <3>2. Held(sent, left, <<>>, g.upOut)
      BY <2>2, HeldWritten DEF HeldUp
    <3> QED
      BY <3>1, <3>2 DEF HeldUp
  <2>11. HeldDown(r, <<>>) /\ InOrder(r)
    BY <2>4, <2>8 DEF HeldDown, InOrder, SameButWaits
  <2>12. HasRemote(r) /\ AllSent(r)
    BY <2>4, <2>8, <2>9 DEF HasRemote, AllSent, SameButWaits, Waits
  <2> QED
    BY <2>4, <2>8, <2>9, <2>10, <2>11, <2>12 DEF Good, Live, SameButWaits
<1> QED
  BY <1>1, <1>2 DEF WriteRemote

\* _handle_dns_resolved of a handler that waits for it: the new remote socket
\* is polled for as the statuses say, since the upstream status does change.
LEMMA ResolvedGood ==
  ASSUME NEW g \in HandlerType, g.stage = "DNS", HasRemote(g), Live(g),
         NEW r \in Resolved(g)
  PROVE  /\ Good(r)
         /\ \/ r.stage = "DESTROYED"
            \/ /\ r.stage = "CONNECTING" /\ r.remote
               /\ r.toLocal = g.toLocal /\ r.sendsBack = g.sendsBack
<1>1. CASE r = Destroyed(g, "error")
  BY <1>1, DestroyedGood
<1>2. CASE r = Connecting(g)
  <2>1. PICK w : w = [g EXCEPT !.stage = "CONNECTING", !.remote = TRUE,
                               !.modeR = {"ERR", "OUT"}]
    OBVIOUS
  <2>2. /\ w \in HandlerType /\ w.stage = "CONNECTING" /\ w.remote
        /\ w.up = {"W"} /\ w.toRemote = g.toRemote
        /\ w.toLocal = g.toLocal /\ w.upOut = g.upOut /\ w.downOut = g.downOut
        /\ w.sentUp = g.sentUp /\ w.sentDown = g.sentDown
        /\ w.sendsBack = g.sendsBack /\ w.end = g.end
    BY <2>1 DEF HandlerType, Live, Waits
  <2>3. PICK v : v = UpdateUp(w, {"R", "W"})
    OBVIOUS
  <2>4. v \in HandlerType /\ Follows(v) /\ SameButWaits(v, w) /\ v.up = {"R", "W"}
    <3>1. w.up # {"R", "W"}
      BY <2>2
    <3> QED
      BY <2>2, <2>3, <3>1, UpdateUpFollows
  <2>5. r = UpdateDown(v, {"R"})
    BY <1>2, <2>1, <2>3, Zenon DEF Connecting
  <2>6. /\ r \in HandlerType /\ Follows(r) /\ SameButWaits(r, v)
        /\ r.up = {"R", "W"} /\ r.down = {"R"}
    BY <2>4, <2>5, UpdateDownFollows
  <2>7. SameButWaits(r, w)
    BY <2>4, <2>6 DEF SameButWaits
  <2>8. Waits(r)
    BY <2>2, <2>6, <2>7 DEF Waits, SameButWaits, Live
  <2>9. HeldUp(r, <<>>) /\ HeldDown(r, <<>>)
    BY <2>2, <2>7 DEF HeldUp, HeldDown, SameButWaits, Live
  <2>10. InOrder(r)
    <3>1. ~g.remote /\ InOrder(g)
      BY DEF HasRemote, Live
    <3> QED
      BY <2>2, <2>7, <3>1 DEF InOrder, SameButWaits
  <2>11. HasRemote(r) /\ AllSent(r)
    BY <2>2, <2>7, <2>8 DEF HasRemote, AllSent, SameButWaits, Waits
  <2> QED
    BY <2>2, <2>6, <2>7, <2>8, <2>9, <2>10, <2>11 DEF Good, Live, SameButWaits
<1> QED
  BY <1>1, <1>2 DEF Resolved

\* _handle_stage_addr: the units after the header wait in the buffer.
LEMMA StageAddrGood ==
  ASSUME NEW g \in HandlerType, NEW d \in Seq(1..MaxUp),
         g.stage = "INIT", HasRemote(g), Waits(g),
         HeldUp(g, d), HeldDown(g, <<>>), InOrder(g),
         NEW r \in StageAddr(g, d)
  PROVE  /\ Good(r)
         /\ \/ r.stage = "DESTROYED"
            \/ r.toLocal = g.toLocal /\ r.sendsBack = g.sendsBack
<1>1. PICK v : v = UpdateUp(g, {"W"})
  OBVIOUS
<1>2. /\ v \in HandlerType /\ Follows(v) /\ SameButWaits(v, g)
      /\ v.up = {"W"} /\ v.down = g.down
  BY <1>1, UpdateUpFollows DEF Waits
<1>3. PICK t : t = g.toRemote \o d
  OBVIOUS
<1>4. g.sentUp \in Seq(1..MaxUp) /\ g.toRemote \in Seq(1..MaxUp)
  BY DEF HandlerType
<1>5. t \in Seq(1..MaxUp)
  BY <1>3, <1>4, Members
<1>6. Held(g.sentUp, t, <<>>, g.upOut)
  BY <1>3, <1>4, HeldBuffered DEF HeldUp
<1>7. PICK w : w = [v EXCEPT !.stage = "DNS", !.toRemote = t]
  OBVIOUS
<1>8. /\ w \in HandlerType /\ w.stage = "DNS" /\ w.toRemote = t
      /\ w.up = {"W"} /\ w.down = g.down /\ w.remote = g.remote
      /\ w.modeL = v.modeL /\ w.modeR = v.modeR
      /\ w.toLocal = g.toLocal /\ w.upOut = g.upOut /\ w.downOut = g.downOut
      /\ w.sentUp = g.sentUp /\ w.sentDown = g.sentDown
      /\ w.sendsBack = g.sendsBack /\ w.end = g.end
  BY <1>2, <1>5, <1>7 DEF HandlerType, SameButWaits
<1>9. Follows(w)
  BY <1>2, <1>8 DEF Follows, ModeL, ModeR, SameButWaits
<1>10. HasRemote(w) /\ ~w.remote
  BY <1>8 DEF HasRemote
<1>11. Waits(w) /\ InOrder(w) /\ AllSent(w)
  BY <1>8, <1>9 DEF Waits, InOrder, AllSent
<1>12. HeldUp(w, <<>>) /\ HeldDown(w, <<>>)
  BY <1>6, <1>8 DEF HeldUp, HeldDown
<1>13. Live(w) /\ Good(w)
  BY <1>8, <1>10, <1>11, <1>12 DEF Live, Good
<1>14. w = [UpdateUp(g, {"W"}) EXCEPT !.stage = "DNS", !.toRemote = @ \o d]
  <2>1. v.toRemote = g.toRemote
    BY <1>2 DEF SameButWaits
  <2> QED
    BY <1>1, <1>3, <1>7, <2>1
<1>15. r = w \/ r \in Resolved(w)
  BY <1>14, Zenon DEF StageAddr
<1>16. CASE r = w
  BY <1>8, <1>13, <1>16
<1>17. CASE r \in Resolved(w)
  BY <1>8, <1>10, <1>13, <1>17, ResolvedGood
<1> QED
  BY <1>15, <1>16, <1>17

\* What _on_local_read does with decoded units, in every stage in which it can
\* be called.
LEMMA DispatchGood ==
  ASSUME NEW g \in HandlerType, NEW d \in Seq(1..MaxUp),
         g.stage \in {"INIT", "CONNECTING", "STREAM"}, HasRemote(g), Waits(g),
         HeldUp(g, d), HeldDown(g, <<>>), InOrder(g),
         NEW r \in Dispatch(g, d)
  PROVE  /\ Good(r)
         /\ \/ r.stage = "DESTROYED"
            \/ /\ g.remote => r.remote
               /\ r.toLocal = g.toLocal /\ r.sendsBack = g.sendsBack
<1>1. g.sentUp \in Seq(1..MaxUp) /\ g.toRemote \in Seq(1..MaxUp)
  BY DEF HandlerType
<1>2. CASE g.stage = "INIT"
  <2>1. r \in StageAddr(g, d) /\ ~g.remote
    BY <1>2 DEF Dispatch, HasRemote
  <2> QED
    BY <1>2, <2>1, StageAddrGood
<1>3. CASE g.stage = "CONNECTING"
  <2>1. PICK t : t = g.toRemote \o d
    OBVIOUS
  <2>2. t \in Seq(1..MaxUp)
    BY <1>1, <2>1, Members
  <2>3. Held(g.sentUp, t, <<>>, g.upOut)
    BY <1>1, <2>1, HeldBuffered DEF HeldUp
  <2>4. r = [g EXCEPT !.toRemote = t]
    BY <1>3, <2>1 DEF Dispatch
  <2>5. /\ r \in HandlerType /\ r.stage = g.stage /\ r.toRemote = t
        /\ r.up = g.up /\ r.down = g.down /\ r.remote = g.remote
        /\ r.modeL = g.modeL /\ r.modeR = g.modeR
        /\ r.toLocal = g.toLocal /\ r.upOut = g.upOut /\ r.downOut = g.downOut
        /\ r.sentUp = g.sentUp /\ r.sentDown = g.sentDown
        /\ r.sendsBack = g.sendsBack /\ r.end = g.end
    BY <2>2, <2>4 DEF HandlerType
  <2>6. Waits(r) /\ InOrder(r) /\ AllSent(r) /\ HasRemote(r)
    BY <2>5 DEF Waits, InOrder, AllSent, HasRemote, Follows, ModeL, ModeR
  <2>7. HeldUp(r, <<>>) /\ HeldDown(r, <<>>)
    BY <2>3, <2>5 DEF HeldUp, HeldDown
  <2> QED
    BY <2>5, <2>6, <2>7 DEF Live, Good
<1>4. CASE g.stage = "STREAM"
  <2>1. r \in WriteRemote(g, d)
    BY <1>4 DEF Dispatch
  <2>2. CASE d # <<>>
    BY <1>4, <2>1, <2>2, WriteRemoteGood
  <2>3. CASE d = <<>>
    <3>1. r = g
      BY <2>1, <2>3 DEF WriteRemote
    <3>2. AllSent(g) /\ HeldUp(g, <<>>)
      BY <2>3 DEF Waits, AllSent
    <3> QED
      BY <3>1, <3>2 DEF Good, Live
  <2> QED
    BY <2>2, <2>3
<1> QED
  BY <1>2, <1>3, <1>4

\* The answer a plugin sends to the client in between.
LEMMA AnswerGood ==
  ASSUME NEW g \in HandlerType, g.stage # "DESTROYED", HasRemote(g), Live(g),
         NEW b \in Nat, g.downOut + b <= MaxDown, b > 0 => g.sendsBack,
         NEW r \in Answer(g, b)
  PROVE  /\ Good(r)
         /\ \/ r.stage = "DESTROYED"
            \/ /\ r.stage = g.stage /\ r.remote = g.remote /\ r.upOut = g.upOut
               /\ r.sendsBack = g.sendsBack
               /\ ~g.sendsBack => r.toLocal = g.toLocal
<1>1. /\ g.sentDown \in Seq(1..MaxDown) /\ g.toLocal \in Seq(1..MaxDown)
      /\ g.downOut \in Nat /\ MaxDown \in Nat
  BY HandlerAssumption DEF HandlerType
<1>2. PICK d : d = Units(g.downOut, b)
  OBVIOUS
<1>3. d \in Seq(1..MaxDown) /\ (d = <<>> <=> b = 0)
  BY <1>1, <1>2, UnitsNext
<1>4. Held(g.sentDown, g.toLocal, d, g.downOut + b)
  BY <1>1, <1>2, HeldMore DEF Live, HeldDown
<1>5. PICK w : w = [g EXCEPT !.downOut = @ + b]
  OBVIOUS
<1>6. PICK m \in 0..MaxDown : m = g.downOut + b
  BY <1>1
<1>7. w = [g EXCEPT !.downOut = m]
  BY <1>5, <1>6
<1>8. /\ w \in HandlerType /\ w.downOut = g.downOut + b
      /\ w.stage = g.stage /\ w.up = g.up /\ w.down = g.down
      /\ w.modeL = g.modeL /\ w.modeR = g.modeR /\ w.remote = g.remote
      /\ w.toRemote = g.toRemote /\ w.toLocal = g.toLocal /\ w.upOut = g.upOut
      /\ w.sentUp = g.sentUp /\ w.sentDown = g.sentDown
      /\ w.sendsBack = g.sendsBack /\ w.end = g.end
  BY <1>6, <1>7 DEF HandlerType
<1>9. r \in WriteLocal(w, d)
  BY <1>2, <1>5 DEF Answer
<1>10. CASE b = 0
  <2>1. w = g
    BY <1>1, <1>5, <1>10 DEF HandlerType
  <2>2. r = g
    BY <1>3, <1>9, <1>10, <2>1 DEF WriteLocal
  <2>3. AllSent(g)
    BY DEF Live, Waits, AllSent
  <2> QED
    BY <2>2, <2>3 DEF Good
<1>11. CASE b # 0
  <2>1. w.sendsBack /\ d # <<>>
    BY <1>3, <1>8, <1>11
  <2>2. HasRemote(w) /\ Waits(w)
    BY <1>8 DEF Live, HasRemote, Waits, Follows, ModeL, ModeR
  <2>3. HeldUp(w, <<>>) /\ HeldDown(w, d)
    BY <1>4, <1>8 DEF Live, HeldUp, HeldDown
  <2>4. /\ Good(r)
        /\ \/ r.stage = "DESTROYED"
           \/ /\ r.stage = w.stage /\ r.remote = w.remote /\ r.upOut = w.upOut
              /\ r.downOut = w.downOut /\ r.sendsBack = w.sendsBack
    BY <1>3, <1>8, <1>9, <2>1, <2>2, <2>3, WriteLocalGood
  <2> QED
    BY <1>8, <2>1, <2>4
<1> QED
  BY <1>10, <1>11
-----------------------------------------------------------------------------
\* What an event of socket s may change from g to r, as far as the events that
\* follow it in the batch are concerned.
Steady(g, r, s) ==
  /\ g.remote => r.remote
  /\ r.stage = "DNS" => g.stage = "DNS" \/ s = "local"
  /\ r.sendsBack = g.sendsBack
  /\ ~g.sendsBack /\ g.toLocal = <<>> => r.toLocal = <<>> \/ s = "remote"

\* The event that is handled finds the handler as it expects it.
LEMMA EventIsTimely ==
  ASSUME Inv, NEW s, NEW e, Handle(s, e)
  PROVE  /\ h.stage # "DESTROYED" /\ h \in HandlerType /\ HasRemote(h) /\ Live(h)
         /\ Timely(h, <<s, e>>)
<1>1. Alive /\ batch \in Seq(BatchType) /\ batch # <<>> /\ batch[1] = <<s, e>>
  BY DEF Inv, BatchInv, Handle
<1>2. 1 \in 1..Len(batch)
  BY <1>1
<1>3. Timely(h, batch[1])
  BY <1>1, <1>2 DEF Inv, BatchInv
<1> QED
  BY <1>1, <1>3 DEF Inv, Good, Alive

\* The rest of the batch stays timely, because a poll reports a socket once.
LEMMA BatchHandled ==
  ASSUME Inv, NEW s, NEW e, Handle(s, e),
         h'.stage # "DESTROYED" => Steady(h, h', s)
  PROVE  BatchInv'
<1>1. /\ Alive /\ batch \in Seq(BatchType) /\ batch # <<>> /\ batch[1] = <<s, e>>
      /\ batch' = Tail(batch) /\ OncePerSocket(batch)
      /\ \A i \in 1..Len(batch) : Timely(h, batch[i])
  BY DEF Inv, BatchInv, Handle
<1>2. /\ batch' \in Seq(BatchType) /\ Len(batch') = Len(batch) - 1
      /\ \A i \in 1..Len(batch') :
           /\ i + 1 \in 1..Len(batch) /\ i + 1 # 1 /\ batch'[i] = batch[i + 1]
  BY <1>1
<1>3. 1 \in 1..Len(batch)
  BY <1>1
<1>4. OncePerSocket(batch')
  BY <1>1, <1>2 DEF OncePerSocket
<1>5. ASSUME Alive', NEW i \in 1..Len(batch') PROVE Timely(h', batch'[i])
  <2>1. PICK event \in BatchType : event = batch'[i]
    BY <1>2
  <2>2. Timely(h, event)
    BY <1>1, <1>2, <2>1
  <2>3. event[1] # s
    <3>1. batch[i + 1][1] # batch[1][1]
      BY <1>1, <1>2, <1>3 DEF OncePerSocket
    <3>2. batch[1][1] = s
      BY <1>1
    <3> QED
      BY <1>2, <2>1, <3>1, <3>2
  <2>4. Steady(h, h', s)
    BY <1>5 DEF Alive
  <2>5. event[1] = "remote" => h'.remote
    BY <2>2, <2>4 DEF Timely, Steady
  <2>6. ASSUME h'.stage = "DNS" PROVE event # <<"local", "IN">>
    <3>1. CASE s = "local"
      BY <2>3, <3>1
    <3>2. CASE s # "local"
      BY <2>2, <2>4, <2>6, <3>2 DEF Timely, Steady
    <3> QED
      BY <3>1, <3>2
  <2>7. ASSUME event = <<"remote", "IN">>, ~h'.sendsBack PROVE h'.toLocal = <<>>
    <3>1. s # "remote"
      BY <2>3, <2>7
    <3>2. ~h.sendsBack /\ h.toLocal = <<>>
      BY <2>2, <2>4, <2>7 DEF Timely, Steady
    <3> QED
      BY <2>4, <3>1, <3>2 DEF Steady
  <2> QED
    BY <2>1, <2>5, <2>6, <2>7 DEF Timely
<1> QED
  BY <1>2, <1>4, <1>5 DEF BatchInv

\* The initial state.
LEMMA InitInv == Init => Inv
<1> SUFFICES ASSUME Init PROVE Inv
  OBVIOUS
<1>1. PICK p \in Plugins :
        h = [stage |-> "INIT", up |-> {"R"}, down |-> {},
             modeL |-> {"IN", "ERR"}, modeR |-> {}, remote |-> FALSE,
             toRemote |-> <<>>, toLocal |-> <<>>, upOut |-> 0, downOut |-> 0,
             sentUp |-> <<>>, sentDown |-> <<>>, sendsBack |-> p,
             end |-> "none"]
  BY DEF Init
<1>2. p \in BOOLEAN /\ MaxUp \in Nat /\ MaxDown \in Nat
  BY HandlerAssumption
<1>3. h \in HandlerType
  BY <1>1, <1>2 DEF HandlerType
<1>4. HasRemote(h) /\ AllSent(h)
  BY <1>1 DEF HasRemote, AllSent
<1>5. Waits(h)
  BY <1>1 DEF Waits, Follows, ModeL, ModeR
<1>6. Held(<<>>, <<>>, <<>>, 0)
  <2>1. ToSet(<<>>) = {} /\ Len(<<>>) = 0 /\ 1..0 = {}
    BY DEF ToSet
  <2> QED
    BY <2>1 DEF Held
<1>7. HeldUp(h, <<>>) /\ HeldDown(h, <<>>)
  BY <1>1, <1>6 DEF HeldUp, HeldDown
<1>8. InOrder(h)
  <2>1. Units(0, 0) = <<>>
    BY UnitsNext
  <2>2. <<>> \o <<>> = <<>>
    OBVIOUS
  <2> QED
    BY <1>1, <2>1, <2>2 DEF InOrder
<1>9. BatchInv
  <2>1. batch = <<>>
    BY DEF Init
  <2> QED
    BY <2>1 DEF BatchInv, OncePerSocket
<1> QED
  BY <1>3, <1>4, <1>5, <1>7, <1>8, <1>9 DEF Inv, Good, Live

\* EventLoop.poll reports only events that the handler can take.
LEMMA PollInv == Inv /\ Poll => Inv'
<1> SUFFICES ASSUME Inv, Poll PROVE Inv'
  OBVIOUS
<1>1. Alive /\ h' = h /\ Live(h) /\ h \in HandlerType
  BY DEF Poll, Inv, Good, Alive
<1>2. PICK ready : ready = ({"local"} \X h.modeL) \cup ({"remote"} \X h.modeR)
  OBVIOUS
<1>3. PICK n \in {1, 2} :
        batch' \in {b \in [1..n -> ready] : OncePerSocket(b)}
  BY <1>2 DEF Poll
<1>4. batch' \in Seq(ready) /\ OncePerSocket(batch')
  BY <1>3
<1>5. ready \subseteq BatchType
  BY <1>1, <1>2 DEF HandlerType, BatchType
<1>6. batch' \in Seq(BatchType)
  BY <1>4, <1>5
<1>7. ASSUME NEW i \in 1..Len(batch') PROVE Timely(h, batch'[i])
  <2>1. PICK event \in ready : event = batch'[i]
    BY <1>4
  <2>2. Follows(h) /\ InOrder(h) /\ (h.stage = "DNS" => h.up = {"W"})
    BY <1>1 DEF Live, Waits
  <2>3. \/ event[1] = "local" /\ event[2] \in h.modeL /\ event = <<event[1], event[2]>>
        \/ event[1] = "remote" /\ event[2] \in h.modeR /\ event = <<event[1], event[2]>>
    BY <1>2, <2>1
  <2>4. event[1] = "remote" => h.remote
    BY <2>2, <2>3 DEF Follows, ModeR
  <2>5. ASSUME h.stage = "DNS" PROVE event # <<"local", "IN">>
    BY <2>2, <2>3, <2>5 DEF Follows, ModeL
  <2>6. ASSUME event = <<"remote", "IN">>, ~h.sendsBack PROVE h.toLocal = <<>>
    <3>1. "IN" \in h.modeR
      BY <2>3, <2>6
    <3>2. "R" \in h.down
      BY <2>2, <3>1 DEF Follows, ModeR
    <3>3. h.down # {"W"}
      BY <3>2
    <3>4. h.toLocal # <<>> => h.down = {"W"}
      BY <2>2, <2>6, Zenon DEF InOrder
    <3> QED
      BY <3>3, <3>4, Zenon
  <2> QED
    BY <2>1, <2>4, <2>5, <2>6 DEF Timely
<1> QED
  BY <1>1, <1>4, <1>6, <1>7 DEF Inv, BatchInv

\* An event handled: the handler stays good and the batch timely.
LEMMA EventInv ==
  ASSUME Inv, NEW s, NEW e, Handle(s, e), Good(h'),
         h'.stage = "DESTROYED" \/ Steady(h, h', s)
  PROVE  Inv'
<1>1. BatchInv'
  BY BatchHandled
<1> QED
  BY <1>1 DEF Inv, Good

\* destroy in the middle of a batch: what is left of it is ignored.
LEMMA DestroyedInv ==
  ASSUME Inv, NEW s, NEW e, Handle(s, e),
         NEW why \in {"error", "localEof", "remoteEof", "userGone", "timeout"},
         h' = Destroyed(h, why),
         ~h.sendsBack /\ why = "remoteEof" => h.sentDown = Units(0, h.downOut)
  PROVE  Inv'
<1>1. h \in HandlerType
  BY EventIsTimely
<1>2. Good(h') /\ h'.stage = "DESTROYED"
  BY <1>1, DestroyedGood
<1> QED
  BY <1>2, EventInv

\* An event that is ignored.
LEMMA IgnoredInv ==
  ASSUME Inv, NEW s, NEW e, Handle(s, e), h' = h
  PROVE  Inv'
<1>1. Good(h') /\ Steady(h, h', s)
  BY DEF Inv, Steady
<1> QED
  BY <1>1, EventInv

\* _on_local_read
LEMMA OnLocalReadInv == Inv /\ OnLocalRead => Inv'
<1> SUFFICES ASSUME Inv, OnLocalRead PROVE Inv'
  OBVIOUS
<1>1. Handle("local", "IN")
  BY DEF OnLocalRead
<1>2. /\ h.stage # "DESTROYED" /\ h \in HandlerType /\ HasRemote(h) /\ Live(h)
      /\ Timely(h, <<"local", "IN">>)
  BY <1>1, EventIsTimely
<1>3. h.stage \in {"INIT", "CONNECTING", "STREAM"}
  BY <1>2 DEF Timely, HandlerType
<1>4. CASE ReadIgnored
  BY <1>1, <1>4, IgnoredInv DEF ReadIgnored
<1>5. CASE LocalEnds
  BY <1>1, <1>5, DestroyedInv DEF LocalEnds
<1>6. ASSUME NEW n \in 0..Chunk, NEW b \in 0..Chunk, LocalRead(n, b) PROVE Inv'
  <2>1. Chunk \in Nat /\ n \in Nat /\ b \in Nat /\ MaxUp \in Nat
    BY HandlerAssumption
  <2>2. PICK g \in Answer(h, b) :
          IF g.stage = "DESTROYED"
          THEN h' = g
          ELSE \E header \in BOOLEAN :
                 IF n = 0 /\ ~(header /\ g.stage = "INIT")
                 THEN h' = g
                 ELSE h' \in Dispatch([g EXCEPT !.upOut = @ + n],
                                      Units(g.upOut, n))
    BY <1>6 DEF LocalRead
  <2>3. /\ Good(g)
        /\ \/ g.stage = "DESTROYED"
           \/ /\ g.stage = h.stage /\ g.remote = h.remote /\ g.upOut = h.upOut
              /\ g.sendsBack = h.sendsBack
              /\ ~h.sendsBack => g.toLocal = h.toLocal
    <3>1. h.downOut + b <= MaxDown /\ (b > 0 => h.sendsBack)
      BY <1>6 DEF LocalRead
    <3> QED
      BY <1>2, <2>1, <3>1, AnswerGood
  <2>4. CASE h' = g
    <3>1. g.stage = "DESTROYED" \/ Steady(h, g, "local")
      BY <2>3 DEF Steady
    <3> QED
      BY <1>1, <2>3, <2>4, <3>1, EventInv
  <2>5. ASSUME g.stage # "DESTROYED",
               h' \in Dispatch([g EXCEPT !.upOut = @ + n], Units(g.upOut, n))
        PROVE  Inv'
    <3>1. g \in HandlerType /\ HasRemote(g) /\ Live(g)
      BY <2>3, <2>5 DEF Good
    <3>2. /\ g.sentUp \in Seq(1..MaxUp) /\ g.toRemote \in Seq(1..MaxUp)
          /\ g.upOut \in Nat
      BY <2>1, <3>1 DEF HandlerType
    <3>3. g.upOut + n <= MaxUp
      BY <1>6, <2>3, <2>5 DEF LocalRead
    <3>4. PICK d : d = Units(g.upOut, n)
      OBVIOUS
    <3>5. d \in Seq(1..MaxUp)
      BY <2>1, <3>2, <3>3, <3>4, UnitsNext
    <3>6. Held(g.sentUp, g.toRemote, d, g.upOut + n)
      BY <2>1, <3>1, <3>2, <3>3, <3>4, HeldMore DEF Live, HeldUp
    <3>7. PICK m \in 0..MaxUp : m = g.upOut + n
      BY <2>1, <3>2, <3>3
    <3>8. PICK w : w = [g EXCEPT !.upOut = m]
      OBVIOUS
    <3>9. /\ w \in HandlerType /\ w.upOut = m
          /\ w.stage = g.stage /\ w.up = g.up /\ w.down = g.down
          /\ w.modeL = g.modeL /\ w.modeR = g.modeR /\ w.remote = g.remote
          /\ w.toRemote = g.toRemote /\ w.toLocal = g.toLocal
          /\ w.downOut = g.downOut
          /\ w.sentUp = g.sentUp /\ w.sentDown = g.sentDown
          /\ w.sendsBack = g.sendsBack /\ w.end = g.end
      BY <3>1, <3>8 DEF HandlerType
    <3>10. HasRemote(w) /\ Waits(w) /\ InOrder(w)
      BY <3>1, <3>9 DEF Live, HasRemote, Waits, Follows, ModeL, ModeR, InOrder
    <3>11. HeldUp(w, d) /\ HeldDown(w, <<>>)
      BY <3>1, <3>6, <3>7, <3>9 DEF Live, HeldUp, HeldDown
    <3>12. h' \in Dispatch(w, d)
      BY <2>5, <3>4, <3>7, <3>8
    <3>13. w.stage \in {"INIT", "CONNECTING", "STREAM"}
      BY <1>3, <2>3, <2>5, <3>9
    <3>14. /\ Good(h')
           /\ \/ h'.stage = "DESTROYED"
              \/ /\ w.remote => h'.remote
                 /\ h'.toLocal = w.toLocal /\ h'.sendsBack = w.sendsBack
      BY <3>5, <3>9, <3>10, <3>11, <3>12, <3>13, DispatchGood
    <3>15. h'.stage = "DESTROYED" \/ Steady(h, h', "local")
      BY <2>3, <2>5, <3>9, <3>14 DEF Steady
    <3> QED
      BY <1>1, <3>14, <3>15, EventInv
  <2> QED
    BY <2>2, <2>4, <2>5
<1> QED
  BY <1>4, <1>5, <1>6 DEF OnLocalRead

\* _on_remote_read: nothing is buffered when it happens.
LEMMA OnRemoteReadInv == Inv /\ OnRemoteRead => Inv'
<1> SUFFICES ASSUME Inv, OnRemoteRead PROVE Inv'
  OBVIOUS
<1>1. Handle("remote", "IN")
  BY DEF OnRemoteRead
<1>2. /\ h.stage # "DESTROYED" /\ h \in HandlerType /\ HasRemote(h) /\ Live(h)
      /\ h.remote /\ (~h.sendsBack => h.toLocal = <<>>)
  BY <1>1, EventIsTimely DEF Timely
<1>3. /\ h.sentDown \in Seq(1..MaxDown) /\ h.toLocal \in Seq(1..MaxDown)
      /\ h.downOut \in Nat /\ MaxDown \in Nat
  BY <1>2, HandlerAssumption DEF HandlerType
<1>4. ASSUME ~h.sendsBack PROVE h.sentDown = Units(0, h.downOut)
  <2>1. h.sentDown \o h.toLocal = Units(0, h.downOut) /\ h.toLocal = <<>>
    BY <1>2, <1>4 DEF Live, InOrder
  <2>2. h.sentDown \o <<>> = h.sentDown
    BY <1>3
  <2> QED
    BY <2>1, <2>2
<1>5. CASE ReadIgnored
  BY <1>1, <1>5, IgnoredInv DEF ReadIgnored
<1>6. CASE RemoteEof
  BY <1>1, <1>4, <1>6, DestroyedInv DEF RemoteEof
<1>7. ASSUME NEW n \in 1..Chunk, RemoteRead(n) PROVE Inv'
  <2>1. Chunk \in Nat /\ n \in Nat /\ n # 0 /\ h.downOut + n <= MaxDown
    BY <1>7, HandlerAssumption DEF RemoteRead
  <2>2. PICK d : d = Units(h.downOut, n)
    OBVIOUS
  <2>3. d \in Seq(1..MaxDown) /\ d # <<>>
    BY <1>3, <2>1, <2>2, UnitsNext
  <2>4. Held(h.sentDown, h.toLocal, d, h.downOut + n)
    BY <1>2, <1>3, <2>1, <2>2, HeldMore DEF Live, HeldDown
  <2>5. PICK m \in 0..MaxDown : m = h.downOut + n
    BY <1>3, <2>1
  <2>6. PICK w : w = [h EXCEPT !.downOut = m]
    OBVIOUS
  <2>7. /\ w \in HandlerType /\ w.downOut = m
        /\ w.stage = h.stage /\ w.up = h.up /\ w.down = h.down
        /\ w.modeL = h.modeL /\ w.modeR = h.modeR /\ w.remote = h.remote
        /\ w.toRemote = h.toRemote /\ w.toLocal = h.toLocal /\ w.upOut = h.upOut
        /\ w.sentUp = h.sentUp /\ w.sentDown = h.sentDown
        /\ w.sendsBack = h.sendsBack /\ w.end = h.end
    BY <1>2, <2>6 DEF HandlerType
  <2>8. HasRemote(w) /\ Waits(w)
    BY <1>2, <2>7 DEF Live, HasRemote, Waits, Follows, ModeL, ModeR
  <2>9. HeldUp(w, <<>>) /\ HeldDown(w, d)
    BY <1>2, <2>4, <2>5, <2>7 DEF Live, HeldUp, HeldDown
  <2>10. ASSUME ~w.sendsBack
         PROVE  /\ w.toLocal = <<>> /\ w.remote
                /\ w.sentDown \o d = Units(0, w.downOut)
    <3>1. w.toLocal = <<>> /\ w.remote /\ w.sentDown = Units(0, h.downOut)
      BY <1>2, <1>4, <2>7, <2>10
    <3>2. Units(0, h.downOut) \o d = Units(0, h.downOut + n)
      BY <1>3, <2>1, <2>2, UnitsJoined
    <3> QED
      BY <2>5, <2>7, <3>1, <3>2
  <2>11. h' \in WriteLocal(w, d)
    BY <1>7, <2>2, <2>5, <2>6 DEF RemoteRead
  <2>12. /\ Good(h')
         /\ \/ h'.stage = "DESTROYED"
            \/ /\ h'.stage = w.stage /\ h'.remote = w.remote
               /\ h'.sendsBack = w.sendsBack
    BY <1>2, <2>3, <2>7, <2>8, <2>9, <2>10, <2>11, WriteLocalGood
  <2>13. h'.stage = "DESTROYED" \/ Steady(h, h', "remote")
    BY <2>7, <2>12 DEF Steady
  <2> QED
    BY <1>1, <2>12, <2>13, EventInv
<1> QED
  BY <1>5, <1>6, <1>7 DEF OnRemoteRead

\* _on_local_write
LEMMA OnLocalWriteInv == Inv /\ OnLocalWrite => Inv'
<1> SUFFICES ASSUME Inv, OnLocalWrite PROVE Inv'
  OBVIOUS
<1>1. Handle("local", "OUT") /\ LocalWrite
  BY DEF OnLocalWrite
<1>2. h.stage # "DESTROYED" /\ h \in HandlerType /\ HasRemote(h) /\ Live(h)
  BY <1>1, EventIsTimely
<1>3. CASE h.toLocal # <<>>
  <2>1. PICK d : d = h.toLocal
    OBVIOUS
  <2>2. d \in Seq(1..MaxDown) /\ d # <<>> /\ h.sentDown \in Seq(1..MaxDown)
    BY <1>2, <1>3, <2>1 DEF HandlerType
  <2>3. PICK w : w = [h EXCEPT !.toLocal = <<>>]
    OBVIOUS
  <2>4. /\ w \in HandlerType /\ w.toLocal = <<>>
        /\ w.stage = h.stage /\ w.up = h.up /\ w.down = h.down
        /\ w.modeL = h.modeL /\ w.modeR = h.modeR /\ w.remote = h.remote
        /\ w.toRemote = h.toRemote /\ w.upOut = h.upOut /\ w.downOut = h.downOut
        /\ w.sentUp = h.sentUp /\ w.sentDown = h.sentDown
        /\ w.sendsBack = h.sendsBack /\ w.end = h.end
    <3>1. PICK none : none = <<>> /\ none \in Seq(1..MaxDown)
      <4>1. <<>> \in Seq(1..MaxDown)
        OBVIOUS
      <4> QED
        BY <4>1, Zenon
    <3>2. w = [h EXCEPT !.toLocal = none]
      BY <2>3, <3>1
    <3> QED
      BY <1>2, <3>1, <3>2 DEF HandlerType
  <2>5. HasRemote(w) /\ Waits(w)
    BY <1>2, <2>4 DEF Live, HasRemote, Waits, Follows, ModeL, ModeR
  <2>6. Held(h.sentDown, <<>>, d, h.downOut)
    BY <1>2, <2>1, <2>2, HeldTaken DEF Live, HeldDown
  <2>7. HeldUp(w, <<>>) /\ HeldDown(w, d)
    BY <1>2, <2>4, <2>6 DEF Live, HeldUp, HeldDown
  <2>8. ASSUME ~w.sendsBack
        PROVE  w.remote /\ w.sentDown \o d = Units(0, w.downOut)
    BY <1>2, <1>3, <2>1, <2>4, <2>8 DEF Live, InOrder
  <2>9. h' \in WriteLocal(w, d)
    BY <1>1, <1>3, <2>1, <2>3 DEF LocalWrite
  <2>10. /\ Good(h')
         /\ \/ h'.stage = "DESTROYED"
            \/ /\ h'.stage = w.stage /\ h'.remote = w.remote
               /\ h'.sendsBack = w.sendsBack
    BY <1>2, <2>2, <2>4, <2>5, <2>7, <2>8, <2>9, WriteLocalGood
  <2>11. h'.stage = "DESTROYED" \/ Steady(h, h', "local")
    BY <1>3, <2>4, <2>10 DEF Steady
  <2> QED
    BY <1>1, <2>10, <2>11, EventInv
<1>4. CASE h.toLocal = <<>>
  <2>1. h' = UpdateDown(h, {"R"})
    BY <1>1, <1>4 DEF LocalWrite
  <2>2. /\ h' \in HandlerType /\ Follows(h') /\ SameButWaits(h', h)
        /\ h'.up = h.up /\ h'.down = {"R"}
    BY <1>2, <2>1, UpdateDownFollows DEF Live, Waits
  <2>3. Waits(h') /\ HasRemote(h')
    BY <1>2, <2>2 DEF Live, Waits, HasRemote, SameButWaits
  <2>4. AllSent(h')
    BY <2>3 DEF AllSent, Waits
  <2>5. HeldUp(h', <<>>) /\ HeldDown(h', <<>>)
    BY <1>2, <2>2 DEF Live, HeldUp, HeldDown, SameButWaits
  <2>6. InOrder(h')
    BY <1>2, <1>4, <2>2 DEF Live, InOrder, SameButWaits
  <2>7. Good(h')
    BY <2>2, <2>3, <2>4, <2>5, <2>6 DEF Good, Live
  <2>8. Steady(h, h', "local")
    BY <2>2 DEF Steady, SameButWaits
  <2> QED
    BY <1>1, <2>7, <2>8, EventInv
<1> QED
  BY <1>3, <1>4

\* _on_remote_write
LEMMA OnRemoteWriteInv == Inv /\ OnRemoteWrite => Inv'
<1> SUFFICES ASSUME Inv, OnRemoteWrite PROVE Inv'
  OBVIOUS
<1>1. Handle("remote", "OUT") /\ RemoteWrite
  BY DEF OnRemoteWrite
<1>2. /\ h.stage # "DESTROYED" /\ h \in HandlerType /\ HasRemote(h) /\ Live(h)
      /\ h.remote
  BY <1>1, EventIsTimely DEF Timely
<1>3. h.toRemote \in Seq(1..MaxUp) /\ h.sentUp \in Seq(1..MaxUp)
  BY <1>2 DEF HandlerType
<1>4. PICK g : g = [h EXCEPT !.stage = "STREAM"]
  OBVIOUS
<1>5. /\ g \in HandlerType /\ g.stage = "STREAM" /\ g.toRemote = h.toRemote
      /\ g.up = h.up /\ g.down = h.down
      /\ g.modeL = h.modeL /\ g.modeR = h.modeR /\ g.remote = h.remote
      /\ g.toLocal = h.toLocal /\ g.upOut = h.upOut /\ g.downOut = h.downOut
      /\ g.sentUp = h.sentUp /\ g.sentDown = h.sentDown
      /\ g.sendsBack = h.sendsBack /\ g.end = h.end
  BY <1>2, <1>4 DEF HandlerType
<1>6. CASE h.toRemote # <<>>
  <2>1. PICK d : d = h.toRemote
    OBVIOUS
  <2>2. PICK w : w = [g EXCEPT !.toRemote = <<>>]
    OBVIOUS
  <2>3. /\ w \in HandlerType /\ w.stage = "STREAM" /\ w.toRemote = <<>>
        /\ w.up = h.up /\ w.down = h.down
        /\ w.modeL = h.modeL /\ w.modeR = h.modeR /\ w.remote = h.remote
        /\ w.toLocal = h.toLocal /\ w.upOut = h.upOut /\ w.downOut = h.downOut
        /\ w.sentUp = h.sentUp /\ w.sentDown = h.sentDown
        /\ w.sendsBack = h.sendsBack /\ w.end = h.end
    <3>1. PICK none : none = <<>> /\ none \in Seq(1..MaxUp)
      <4>1. <<>> \in Seq(1..MaxUp)
        OBVIOUS
      <4> QED
        BY <4>1, Zenon
    <3>2. w = [g EXCEPT !.toRemote = none]
      BY <2>2, <3>1
    <3> QED
      BY <1>5, <3>1, <3>2 DEF HandlerType
  <2>4. HasRemote(w) /\ Waits(w) /\ InOrder(w)
    BY <1>2, <2>3 DEF Live, HasRemote, Waits, Follows, ModeL, ModeR, InOrder
  <2>5. Held(h.sentUp, <<>>, d, h.upOut)
    BY <1>2, <1>3, <2>1, HeldTaken DEF Live, HeldUp
  <2>6. HeldUp(w, d) /\ HeldDown(w, <<>>)
    BY <1>2, <2>3, <2>5 DEF Live, HeldUp, HeldDown
  <2>7. h' \in WriteRemote(w, d)
    BY <1>1, <1>4, <1>5, <1>6, <2>1, <2>2 DEF RemoteWrite
  <2>8. d \in Seq(1..MaxUp) /\ d # <<>>
    BY <1>3, <1>6, <2>1
  <2>9. /\ Good(h')
        /\ \/ h'.stage = "DESTROYED"
           \/ /\ h'.stage = w.stage /\ h'.remote = w.remote
              /\ h'.toLocal = w.toLocal /\ h'.sendsBack = w.sendsBack
    BY <2>3, <2>4, <2>6, <2>7, <2>8, WriteRemoteGood
  <2>10. h'.stage = "DESTROYED" \/ Steady(h, h', "remote")
    BY <2>3, <2>9 DEF Steady
  <2> QED
    BY <1>1, <2>9, <2>10, EventInv
<1>7. CASE h.toRemote = <<>>
  <2>1. h' = UpdateUp(g, {"R"})
    BY <1>1, <1>4, <1>5, <1>7 DEF RemoteWrite
  <2>2. Follows(g)
    BY <1>2, <1>5 DEF Live, Waits, Follows, ModeL, ModeR
  <2>3. /\ h' \in HandlerType /\ Follows(h') /\ SameButWaits(h', g)
        /\ h'.up = {"R"} /\ h'.down = h.down
    BY <1>5, <2>1, <2>2, UpdateUpFollows
  <2>4. Waits(h') /\ HasRemote(h')
    BY <1>2, <1>5, <2>3 DEF Live, Waits, HasRemote, SameButWaits
  <2>5. AllSent(h')
    BY <2>4 DEF AllSent, Waits
  <2>6. HeldUp(h', <<>>) /\ HeldDown(h', <<>>)
    BY <1>2, <1>5, <2>3 DEF Live, HeldUp, HeldDown, SameButWaits
  <2>7. InOrder(h')
    BY <1>2, <1>5, <2>3 DEF Live, InOrder, SameButWaits
  <2>8. Good(h')
    BY <2>3, <2>4, <2>5, <2>6, <2>7 DEF Good, Live
  <2>9. Steady(h, h', "remote")
    BY <1>5, <2>3 DEF Steady, SameButWaits
  <2> QED
    BY <1>1, <2>8, <2>9, EventInv
<1> QED
  BY <1>6, <1>7

\* _handle_dns_resolved, as an event of the resolver.
LEMMA OnDnsResolvedInv == Inv /\ OnDnsResolved => Inv'
<1> SUFFICES ASSUME Inv, OnDnsResolved PROVE Inv'
  OBVIOUS
<1>1. h.stage = "DNS" /\ h' \in Resolved(h) /\ batch' = batch
  BY DEF OnDnsResolved
<1>2. h \in HandlerType /\ HasRemote(h) /\ Live(h) /\ Alive
  BY <1>1 DEF Inv, Good, Alive
<1>3. /\ Good(h')
      /\ \/ h'.stage = "DESTROYED"
         \/ /\ h'.stage = "CONNECTING" /\ h'.remote
            /\ h'.toLocal = h.toLocal /\ h'.sendsBack = h.sendsBack
  BY <1>1, <1>2, ResolvedGood
<1>4. ASSUME Alive', NEW i \in 1..Len(batch) PROVE Timely(h', batch[i])
  <2>1. Timely(h, batch[i])
    BY <1>2 DEF Inv, BatchInv
  <2> QED
    BY <1>3, <1>4, <2>1 DEF Timely, Alive
<1> QED
  BY <1>1, <1>3, <1>4 DEF Inv, Good, BatchInv

\* Every step keeps the invariant.
LEMMA NextInv == Inv /\ [Next]_vars => Inv'
<1> SUFFICES ASSUME Inv, [Next]_vars PROVE Inv'
  OBVIOUS
<1>1. CASE OnError
  BY <1>1, DestroyedInv DEF OnError
<1>2. CASE OnUserGone
  BY <1>2, DestroyedInv DEF OnUserGone
<1>3. CASE OnTimeout
  <2>1. h \in HandlerType /\ h' = Destroyed(h, "timeout") /\ batch' = batch
    BY <1>3 DEF OnTimeout, Inv, Good
  <2>2. Good(h') /\ h'.stage = "DESTROYED"
    BY <2>1, DestroyedGood
  <2> QED
    BY <2>1, <2>2 DEF Inv, Good, BatchInv, Alive
<1>4. CASE UNCHANGED vars
  BY <1>4 DEF vars, Inv, Good, HasRemote, AllSent, Live, Waits, Follows, ModeL,
              ModeR, HeldUp, HeldDown, InOrder, BatchInv, Alive, Timely
<1> QED
  BY <1>1, <1>2, <1>3, <1>4, PollInv, OnLocalReadInv, OnRemoteReadInv,
     OnLocalWriteInv, OnRemoteWriteInv, OnDnsResolvedInv DEF Next

\* The invariant holds in every reachable state.
LEMMA Invariant == Spec => []Inv
  BY InitInv, NextInv, PTL DEF Spec

-----------------------------------------------------------------------------
\* The handler's fields have their types; the remote socket exists in the
\* stages CONNECTING and STREAM and in no other (destroy closes it).
THEOREM TypeCorrect == Spec => []TypeOK
<1>1. Inv => TypeOK
  BY DEF Inv, Good, HasRemote, BatchInv, BatchType, TypeOK
<1> QED
  BY <1>1, Invariant, PTL

\* The loop polls for what the statuses say, whatever the order of _update_stream
\* and of the remote socket's arrival.
THEOREM PollsAgree == Spec => []PollsForStatus
<1>1. ASSUME Inv PROVE PollsForStatus
  <2>1. h \in HandlerType /\ (Alive => Follows(h))
    BY <1>1 DEF Inv, Good, Live, Waits, Alive
  <2> QED
    BY <2>1, PolledFollows DEF PollsForStatus
<1> QED
  BY <1>1, Invariant, PTL

\* No stream of a live handler stops waiting.
THEOREM StreamsListen == Spec => []NeverDeaf
<1>1. Inv => NeverDeaf
  BY DEF Inv, Good, Live, Waits, NeverDeaf, Alive
<1> QED
  BY <1>1, Invariant, PTL

\* No unit is lost, duplicated or invented, in either direction.
THEOREM UnitsKept == Spec => []EveryUnitOnce
<1>1. ASSUME NEW S, NEW s \in Seq(S), NEW b \in Seq(S), NEW n,
             Held(s, b, <<>>, n)
      PROVE  HoldsEach(s \o b, n)
  <2>1. Len(s \o b) = Len(s) + Len(b) /\ ToSet(s \o b) = ToSet(s) \cup ToSet(b)
    BY Members
  <2>2. ToSet(<<>>) = {} /\ Len(<<>>) = 0
    BY DEF ToSet
  <2>3. Len(s) \in Nat /\ Len(b) \in Nat /\ Len(s) + Len(b) + Len(<<>>) = n
    BY <1>1 DEF Held
  <2>4. Len(s \o b) = n
    BY <2>1, <2>2, <2>3
  <2>5. ToSet(s \o b) = 1..n
    BY <1>1, <2>1, <2>2, Zenon DEF Held
  <2> QED
    BY <2>4, <2>5 DEF HoldsEach
<1>2. ASSUME Inv, Alive
      PROVE  /\ HoldsEach(h.sentUp \o h.toRemote, h.upOut)
             /\ HoldsEach(h.sentDown \o h.toLocal, h.downOut)
  <2>1. h \in HandlerType /\ HeldUp(h, <<>>) /\ HeldDown(h, <<>>)
    BY <1>2 DEF Inv, Good, Live, Alive
  <2>2. /\ h.sentUp \in Seq(1..MaxUp) /\ h.toRemote \in Seq(1..MaxUp)
        /\ h.sentDown \in Seq(1..MaxDown) /\ h.toLocal \in Seq(1..MaxDown)
    BY <2>1 DEF HandlerType
  <2>3. HoldsEach(h.sentUp \o h.toRemote, h.upOut)
    BY <1>1, <2>1, <2>2 DEF HeldUp
  <2>4. HoldsEach(h.sentDown \o h.toLocal, h.downOut)
    BY <1>1, <2>1, <2>2 DEF HeldDown
  <2> QED
    BY <2>3, <2>4
<1>3. Inv => EveryUnitOnce
  BY <1>2 DEF EveryUnitOnce
<1> QED
  BY <1>3, Invariant, PTL

\* Without answering plugins the client gets the destination's data in order.
THEOREM OrderKept == Spec => []DownstreamInOrder
<1>1. ASSUME Inv, ~h.sendsBack, Alive
      PROVE  /\ h.sentDown \o h.toLocal = Units(0, h.downOut)
             /\ h.toLocal # <<>> => "OUT" \in h.modeL /\ "IN" \notin h.modeR
  <2>1. Follows(h) /\ InOrder(h)
    BY <1>1 DEF Inv, Good, Live, Waits, Alive
  <2>2. h.toLocal # <<>> => "OUT" \in h.modeL /\ "IN" \notin h.modeR
    <3>1. h.toLocal # <<>> => h.remote /\ h.down = {"W"}
      BY <1>1, <2>1, Zenon DEF InOrder
    <3> QED
      BY <2>1, <3>1 DEF Follows, ModeL, ModeR
  <2> QED
    BY <1>1, <2>1, <2>2 DEF InOrder
<1>2. Inv => DownstreamInOrder
  BY <1>1 DEF DownstreamInOrder
<1> QED
  BY <1>2, Invariant, PTL

\* A destination that closes loses none of its data.
THEOREM EofLosesNothing == Spec => []EofAfterEverythingSent
<1>1. Inv => EofAfterEverythingSent
  BY DEF Inv, Good, AllSent, EofAfterEverythingSent
<1> QED
  BY <1>1, Invariant, PTL
=============================================================================
