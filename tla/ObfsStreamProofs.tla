-------------------------- MODULE ObfsStreamProofs --------------------------
(* Theorems about ObfsStream, for every plugin, every cut of the stream and  *)
(* every number of units: what the decoders hand on is in order, and no end  *)
(* waits for something that does not come.                                   *)
(*                                                                           *)
(* What a side sends is the beginning of an endless stream that is known in  *)
(* advance: a handshake, then the units 1, 2, 3, ... in the plugin's         *)
(* encoding.  All that the proofs need to know of the network and of the     *)
(* buffers is which part of that stream they hold.                           *)
EXTENDS ObfsStream, SequenceLemmas

\* The part of the endless sequence f from place a, exclusive, to place b.
Places == Nat \ {0}
Slice(f, a, b) == [i \in 1..(b - a) |-> f[a + i]]

Sliced(S, f, a, b, t) ==
  /\ t \in Seq(S) /\ Len(t) = b - a /\ \A i \in 1..(b - a) : t[i] = f[a + i]

\* A slice is a sequence.
LEMMA SliceIsSeq ==
  ASSUME NEW S, NEW f \in [Places -> S], NEW a \in Nat, NEW b \in Nat, a <= b
  PROVE  Sliced(S, f, a, b, Slice(f, a, b))
<1>1. PICK n \in Nat : n = b - a
  OBVIOUS
<1>2. \A i \in 1..n : a + i \in Places
  BY DEF Places
<1>3. Slice(f, a, b) = [i \in 1..n |-> f[a + i]]
  BY <1>1 DEF Slice
<1>4. Slice(f, a, b) \in [1..n -> S]
  BY <1>2, <1>3
<1>5. Slice(f, a, b) \in Seq(S) /\ Len(Slice(f, a, b)) = n
  BY <1>4
<1> QED
  BY <1>1, <1>3, <1>5 DEF Sliced

\* A sequence with the elements of a slice is that slice.
LEMMA IsSlice ==
  ASSUME NEW S, NEW f \in [Places -> S], NEW a \in Nat, NEW b \in Nat, a <= b,
         NEW t, Sliced(S, f, a, b, t)
  PROVE  t = Slice(f, a, b)
<1>1. PICK u : u = Slice(f, a, b)
  OBVIOUS
<1>2. Sliced(S, f, a, b, u)
  BY <1>1, SliceIsSeq
<1>3. t \in Seq(S) /\ u \in Seq(S) /\ Len(t) = Len(u) /\ \A i \in 1..Len(t) : t[i] = u[i]
  BY <1>2 DEF Sliced
<1> QED
  BY <1>1, <1>3, SeqEqual

\* Neighbouring slices, put together.
LEMMA SliceJoin ==
  ASSUME NEW S, NEW f \in [Places -> S], NEW a \in Nat, NEW b \in Nat, NEW c \in Nat,
         a <= b, b <= c
  PROVE  Slice(f, a, b) \o Slice(f, b, c) = Slice(f, a, c)
<1>1. PICK s, t, w, A, B : /\ s = Slice(f, a, b) /\ t = Slice(f, b, c) /\ w = s \o t
                           /\ A = b - a /\ B = c - b
  OBVIOUS
<1>2. Sliced(S, f, a, b, s) /\ Sliced(S, f, b, c, t) /\ a <= c
  BY <1>1, SliceIsSeq
<1>3. s \in Seq(S) /\ t \in Seq(S) /\ A = Len(s) /\ B = Len(t)
  BY <1>1, <1>2 DEF Sliced
<1>4. Joint(S, w, s, t, A, B)
  BY <1>1, <1>3, Joined
<1>5. A \in Nat /\ B \in Nat /\ A + B = c - a /\ a + A = b
  BY <1>1
<1>6. ASSUME NEW i \in 1..(c - a) PROVE w[i] = f[a + i]
  <2>1. w[i] = IF i <= A THEN s[i] ELSE t[i - A]
    BY <1>4, <1>5 DEF Joint
  <2>2. CASE i <= A
    <3>1. i \in 1..(b - a)
      BY <1>1, <2>2
    <3> QED
      BY <1>2, <2>1, <2>2, <3>1 DEF Sliced
  <2>3. CASE ~(i <= A)
    <3>1. i - A \in 1..(c - b) /\ b + (i - A) = a + i
      BY <1>1, <2>3
    <3>2. t[i - A] = f[b + (i - A)]
      BY <1>2, <3>1 DEF Sliced
    <3> QED
      BY <2>1, <2>3, <3>1, <3>2
  <2> QED
    BY <2>2, <2>3
<1>7. w \in Seq(S) /\ Len(w) = c - a
  BY <1>4, <1>5 DEF Joint
<1>8. Sliced(S, f, a, c, w)
  BY <1>6, <1>7 DEF Sliced
<1> QED
  BY <1>1, <1>2, <1>8, IsSlice

\* A slice cut in two: the first n elements, and the others.
CutAt(f, a, b, n) ==
  /\ SubSeq(Slice(f, a, b), 1, n) = Slice(f, a, a + n)
  /\ SubSeq(Slice(f, a, b), n + 1, b - a) = Slice(f, a + n, b)

LEMMA SliceCut ==
  ASSUME NEW S, NEW f \in [Places -> S], NEW a \in Nat, NEW b \in Nat, a <= b,
         NEW n \in Nat, n <= b - a
  PROVE  CutAt(f, a, b, n)
<1>1. PICK t, x, y, N : /\ t = Slice(f, a, b) /\ N = b - a
                        /\ x = SubSeq(t, 0 + 1, n) /\ y = SubSeq(t, n + 1, N)
  OBVIOUS
<1>2. Sliced(S, f, a, b, t) /\ N \in Nat /\ n <= N /\ N <= N /\ 0 <= n /\ a + n <= b
  BY <1>1, SliceIsSeq
<1>3. t \in Seq(S) /\ Len(t) = N /\ \A i \in 1..N : t[i] = f[a + i]
  BY <1>1, <1>2 DEF Sliced
<1>4. x \in Seq(S) /\ Len(x) = n /\ \A i \in 1..n : x[i] = t[i]
  <2>1. /\ SubSeq(t, 0 + 1, n) \in Seq(S)
        /\ Len(SubSeq(t, 0 + 1, n)) = IF 0 <= n THEN n - 0 ELSE 0
        /\ \A i \in 1..(n - 0) : SubSeq(t, 0 + 1, n)[i] = t[0 + i]
    BY <1>2, <1>3, PartIsSeq
  <2>2. n - 0 = n /\ \A i \in 1..n : 0 + i = i
    OBVIOUS
  <2> QED
    BY <1>1, <1>2, <2>1, <2>2
<1>5. y \in Seq(S) /\ Len(y) = N - n /\ \A i \in 1..(N - n) : y[i] = t[n + i]
  BY <1>1, <1>2, <1>3, PartIsSeq
<1>6. x = Slice(f, a, a + n)
  <2>1. PICK c \in Nat : c = a + n
    OBVIOUS
  <2>2. c - a = n /\ a <= c /\ \A i \in 1..n : i \in 1..N
    BY <1>2, <2>1
  <2>3. Sliced(S, f, a, c, x)
    BY <1>3, <1>4, <2>2 DEF Sliced
  <2> QED
    BY <2>1, <2>2, <2>3, IsSlice
<1>7. y = Slice(f, a + n, b)
  <2>1. PICK c \in Nat : c = a + n
    OBVIOUS
  <2>2. /\ b - c = N - n /\ c <= b
        /\ \A i \in 1..(N - n) : n + i \in 1..N /\ a + (n + i) = c + i
    BY <1>1, <1>2, <2>1
  <2>3. \A i \in 1..(N - n) : y[i] = f[c + i]
    BY <1>3, <1>5, <2>2
  <2>4. Sliced(S, f, c, b, y)
    BY <1>5, <2>2, <2>3 DEF Sliced
  <2> QED
    BY <2>1, <2>2, <2>4, IsSlice
<1>8. 0 + 1 = 1
  OBVIOUS
<1> QED
  BY <1>1, <1>6, <1>7, <1>8 DEF CutAt

\* A slice of no places.
LEMMA SliceEmpty ==
  ASSUME NEW f, NEW a \in Nat
  PROVE  Slice(f, a, a) = <<>>
<1>1. 1..(a - a) = {}
  OBVIOUS
<1>2. Slice(f, a, a) = [i \in {} |-> f[a + i]]
  BY <1>1 DEF Slice
<1>3. Slice(f, a, a) \in [1..0 -> {}]
  BY <1>2
<1>4. Slice(f, a, a) \in Seq({}) /\ Len(Slice(f, a, a)) = 0
  BY <1>3
<1> QED
  BY <1>4

-----------------------------------------------------------------------------
(* Units are numbered: the data of a stream is a slice of the numbers.       *)

Units == [i \in Places |-> i]
Run(a, b) == Slice(Units, a, b)

IsRun(a, b, t) ==
  t \in Seq(Nat) /\ Len(t) = b - a /\ \A i \in 1..(b - a) : t[i] = a + i

LEMMA UnitsType == Units \in [Places -> Nat]
  BY DEF Units, Places

\* What Run stands for.
LEMMA RunIs ==
  ASSUME NEW a \in Nat, NEW b \in Nat, a <= b
  PROVE  IsRun(a, b, Run(a, b)) /\ \A t : IsRun(a, b, t) => t = Run(a, b)
<1>1. \A i \in 1..(b - a) : a + i \in Places /\ Units[a + i] = a + i
  BY DEF Units, Places
<1>2. ASSUME NEW t PROVE Sliced(Nat, Units, a, b, t) <=> IsRun(a, b, t)
  BY <1>1 DEF Sliced, IsRun
<1>3. Sliced(Nat, Units, a, b, Run(a, b))
  BY UnitsType, SliceIsSeq DEF Run
<1>4. ASSUME NEW t, IsRun(a, b, t) PROVE t = Run(a, b)
  <2>1. Sliced(Nat, Units, a, b, t)
    BY <1>2, <1>4
  <2> QED
    BY <2>1, UnitsType, IsSlice DEF Run
<1> QED
  BY <1>2, <1>3, <1>4

\* The units that a side is handed are the next ones.
LEMMA NextUnits ==
  ASSUME NEW a \in Nat, NEW n \in Nat
  PROVE  [i \in 1..n |-> a + i] = Run(a, a + n)
<1>1. PICK t, b : t = [i \in 1..n |-> a + i] /\ b = a + n
  OBVIOUS
<1>2. b \in Nat /\ b - a = n /\ a <= b
  BY <1>1
<1>3. t \in [1..n -> Nat]
  BY <1>1
<1>4. t \in Seq(Nat) /\ Len(t) = n
  BY <1>3
<1>5. IsRun(a, b, t)
  BY <1>1, <1>2, <1>4 DEF IsRun
<1> QED
  BY <1>1, <1>2, <1>5, RunIs

\* The first units are a prefix of more of them.
LEMMA RunPrefix ==
  ASSUME NEW m \in Nat, NEW n \in Nat, m <= n
  PROVE  IsPrefix(Run(0, m), Run(0, n))
<1>1. PICK s, t : s = Run(0, m) /\ t = Run(0, n)
  OBVIOUS
<1>2. IsRun(0, m, s) /\ IsRun(0, n, t)
  BY <1>1, RunIs
<1>3. s \in Seq(Nat) /\ t \in Seq(Nat) /\ Len(s) = m /\ Len(t) = n
  <2>1. m - 0 = m /\ n - 0 = n
    OBVIOUS
  <2> QED
    BY <1>2, <2>1 DEF IsRun
<1>4. SubSeq(t, 1, m) = s
  <2>1. CutAt(Units, 0, n, m)
    <3>1. m <= n - 0 /\ 0 <= n /\ 0 \in Nat
      OBVIOUS
    <3> QED
      BY <3>1, UnitsType, SliceCut
  <2>2. 0 + m = m
    OBVIOUS
  <2> QED
    BY <1>1, <2>1, <2>2 DEF CutAt, Run
<1>5. SubSeq(s, 1, m) = s
  BY <1>3, SubSeqFull
<1> QED
  BY <1>1, <1>3, <1>4, <1>5 DEF IsPrefix

\* FlattenSeq of sequences of one element.
LEMMA Singles ==
  ASSUME NEW S, NEW t \in Seq(S), NEW parts, Len(parts) = Len(t),
         Len(t) = 0 => parts = <<>>, \A i \in 1..Len(t) : parts[i] = <<t[i]>>
  PROVE  FlattenSeq(parts) = t
<1>1. PICK k \in Nat : k = Len(t)
  OBVIOUS
<1>2. PICK o : o = [i \in 0..k |-> i]
  OBVIOUS
<1>3. \A i \in 0..k : o[i] \in 0..Len(t)
  BY <1>1, <1>2
<1>4. \A i, j \in 0..k : i <= j => o[i] <= o[j]
  BY <1>2
<1>5. ASSUME NEW i \in 1..k PROVE parts[i] = SubSeq(t, o[i - 1] + 1, o[i])
  <2>1. i - 1 \in 0..k /\ i \in 0..k /\ (i - 1) + 1 = i
    OBVIOUS
  <2>2. o[i - 1] + 1 = i /\ o[i] = i
    BY <1>2, <2>1
  <2>3. SubSeq(t, i, i) = <<t[i]>>
    <3>1. PICK x : x = SubSeq(t, (i - 1) + 1, i)
      OBVIOUS
    <3>2. i - 1 \in Nat /\ i \in Nat /\ i <= Len(t) /\ i - (i - 1) = 1 /\ i - 1 <= i
          /\ 1 \in 1..1 /\ (i - 1) + 1 = i
      BY <1>1
    <3>3. PICK z \in Nat : z = i - 1
      BY <3>2
    <3>4. x \in Seq(S) /\ Len(x) = 1 /\ x[1] = t[i]
      <4>1. /\ SubSeq(t, z + 1, i) \in Seq(S)
            /\ Len(SubSeq(t, z + 1, i)) = IF z <= i THEN i - z ELSE 0
            /\ \A j \in 1..(i - z) : SubSeq(t, z + 1, i)[j] = t[z + j]
        BY <3>2, <3>3, PartIsSeq
      <4>2. z <= i /\ i - z = 1 /\ z + 1 = i
        BY <3>2, <3>3
      <4> QED
        BY <3>1, <3>3, <4>1, <4>2
    <3>5. t[i] \in S
      BY <3>2
    <3>6. <<t[i]>> \in Seq(S) /\ Len(<<t[i]>>) = 1 /\ <<t[i]>>[1] = t[i]
      BY <3>5
    <3>7. x = <<t[i]>>
      BY <3>4, <3>6, SeqEqual
    <3> QED
      BY <3>1, <3>2, <3>7
  <2>4. parts[i] = <<t[i]>>
    BY <1>1
  <2> QED
    BY <2>2, <2>3, <2>4
<1>6. Adjoining(parts, o, k, t)
  BY <1>1, <1>3, <1>4, <1>5 DEF Adjoining
<1>7. FlattenSeq(parts) = SubSeq(t, o[0] + 1, o[k])
  BY <1>6, Together
<1>8. o[0] + 1 = 1 /\ o[k] = Len(t)
  BY <1>1, <1>2
<1> QED
  BY <1>7, <1>8, SubSeqFull

-----------------------------------------------------------------------------
(* The endless streams: a handshake H, then the units from k + 1 on.         *)

Datum(tls, k, j) ==
  IF tls THEN IF j % 2 = 1 THEN Cell("head", <<>>) ELSE Cell("body", <<k + (j \div 2)>>)
         ELSE Cell("raw", <<k + j>>)

Endless(H, tls, k) ==
  [i \in Places |-> IF i <= Len(H) THEN H[i] ELSE Datum(tls, k, i - Len(H))]

\* The place behind unit n.
At(L, tls, k, n) == IF tls THEN L + 2 * (n - k) ELSE L + (n - k)

\* The cells of data.
LEMMA DatumType ==
  ASSUME NEW tls \in BOOLEAN, NEW k \in Nat, NEW j \in Nat
  PROVE  Datum(tls, k, j) \in Cells
<1>1. <<k + (j \div 2)>> \in Seq(Nat) /\ <<k + j>> \in Seq(Nat) /\ <<>> \in Seq(Nat)
  <2>1. k + (j \div 2) \in Nat /\ k + j \in Nat
    OBVIOUS
  <2> QED
    BY <2>1
<1>2. ASSUME NEW d \in Seq(Nat)
      PROVE  Cell("head", d) \in Cells /\ Cell("body", d) \in Cells /\ Cell("raw", d) \in Cells
  BY DEF Cell, Cells
<1> QED
  BY <1>1, <1>2 DEF Datum

\* An endless stream consists of cells, and begins with its handshake.
LEMMA EndlessType ==
  ASSUME NEW H \in Seq(Cells), NEW tls \in BOOLEAN, NEW k \in Nat
  PROVE  Endless(H, tls, k) \in [Places -> Cells] /\ Slice(Endless(H, tls, k), 0, Len(H)) = H
<1>1. PICK L \in Nat : L = Len(H)
  OBVIOUS
<1>2. PICK E : E = Endless(H, tls, k)
  OBVIOUS
<1>3. E = [i \in Places |-> IF i <= L THEN H[i] ELSE Datum(tls, k, i - L)]
  BY <1>1, <1>2 DEF Endless
<1>4. ASSUME NEW i \in Places PROVE (IF i <= L THEN H[i] ELSE Datum(tls, k, i - L)) \in Cells
  <2>1. CASE i <= L
    <3>1. i \in 1..Len(H)
      BY <1>1, <2>1 DEF Places
    <3>2. H[i] \in Cells
      BY <3>1, ElementOfSeq
    <3> QED
      BY <2>1, <3>2
  <2>2. CASE ~(i <= L)
    <3>1. i - L \in Nat
      BY <2>2 DEF Places
    <3> QED
      BY <2>2, <3>1, DatumType
  <2> QED
    BY <2>1, <2>2
<1>5. E \in [Places -> Cells]
  BY <1>3, <1>4
<1>6. L - 0 = L /\ 0 <= L /\ 0 \in Nat /\ \A i \in 1..L : 0 + i = i /\ i \in Places /\ i <= L
  BY DEF Places
<1>7. \A i \in 1..L : H[i] = E[0 + i]
  BY <1>3, <1>6
<1>8. Sliced(Cells, E, 0, L, H)
  BY <1>1, <1>6, <1>7 DEF Sliced
<1>9. H = Slice(E, 0, L)
  BY <1>5, <1>6, <1>8, IsSlice
<1> QED
  BY <1>1, <1>2, <1>5, <1>9

\* Where its units are.
LEMMA DataAt ==
  ASSUME NEW H \in Seq(Cells), NEW tls \in BOOLEAN, NEW k \in Nat, NEW j \in Nat \ {0}
  PROVE  Endless(H, tls, k)[Len(H) + j] = Datum(tls, k, j)
<1>1. PICK L \in Nat : L = Len(H)
  OBVIOUS
<1>2. L + j \in Places /\ ~(L + j <= L) /\ (L + j) - L = j
  BY DEF Places
<1> QED
  BY <1>1, <1>2 DEF Endless

\* Encode, as a function of whether the plugin is tls.
Encoding(tls, units) ==
  IF tls
  THEN [c \in 1..(2 * Len(units)) |->
          IF c % 2 = 1 THEN Cell("head", <<>>) ELSE Cell("body", <<units[c \div 2]>>)]
  ELSE [c \in 1..Len(units) |-> Cell("raw", <<units[c]>>)]

\* Encoding units makes the part of the endless stream that holds them.
Encodes(E, L, tls, k, a, b) ==
  Encoding(tls, Run(a, b)) = Slice(E, At(L, tls, k, a), At(L, tls, k, b))

\* For the records of tls.
LEMMA EncodeTls ==
  ASSUME NEW H \in Seq(Cells), NEW k \in Nat, NEW a \in Nat, NEW b \in Nat, k <= a, a <= b
  PROVE  Encodes(Endless(H, TRUE, k), Len(H), TRUE, k, a, b)
<1>1. PICK L \in Nat : L = Len(H)
  OBVIOUS
<1>2. PICK u, E, x, y : /\ u = Run(a, b) /\ E = Endless(H, TRUE, k)
                        /\ x = L + 2 * (a - k) /\ y = L + 2 * (b - k)
  OBVIOUS
<1>3. PICK n \in Nat : n = b - a
  OBVIOUS
<1>4. Len(u) = n /\ \A i \in 1..n : u[i] = a + i
  <2>1. IsRun(a, b, u)
    BY <1>2, RunIs
  <2> QED
    BY <1>3, <2>1 DEF IsRun
<1>5. y - x = 2 * n
  BY <1>2, <1>3
<1>6. ASSUME NEW c \in 1..(2 * n)
      PROVE  E[x + c] = IF c % 2 = 1 THEN Cell("head", <<>>) ELSE Cell("body", <<u[c \div 2]>>)
  <2>1. PICK j : j = 2 * (a - k) + c
    OBVIOUS
  <2>2. j \in Nat \ {0} /\ x + c = L + j /\ j % 2 = c % 2 /\ k + (j \div 2) = a + (c \div 2)
    BY <1>2, <2>1
  <2>3. E[x + c] = Datum(TRUE, k, j)
    <3>1. PICK t \in BOOLEAN : t = TRUE
      OBVIOUS
    <3>2. Endless(H, t, k)[Len(H) + j] = Datum(t, k, j)
      BY <2>2, DataAt
    <3> QED
      BY <1>1, <1>2, <2>2, <3>1, <3>2
  <2>4. CASE c % 2 = 1
    BY <2>2, <2>3, <2>4 DEF Datum
  <2>5. CASE c % 2 # 1
    <3>1. c \div 2 \in 1..n
      BY <2>5
    <3>2. u[c \div 2] = a + (c \div 2)
      BY <1>4, <3>1
    <3>3. Datum(TRUE, k, j) = Cell("body", <<k + (j \div 2)>>)
      BY <2>2, <2>5 DEF Datum
    <3> QED
      BY <2>2, <2>3, <2>5, <3>2, <3>3
  <2> QED
    BY <2>4, <2>5
<1>7. Slice(E, x, y) = [c \in 1..(2 * n) |-> E[x + c]]
  BY <1>5 DEF Slice
<1>8. Encoding(TRUE, u) = [c \in 1..(2 * n) |->
          IF c % 2 = 1 THEN Cell("head", <<>>) ELSE Cell("body", <<u[c \div 2]>>)]
  BY <1>4 DEF Encoding
<1>9. Encoding(TRUE, u) = Slice(E, x, y)
  BY <1>6, <1>7, <1>8
<1>10. x = At(L, TRUE, k, a) /\ y = At(L, TRUE, k, b)
  BY <1>2 DEF At
<1> QED
  BY <1>1, <1>2, <1>9, <1>10 DEF Encodes

\* For the others.
LEMMA EncodeRaw ==
  ASSUME NEW H \in Seq(Cells), NEW k \in Nat, NEW a \in Nat, NEW b \in Nat, k <= a, a <= b
  PROVE  Encodes(Endless(H, FALSE, k), Len(H), FALSE, k, a, b)
<1>1. PICK L \in Nat : L = Len(H)
  OBVIOUS
<1>2. PICK u, E, x, y : /\ u = Run(a, b) /\ E = Endless(H, FALSE, k)
                        /\ x = L + (a - k) /\ y = L + (b - k)
  OBVIOUS
<1>3. PICK n \in Nat : n = b - a
  OBVIOUS
<1>4. Len(u) = n /\ \A i \in 1..n : u[i] = a + i
  <2>1. IsRun(a, b, u)
    BY <1>2, RunIs
  <2> QED
    BY <1>3, <2>1 DEF IsRun
<1>5. y - x = n
  BY <1>2, <1>3
<1>6. ASSUME NEW c \in 1..n PROVE E[x + c] = Cell("raw", <<u[c]>>)
  <2>1. PICK j : j = (a - k) + c
    OBVIOUS
  <2>2. j \in Nat \ {0} /\ x + c = L + j /\ k + j = a + c
    BY <1>2, <2>1
  <2>3. E[x + c] = Datum(FALSE, k, j)
    <3>1. PICK t \in BOOLEAN : t = FALSE
      OBVIOUS
    <3>2. Endless(H, t, k)[Len(H) + j] = Datum(t, k, j)
      BY <2>2, DataAt
    <3> QED
      BY <1>1, <1>2, <2>2, <3>1, <3>2
  <2>4. Datum(FALSE, k, j) = Cell("raw", <<k + j>>)
    BY DEF Datum
  <2>5. u[c] = a + c
    BY <1>4
  <2> QED
    BY <2>2, <2>3, <2>4, <2>5
<1>7. Slice(E, x, y) = [c \in 1..n |-> E[x + c]]
  BY <1>5 DEF Slice
<1>8. Encoding(FALSE, u) = [c \in 1..n |-> Cell("raw", <<u[c]>>)]
  BY <1>4 DEF Encoding
<1>9. Encoding(FALSE, u) = Slice(E, x, y)
  BY <1>6, <1>7, <1>8
<1>10. x = At(L, FALSE, k, a) /\ y = At(L, FALSE, k, b)
  BY <1>2 DEF At
<1> QED
  BY <1>1, <1>2, <1>9, <1>10 DEF Encodes

-----------------------------------------------------------------------------
(* What the decoders make of such a part.                                    *)

\* Cells each of which is taken for one unit.
LEMMA TakenOnes ==
  ASSUME NEW b \in Seq(Cells), NEW t \in Seq(Nat), Len(t) = Len(b),
         \A i \in 1..Len(b) : (IF b[i].part = "raw" THEN b[i].data ELSE << 0 >>) = <<t[i]>>
  PROVE  Taken(b) = t
<1>1. PICK n \in Nat : n = Len(b)
  OBVIOUS
<1>2. PICK parts : parts = [i \in 1..n |-> IF b[i].part = "raw" THEN b[i].data ELSE << 0 >>]
  OBVIOUS
<1>3. Len(parts) = n /\ (n = 0 => parts = <<>>)
  BY <1>2
<1>4. \A i \in 1..n : parts[i] = <<t[i]>>
  BY <1>1, <1>2
<1>5. FlattenSeq(parts) = t
  BY <1>1, <1>3, <1>4, Singles
<1> QED
  BY <1>1, <1>2, <1>5 DEF Taken

\* Raw data.
TakesRaw(E, L, k, b, m, y, c) == c \in Nat /\ L + (c - k) = y /\ Taken(b) = Run(m, c)

LEMMA TakenRun ==
  ASSUME NEW H \in Seq(Cells), NEW k \in Nat, NEW x \in Nat, NEW y \in Nat,
         NEW m \in Nat, k <= m, NEW L, L = Len(H), x = L + (m - k), x <= y,
         NEW tls \in BOOLEAN, NEW E, E = Endless(H, tls, k), NEW b, b = Slice(E, x, y)
  PROVE  ~tls => \E c : TakesRaw(E, L, k, b, m, y, c)
<1> HAVE ~tls
<1>1. L \in Nat /\ y - x \in Nat
  OBVIOUS
<1>03. PICK c : c = m + (y - x)
  OBVIOUS
<1>01. PICK n \in Nat : n = y - x
  BY <1>1
<1>02. PICK t : t = Run(m, c)
  OBVIOUS
<1>2. n = y - x /\ c = m + n /\ c \in Nat /\ t = Run(m, c)
  BY <1>1, <1>01, <1>02, <1>03
<1>3. b \in Seq(Cells) /\ Len(b) = n /\ \A i \in 1..n : b[i] = E[x + i]
  <2>1. E \in [Places -> Cells]
    BY EndlessType
  <2>2. Sliced(Cells, E, x, y, b)
    BY <2>1, SliceIsSeq
  <2> QED
    BY <1>2, <2>2 DEF Sliced
<1>4. t \in Seq(Nat) /\ Len(t) = n /\ \A i \in 1..n : t[i] = m + i
  <2>1. m <= c /\ c - m = n
    BY <1>2
  <2>2. IsRun(m, c, t)
    BY <1>2, <2>1, RunIs
  <2> QED
    BY <2>1, <2>2 DEF IsRun
<1>5. ASSUME NEW i \in 1..n
      PROVE  (IF b[i].part = "raw" THEN b[i].data ELSE << 0 >>) = <<t[i]>>
  <2>1. PICK j : j = (m - k) + i
    OBVIOUS
  <2>2. j \in Nat \ {0} /\ x + i = L + j /\ k + j = m + i
    BY <1>1, <2>1
  <2>3. E[x + i] = Datum(tls, k, j)
    <3>1. Endless(H, tls, k)[Len(H) + j] = Datum(tls, k, j)
      BY <2>2, DataAt
    <3> QED
      BY <2>2, <3>1
  <2>4. Datum(tls, k, j) = Cell("raw", <<m + i>>)
    BY <2>2 DEF Datum
  <2>5. Cell("raw", <<m + i>>).part = "raw" /\ Cell("raw", <<m + i>>).data = <<m + i>>
    BY DEF Cell
  <2>6. t[i] = m + i /\ b[i] = Cell("raw", <<m + i>>)
    BY <1>3, <1>4, <2>3, <2>4
  <2> QED
    BY <2>5, <2>6
<1>6. Taken(b) = t
  BY <1>3, <1>4, <1>5, TakenOnes
<1>7. L + (c - k) = y
  BY <1>1, <1>2
<1> QED
  BY <1>2, <1>6, <1>7 DEF TakesRaw

\* Any cells at all are taken for numbers.
LEMMA TakenType ==
  ASSUME NEW H \in Seq(Cells), \A i \in 1..Len(H) : H[i].part # "raw",
         NEW k \in Nat, NEW x \in Nat, NEW y \in Nat, x <= y,
         NEW tls \in BOOLEAN, NEW E, E = Endless(H, tls, k), NEW b, b = Slice(E, x, y)
  PROVE  ~tls => Taken(b) \in Seq(Nat)
<1> HAVE ~tls
<1>1. PICK L \in Nat, n \in Nat : L = Len(H) /\ n = y - x
  OBVIOUS
<1>3. b \in Seq(Cells) /\ Len(b) = n /\ \A i \in 1..n : b[i] = E[x + i]
  <2>2. E \in [Places -> Cells]
    BY EndlessType
  <2>3. Sliced(Cells, E, x, y, b)
    BY <2>2, SliceIsSeq
  <2> QED
    BY <1>1, <2>3 DEF Sliced
<1>4. PICK t : t = [i \in 1..n |-> IF x + i <= L THEN 0 ELSE k + ((x + i) - L)]
  OBVIOUS
<1>5. t \in Seq(Nat) /\ Len(t) = n
  <2>1. t \in [1..n -> Nat]
    BY <1>4
  <2> QED
    BY <2>1
<1>6. ASSUME NEW i \in 1..n
      PROVE  (IF b[i].part = "raw" THEN b[i].data ELSE << 0 >>) = <<t[i]>>
  <2>1. PICK j : j = x + i
    OBVIOUS
  <2>2. j \in Places /\ b[i] = E[j] /\ t[i] = IF j <= L THEN 0 ELSE k + (j - L)
    BY <1>3, <1>4, <2>1 DEF Places
  <2>3. E[j] = IF j <= L THEN H[j] ELSE Datum(tls, k, j - L)
    BY <1>1, <2>2 DEF Endless
  <2>4. CASE j <= L
    <3>1. j \in 1..Len(H)
      BY <1>1, <2>2, <2>4 DEF Places
    <3>2. H[j].part # "raw"
      BY <3>1
    <3> QED
      BY <2>2, <2>3, <2>4, <3>2
  <2>5. CASE ~(j <= L)
    <3>1. PICK d : d = <<k + (j - L)>>
      OBVIOUS
    <3>2. Datum(tls, k, j - L) = Cell("raw", d)
      BY <3>1 DEF Datum
    <3>3. Cell("raw", d).part = "raw" /\ Cell("raw", d).data = d
      BY DEF Cell
    <3>4. b[i] = Cell("raw", d) /\ <<t[i]>> = d
      BY <2>2, <2>3, <2>5, <3>1, <3>2
    <3> QED
      BY <3>3, <3>4
  <2> QED
    BY <2>4, <2>5
<1>7. Taken(b) = t
  BY <1>3, <1>5, <1>6, TakenOnes
<1> QED
  BY <1>5, <1>7

\* Records each of which holds one unit.
OneEach(b, h, t) == Whole(b) = 2 * h /\ \A i \in 1..h : b[2 * i].data = <<t[i]>>

LEMMA RecordsOnes ==
  ASSUME NEW b, NEW t \in Seq(Nat), NEW h, h = Len(t), OneEach(b, h, t)
  PROVE  Records(b) = t
<1>0. h \in Nat /\ Whole(b) = 2 * h /\ \A i \in 1..h : b[2 * i].data = <<t[i]>>
  BY DEF OneEach
<1>1. PICK parts : parts = [i \in 1..h |-> b[2 * i].data]
  OBVIOUS
<1>2. (2 * h) \div 2 = h
  BY <1>0
<1>3. Len(parts) = h /\ (h = 0 => parts = <<>>)
  BY <1>0, <1>1
<1>4. \A i \in 1..h : parts[i] = <<t[i]>>
  BY <1>0, <1>1
<1>5. FlattenSeq(parts) = t
  BY <1>3, <1>4, Singles
<1> QED
  BY <1>0, <1>1, <1>2, <1>5 DEF Records

\* Records: the h units that are complete, and what is left.
TakesRecords(E, L, k, b, m, y, h) ==
  /\ h \in Nat /\ Records(b) = Run(m, m + h)
  /\ At(L, TRUE, k, m + h) \in Nat
  /\ y - At(L, TRUE, k, m + h) \in {0, 1}
  /\ AfterRecords(b) = Slice(E, At(L, TRUE, k, m + h), y)

LEMMA RecordsRun ==
  ASSUME NEW H \in Seq(Cells), NEW k \in Nat, NEW x \in Nat, NEW y \in Nat,
         NEW m \in Nat, k <= m, NEW L, L = Len(H), x = L + 2 * (m - k), x <= y,
         NEW tls \in BOOLEAN, NEW E, E = Endless(H, tls, k), NEW b, b = Slice(E, x, y)
  PROVE  tls => \E h : TakesRecords(E, L, k, b, m, y, h)
<1> HAVE tls
<1>00. L \in Nat
  OBVIOUS
<1>0. PICK n \in Nat : n = y - x
  BY <1>00
<1>01. PICK h \in Nat : h = n \div 2
  OBVIOUS
<1>02. PICK c \in Nat : c = m + h
  OBVIOUS
<1>1. L \in Nat /\ n = y - x /\ h = n \div 2 /\ c = m + h
  BY <1>00, <1>0, <1>01, <1>02
<1>2. PICK t : t = Run(m, c)
  OBVIOUS
<1>3. Whole(b) = 2 * h /\ Len(b) = n /\ b \in Seq(Cells)
      /\ E \in [Places -> Cells] /\ \A i \in 1..n : b[i] = E[x + i]
  <2>2. E \in [Places -> Cells]
    BY EndlessType
  <2>3. Sliced(Cells, E, x, y, b)
    BY <2>2, SliceIsSeq
  <2>4. Len(b) = n /\ b \in Seq(Cells) /\ \A i \in 1..n : b[i] = E[x + i]
    BY <1>1, <2>3 DEF Sliced
  <2>5. n - (n % 2) = 2 * h
    BY <1>1
  <2> QED
    BY <2>2, <2>4, <2>5 DEF Whole
<1>4. t \in Seq(Nat) /\ Len(t) = h /\ \A i \in 1..h : t[i] = m + i
  <2>1. m <= c /\ c - m = h
    BY <1>1
  <2>2. IsRun(m, c, t)
    BY <1>2, <2>1, RunIs
  <2> QED
    BY <2>1, <2>2 DEF IsRun
<1>5. ASSUME NEW i \in 1..h PROVE b[2 * i].data = <<t[i]>>
  <2>1. PICK j : j = 2 * ((m - k) + i)
    OBVIOUS
  <2>2. j \in Nat \ {0} /\ x + (2 * i) = L + j /\ j % 2 # 1 /\ k + (j \div 2) = m + i
        /\ 2 * i \in 1..n
    BY <1>1, <1>3, <2>1
  <2>3. E[x + (2 * i)] = Datum(tls, k, j)
    <3>1. Endless(H, tls, k)[Len(H) + j] = Datum(tls, k, j)
      BY <2>2, DataAt
    <3> QED
      BY <2>2, <3>1
  <2>4. Datum(tls, k, j) = Cell("body", <<m + i>>)
    BY <2>2 DEF Datum
  <2>5. Cell("body", <<m + i>>).data = <<m + i>>
    BY DEF Cell
  <2>6. b[2 * i] = E[x + (2 * i)] /\ t[i] = m + i
    BY <1>3, <1>4, <2>2
  <2> QED
    BY <2>3, <2>4, <2>5, <2>6
<1>6. Records(b) = t
  <2>1. OneEach(b, h, t)
    BY <1>3, <1>5 DEF OneEach
  <2> QED
    BY <1>4, <2>1, RecordsOnes
<1>7. PICK z \in Nat, e \in Nat : z = L + 2 * (c - k) /\ e = 2 * h
  BY <1>1, <1>3
<1>8. z = x + e /\ y - z \in {0, 1} /\ e <= n
  BY <1>1, <1>3, <1>7
<1>9. AfterRecords(b) = Slice(E, z, y)
  <2>1. CutAt(E, x, y, e)
    BY <1>1, <1>3, <1>8, SliceCut
  <2> QED
    BY <1>1, <1>2, <1>3, <1>7, <1>8, <2>1 DEF CutAt, AfterRecords
<1>10. z = At(L, TRUE, k, c)
  BY <1>7 DEF At
<1> QED
  BY <1>1, <1>2, <1>6, <1>8, <1>9, <1>10 DEF TakesRecords

\* What the decoders of data make of the part from unit m to place y: the units
\* up to z, and of the records of tls what is left.
Decodes(E, L, tls, k, b, m, y, z) ==
  /\ z \in Nat /\ m <= z /\ At(L, tls, k, z) \in Nat
  /\ At(L, tls, k, z) <= y /\ y - At(L, tls, k, z) < (IF tls THEN 2 ELSE 1)
  /\ tls => Records(b) = Run(m, z) /\ AfterRecords(b) = Slice(E, At(L, tls, k, z), y)
  /\ ~tls => Taken(b) = Run(m, z)

-----------------------------------------------------------------------------
(* The streams of the plugins.                                               *)

UpHand(kd, k) ==
  CASE kd = "tls"    -> Message(<<"hello1", "hello2", "ccs", "fin1", "fin2">>)
    [] kd = "http"   -> <<Cell("get1", <<>>), Cell("get2", Run(0, k))>>
    [] kd = "random" -> Message(<<"random1", "random2">>)

DownHand(kd) ==
  CASE kd = "tls"    -> Message(<<"server1", "server2">>)
    [] kd = "http"   -> Message(<<"status", "cr", "lf">>)
    [] kd = "random" -> Message(<<"random1", "random2">>)

UpLen(kd) == IF kd = "tls" THEN 5 ELSE 2
DownLen(kd) == IF kd = "http" THEN 3 ELSE 2

\* The greeting of http carries the first k units, the others none.
UpFlow(kd, k) == Endless(UpHand(kd, k), kd = "tls", k)
DownFlow(kd) == Endless(DownHand(kd), kd = "tls", 0)

\* How far a side is that has begun (x) and opened (y).
Reached(kd, k, x, y, n) ==
  IF ~x THEN 0 ELSE IF ~y THEN 2 ELSE At(UpLen(kd), kd = "tls", k, n)

\* Less than this stays in the server's buffer.
Limit(kd, x, y) ==
  IF ~x THEN (IF kd = "random" THEN 1 ELSE 2)
        ELSE IF ~y THEN 3 ELSE (IF kd = "tls" THEN 2 ELSE 1)

\* The cells of client c, who was given n units: T have been sent, P of them
\* are no longer in the network w.
UpSent(kd, k, P, T, c, n, w) ==
  /\ kd # "http" => k = 0
  /\ c.sent => k <= n
  /\ T = Reached(kd, k, c.sent, c.open, n) /\ P <= T
  /\ w = Slice(UpFlow(kd, k), P, T)

\* Server s has used C of them, and handed on m units.
UpTaken(kd, k, P, C, s, m) ==
  /\ C = Reached(kd, k, s.heard, s.open, m) /\ C <= P
  /\ P - C < Limit(kd, s.heard, s.open)
  /\ s.recv_buffer = Slice(UpFlow(kd, k), C, P)
  /\ s.open => k <= m
  /\ ~s.open => m = 0

\* The same of the other direction.
DownSent(kd, Q, D, s, n, w) ==
  /\ D = (IF s.sent THEN At(DownLen(kd), kd = "tls", 0, n) ELSE 0) /\ Q <= D
  /\ w = Slice(DownFlow(kd), Q, D)

DownHeard(kd, Q, C, c, m) ==
  /\ C = At(DownLen(kd), kd = "tls", 0, m) /\ C <= Q
  /\ Q - C < (IF kd = "tls" THEN 2 ELSE 1)
  /\ c.recv_buffer = Slice(DownFlow(kd), C, Q)

DownUnheard(kd, Q, c, m, ct) ==
  /\ m = 0 /\ c.recv_buffer = <<>>
  /\ c.dead \/ (kd = "http" /\ ct) \/ Q < (IF kd = "http" THEN 2 ELSE 1)

DownTaken(kd, Q, c, m, ct) ==
  /\ ~c.heard => DownUnheard(kd, Q, c, m, ct)
  /\ c.heard => (kd = "random" /\ ct) \/ \E C \in Nat : DownHeard(kd, Q, C, c, m)

\* How the two plugin objects are related.
FlagsOK(kd, c, s, ct) ==
  /\ c.open => c.sent
  /\ kd # "http" => c.open = c.heard
  /\ kd = "http" => c.open = c.sent
  /\ c.heard => s.sent
  /\ s.sent => s.heard
  /\ s.heard => c.sent
  /\ kd # "http" => s.sent = s.heard
  /\ kd # "tls" => s.open = s.heard
  /\ s.open => s.heard
  /\ s.left => ~s.heard
  /\ s.dead => ct /\ s.heard /\ ~s.open
  /\ c.dead => ct /\ ~c.heard

\* What a client keeps back.
KeptBack(c, g) == c.send_buffer = IF c.open THEN <<>> ELSE g

FlagsInv ==
  /\ FlagsOK(kind, cli, srv, cut) /\ KeptBack(cli, givenUp)
  /\ ~cli.sent => Len(givenUp) = 0
  /\ ~srv.sent => Len(givenDown) = 0
  /\ srv.left \/ srv.dead => Len(gotUp) = 0

UpInv ==
  /\ givenUp = Run(0, Len(givenUp)) /\ gotUp = Run(0, Len(gotUp))
  /\ \E k \in Nat, P \in Nat, T \in Nat :
       /\ UpSent(kind, k, P, T, cli, Len(givenUp), up)
       /\ ~srv.left /\ ~srv.dead =>
            \E C \in Nat : UpTaken(kind, k, P, C, srv, Len(gotUp))

DownInv ==
  /\ givenDown = Run(0, Len(givenDown))
  /\ (kind = "random" /\ cut) \/ gotDown = Run(0, Len(gotDown))
  /\ \E Q \in Nat, D \in Nat :
       /\ DownSent(kind, Q, D, srv, Len(givenDown), down)
       /\ DownTaken(kind, Q, cli, Len(gotDown), cut)

Inv == TypeOK /\ FlagsInv /\ UpInv /\ DownInv

-----------------------------------------------------------------------------
(* Facts about these streams.                                                *)

\* There is such a z.
LEMMA DataDecoded ==
  ASSUME NEW H \in Seq(Cells), NEW tls \in BOOLEAN, NEW k \in Nat, NEW m \in Nat, k <= m,
         NEW y \in Nat, NEW L, L = Len(H), NEW x \in Nat, x = At(L, tls, k, m), x <= y,
         NEW E, E = Endless(H, tls, k), NEW b, b = Slice(E, x, y)
  PROVE  \E z : Decodes(E, L, tls, k, b, m, y, z)
<1>0. L \in Nat
  OBVIOUS
<1>1. CASE tls
  <2>1. x = L + 2 * (m - k)
    BY <1>1 DEF At
  <2>2. PICK h : TakesRecords(E, L, k, b, m, y, h)
    BY <1>1, <2>1, RecordsRun
  <2>3. PICK z : z = m + h
    OBVIOUS
  <2>4. At(L, TRUE, k, z) = At(L, tls, k, z)
    BY <1>1 DEF At
  <2>5. /\ h \in Nat /\ Records(b) = Run(m, z) /\ At(L, tls, k, z) \in Nat
        /\ y - At(L, tls, k, z) \in {0, 1} /\ AfterRecords(b) = Slice(E, At(L, tls, k, z), y)
    BY <2>2, <2>3, <2>4 DEF TakesRecords
  <2>6. PICK v : v = At(L, tls, k, z)
    OBVIOUS
  <2>7. z \in Nat /\ m <= z /\ v \in Nat /\ v <= y /\ y - v < 2
    BY <2>3, <2>5, <2>6
  <2> QED
    BY <1>1, <2>5, <2>6, <2>7 DEF Decodes
<1>2. CASE ~tls
  <2>1. x = L + (m - k)
    BY <1>2 DEF At
  <2>2. PICK z : TakesRaw(E, L, k, b, m, y, z)
    BY <1>2, <2>1, TakenRun
  <2>3. z \in Nat /\ L + (z - k) = y /\ Taken(b) = Run(m, z)
    BY <2>2 DEF TakesRaw
  <2>4. At(L, tls, k, z) = y
    BY <1>2, <2>3 DEF At
  <2>5. m <= z
    BY <1>0, <2>1, <2>3
  <2>7. y <= y /\ y - y < 1
    OBVIOUS
  <2> QED
    BY <1>2, <2>3, <2>4, <2>5, <2>7 DEF Decodes
<1> QED
  BY <1>1, <1>2

\* The cells of a handshake.
Parts == {"hello1", "hello2", "get1", "get2", "random1", "random2", "server1",
          "server2", "status", "cr", "lf", "ccs", "fin1", "fin2"}

LEMMA PartCell ==
  ASSUME NEW p \in Parts, NEW d \in Seq(Nat)
  PROVE  Cell(p, d) \in Cells /\ Cell(p, d).part = p /\ p # "raw"
BY DEF Parts, Cell, Cells

LEMMA NoRaw ==
  ASSUME NEW p \in Parts
  PROVE  Cell(p, <<>>).part # "raw"
BY DEF Parts, Cell

\* A message, cell by cell.
MessageIs(parts, L, msg) ==
  /\ msg \in Seq(Cells) /\ Len(msg) = L /\ \A i \in 1..L : msg[i] = Cell(parts[i], <<>>)

LEMMA MessageType ==
  ASSUME NEW parts \in Seq(Parts), NEW L, L = Len(parts)
  PROVE  MessageIs(parts, L, Message(parts))
<1>1. L \in Nat /\ <<>> \in Seq(Nat)
  OBVIOUS
<1>2. PICK m : m = [i \in 1..L |-> Cell(parts[i], <<>>)]
  OBVIOUS
<1>3. \A i \in 1..L : Cell(parts[i], <<>>) \in Cells
  <2> TAKE i \in 1..L
  <2>1. parts[i] \in Parts
    BY ElementOfSeq
  <2>2. PICK p \in Parts, d \in Seq(Nat) : p = parts[i] /\ d = <<>>
    BY <1>1, <2>1
  <2> QED
    BY <2>2, PartCell
<1>4. m \in [1..L -> Cells]
  BY <1>2, <1>3
<1>5. m \in Seq(Cells) /\ Len(m) = L
  BY <1>1, <1>4
<1>6. Message(parts) = m
  BY <1>2 DEF Message
<1> QED
  BY <1>2, <1>5, <1>6 DEF MessageIs

\* The messages by name.
Lists ==
  /\ <<"hello1", "hello2", "ccs", "fin1", "fin2">> \in Seq(Parts)
  /\ <<"hello1", "hello2">> \in Seq(Parts) /\ <<"ccs", "fin1", "fin2">> \in Seq(Parts)
  /\ <<"random1", "random2">> \in Seq(Parts) /\ <<"server1", "server2">> \in Seq(Parts)
  /\ <<"status", "cr", "lf">> \in Seq(Parts)

LEMMA ListsType == Lists
<1>1. /\ "hello1" \in Parts /\ "hello2" \in Parts /\ "ccs" \in Parts /\ "fin1" \in Parts
      /\ "fin2" \in Parts /\ "random1" \in Parts /\ "random2" \in Parts
      /\ "server1" \in Parts /\ "server2" \in Parts /\ "status" \in Parts
      /\ "cr" \in Parts /\ "lf" \in Parts
  BY DEF Parts
<1> QED
  BY <1>1 DEF Lists

Plugins == {"tls", "http", "random"}

\* The handshakes.
Hands(kd, k) ==
  /\ UpHand(kd, k) \in Seq(Cells) /\ Len(UpHand(kd, k)) = UpLen(kd)
  /\ DownHand(kd) \in Seq(Cells) /\ Len(DownHand(kd)) = DownLen(kd)
  /\ \A i \in 1..DownLen(kd) : DownHand(kd)[i].part # "raw"

LEMMA HandsType ==
  ASSUME NEW kd \in Plugins, NEW k \in Nat
  PROVE  Hands(kd, k)
<1>1. CASE kd = "tls"
  <2>1. PICK p, q : p = <<"hello1", "hello2", "ccs", "fin1", "fin2">> /\ q = <<"server1", "server2">>
    OBVIOUS
  <2>2. p \in Seq(Parts) /\ q \in Seq(Parts) /\ Len(p) = 5 /\ Len(q) = 2
        /\ \A i \in 1..2 : q[i] \in Parts
    BY <2>1, ListsType DEF Lists
  <2>3. MessageIs(p, 5, Message(p)) /\ MessageIs(q, 2, Message(q))
    BY <2>2, MessageType
  <2>4. UpHand(kd, k) = Message(p) /\ DownHand(kd) = Message(q)
        /\ UpLen(kd) = 5 /\ DownLen(kd) = 2
    BY <1>1, <2>1 DEF UpHand, DownHand, UpLen, DownLen
  <2>5. \A i \in 1..2 : Cell(q[i], <<>>).part # "raw"
    BY <2>2, NoRaw
  <2> QED
    BY <2>3, <2>4, <2>5 DEF Hands, MessageIs
<1>2. CASE kd = "random"
  <2>1. PICK q : q = <<"random1", "random2">>
    OBVIOUS
  <2>2. q \in Seq(Parts) /\ Len(q) = 2 /\ \A i \in 1..2 : q[i] \in Parts
    BY <2>1, ListsType DEF Lists
  <2>3. MessageIs(q, 2, Message(q))
    BY <2>2, MessageType
  <2>4. UpHand(kd, k) = Message(q) /\ DownHand(kd) = Message(q)
        /\ UpLen(kd) = 2 /\ DownLen(kd) = 2
    BY <1>2, <2>1 DEF UpHand, DownHand, UpLen, DownLen
  <2>5. \A i \in 1..2 : Cell(q[i], <<>>).part # "raw"
    BY <2>2, NoRaw
  <2> QED
    BY <2>3, <2>4, <2>5 DEF Hands, MessageIs
<1>3. CASE kd = "http"
  <2>1. PICK q : q = <<"status", "cr", "lf">>
    OBVIOUS
  <2>2. q \in Seq(Parts) /\ Len(q) = 3 /\ \A i \in 1..3 : q[i] \in Parts
    BY <2>1, ListsType DEF Lists
  <2>3. MessageIs(q, 3, Message(q))
    BY <2>2, MessageType
  <2>4. DownHand(kd) = Message(q) /\ UpLen(kd) = 2 /\ DownLen(kd) = 3
    BY <1>3, <2>1 DEF DownHand, UpLen, DownLen
  <2>5. \A i \in 1..3 : Cell(q[i], <<>>).part # "raw"
    BY <2>2, NoRaw
  <2>6. PICK x, y : x = Cell("get1", <<>>) /\ y = Cell("get2", Run(0, k))
    OBVIOUS
  <2>7. x \in Cells /\ y \in Cells
    <3>1. PICK d \in Seq(Nat), e \in Seq(Nat), r \in Parts, s \in Parts :
            d = <<>> /\ e = Run(0, k) /\ r = "get1" /\ s = "get2"
      <4>1. IsRun(0, k, Run(0, k))
        BY RunIs
      <4>2. Run(0, k) \in Seq(Nat)
        BY <4>1 DEF IsRun
      <4>3. <<>> \in Seq(Nat) /\ "get1" \in Parts /\ "get2" \in Parts
        BY DEF Parts
      <4> QED
        BY <4>2, <4>3
    <3> QED
      BY <2>6, <3>1, PartCell
  <2>8. UpHand(kd, k) = <<x, y>>
    BY <1>3, <2>6 DEF UpHand
  <2>9. <<x, y>> \in Seq(Cells) /\ Len(<<x, y>>) = 2
    BY <2>7
  <2> QED
    BY <2>3, <2>4, <2>5, <2>8, <2>9 DEF Hands, MessageIs
<1> QED
  BY <1>1, <1>2, <1>3 DEF Plugins

\* The streams consist of cells.
Flows(kd, k) ==
  UpFlow(kd, k) \in [Places -> Cells] /\ DownFlow(kd) \in [Places -> Cells]

LEMMA FlowsType ==
  ASSUME NEW kd \in Plugins, NEW k \in Nat
  PROVE  Flows(kd, k)
<1>1. PICK g \in Seq(Cells), h \in Seq(Cells), t \in BOOLEAN, z \in Nat :
        g = UpHand(kd, k) /\ h = DownHand(kd) /\ t = (kd = "tls") /\ z = 0
  BY HandsType DEF Hands
<1>2. Endless(g, t, k) \in [Places -> Cells] /\ Endless(h, t, z) \in [Places -> Cells]
  BY EndlessType
<1> QED
  BY <1>1, <1>2 DEF Flows, UpFlow, DownFlow

\* A part of a handshake.
PartOf(H, a, b, M) ==
  /\ a <= b /\ b <= Len(H) /\ M \in Seq(Cells) /\ Len(M) = b - a
  /\ \A i \in 1..(b - a) : M[i] = H[a + i]

LEMMA HandPart ==
  ASSUME NEW H \in Seq(Cells), NEW tls \in BOOLEAN, NEW k \in Nat, NEW E,
         E = Endless(H, tls, k), NEW a \in Nat, NEW b \in Nat, NEW M, PartOf(H, a, b, M)
  PROVE  M = Slice(E, a, b)
<1> USE DEF PartOf
<1>1. E \in [Places -> Cells]
  BY EndlessType
<1>2. ASSUME NEW i \in 1..(b - a) PROVE M[i] = E[a + i]
  <2>1. PICK j : j = a + i
    OBVIOUS
  <2>2. j \in Places /\ j <= Len(H)
    BY <2>1 DEF Places
  <2>3. E[j] = H[j]
    BY <2>2 DEF Endless
  <2> QED
    BY <2>1, <2>3
<1>3. Sliced(Cells, E, a, b, M)
  BY <1>2 DEF Sliced
<1> QED
  BY <1>1, <1>3, IsSlice

\* Greeting and Finish are parts of the stream of a client, Reply is one of the
\* stream of a server.
LEMMA GreetingIs ==
  ASSUME NEW k \in Nat, kind \in Plugins, NEW d, kind = "http" => d = Run(0, k)
  PROVE  Greeting(d) = Slice(UpFlow(kind, k), 0, 2) /\ Len(Greeting(d)) = 2
<1>1. PICK H \in Seq(Cells), t \in BOOLEAN : H = UpHand(kind, k) /\ t = (kind = "tls")
  BY HandsType DEF Hands
<1>2. PICK E : E = UpFlow(kind, k)
  OBVIOUS
<1>3. E = Endless(H, t, k) /\ Len(H) = UpLen(kind)
  BY <1>1, <1>2, HandsType DEF UpFlow, Hands
<1>4. CASE kind = "tls"
  <2>1. PICK p, q : p = <<"hello1", "hello2", "ccs", "fin1", "fin2">> /\ q = <<"hello1", "hello2">>
    OBVIOUS
  <2>2. p \in Seq(Parts) /\ q \in Seq(Parts) /\ Len(p) = 5 /\ Len(q) = 2
    BY <2>1, ListsType DEF Lists
  <2>3. MessageIs(p, 5, Message(p)) /\ MessageIs(q, 2, Message(q))
    BY <2>2, MessageType
  <2>4. H = Message(p) /\ Greeting(d) = Message(q)
    BY <1>1, <1>4, <2>1 DEF UpHand, Greeting
  <2>5. PICK M : M = Message(q)
    OBVIOUS
  <2>6. /\ M \in Seq(Cells) /\ Len(M) = 2 /\ Len(H) = 5
        /\ \A i \in 1..2 : M[i] = Cell(q[i], <<>>)
        /\ \A i \in 1..5 : H[i] = Cell(p[i], <<>>)
    BY <2>3, <2>4, <2>5 DEF MessageIs
  <2>7. p[1] = q[1] /\ p[2] = q[2]
    BY <2>1
  <2>8. M[1] = H[1] /\ M[2] = H[2]
    BY <2>6, <2>7
  <2>9. PICK x \in Nat, y \in Nat : x = 0 /\ y = 2
    OBVIOUS
  <2>10. PartOf(H, x, y, M)
    BY <2>6, <2>8, <2>9 DEF PartOf
  <2>11. M = Slice(E, x, y)
    BY <1>3, <2>10, HandPart
  <2> QED
    BY <1>2, <2>4, <2>5, <2>6, <2>9, <2>11
<1>5. CASE kind # "tls"
  <2>1. Greeting(d) = H
    BY <1>1, <1>5 DEF Plugins, UpHand, Greeting
  <2>2. Len(H) = 2
    BY <1>3, <1>5 DEF UpLen
  <2>3. Slice(E, 0, Len(H)) = H
    BY <1>3, EndlessType
  <2> QED
    BY <1>2, <2>1, <2>2, <2>3
<1> QED
  BY <1>4, <1>5

LEMMA FinishIs ==
  ASSUME NEW k \in Nat, kind = "tls"
  PROVE  Finish = Slice(UpFlow(kind, k), 2, 5) /\ Len(Finish) = 3
<1>0. kind \in Plugins
  BY DEF Plugins
<1>1. PICK H \in Seq(Cells), t \in BOOLEAN : H = UpHand(kind, k) /\ t = (kind = "tls")
  BY <1>0, HandsType DEF Hands
<1>2. PICK E : E = UpFlow(kind, k)
  OBVIOUS
<1>3. E = Endless(H, t, k)
  BY <1>1, <1>2 DEF UpFlow
<1>4. PICK p, q : p = <<"hello1", "hello2", "ccs", "fin1", "fin2">> /\ q = <<"ccs", "fin1", "fin2">>
  OBVIOUS
<1>5. p \in Seq(Parts) /\ q \in Seq(Parts) /\ Len(p) = 5 /\ Len(q) = 3
  BY <1>4, ListsType DEF Lists
<1>6. MessageIs(p, 5, Message(p)) /\ MessageIs(q, 3, Message(q))
  BY <1>5, MessageType
<1>7. H = Message(p) /\ Finish = Message(q)
  BY <1>1, <1>4 DEF UpHand, Finish
<1>8. PICK M : M = Message(q)
  OBVIOUS
<1>9. /\ M \in Seq(Cells) /\ Len(M) = 3 /\ Len(H) = 5
      /\ \A i \in 1..3 : M[i] = Cell(q[i], <<>>)
      /\ \A i \in 1..5 : H[i] = Cell(p[i], <<>>)
  BY <1>6, <1>7, <1>8 DEF MessageIs
<1>10. p[3] = q[1] /\ p[4] = q[2] /\ p[5] = q[3]
  BY <1>4
<1>11. M[1] = H[3] /\ M[2] = H[4] /\ M[3] = H[5]
  BY <1>9, <1>10
<1>12. PICK x \in Nat, y \in Nat : x = 2 /\ y = 5
  OBVIOUS
<1>13. PartOf(H, x, y, M)
  BY <1>9, <1>11, <1>12 DEF PartOf
<1>14. M = Slice(E, x, y)
  BY <1>3, <1>13, HandPart
<1> QED
  BY <1>2, <1>7, <1>8, <1>9, <1>12, <1>14

LEMMA ReplyIs ==
  ASSUME kind \in Plugins
  PROVE  /\ Reply = Slice(DownFlow(kind), 0, DownLen(kind)) /\ Len(Reply) = DownLen(kind)
         /\ Reply = DownHand(kind)
<1>1. PICK H \in Seq(Cells), t \in BOOLEAN, z \in Nat :
        H = DownHand(kind) /\ t = (kind = "tls") /\ z = 0
  BY HandsType DEF Hands
<1>2. Slice(Endless(H, t, z), 0, Len(H)) = H
  BY EndlessType
<1>3. Len(H) = DownLen(kind)
  BY <1>1, HandsType DEF Hands
<1>4. Reply = H
  BY <1>1 DEF Reply, DownHand
<1> QED
  BY <1>1, <1>2, <1>3, <1>4 DEF DownFlow

\* What Encode makes is the next part of the stream.
EncodesUp(kd, k, a, b, w) ==
  w = Slice(UpFlow(kd, k), At(UpLen(kd), kd = "tls", k, a), At(UpLen(kd), kd = "tls", k, b))
EncodesDown(kd, a, b, w) ==
  w = Slice(DownFlow(kd), At(DownLen(kd), kd = "tls", 0, a), At(DownLen(kd), kd = "tls", 0, b))

\* For either handshake.
LEMMA EncodeIs ==
  ASSUME kind \in Plugins, NEW H \in Seq(Cells), NEW L, L = Len(H), NEW k \in Nat,
         NEW a \in Nat, NEW b \in Nat, k <= a, a <= b, NEW t, t = (kind = "tls")
  PROVE  Encode(Run(a, b)) = Slice(Endless(H, t, k), At(L, t, k, a), At(L, t, k, b))
<1>1. Encode(Run(a, b)) = Encoding(t, Run(a, b))
  BY DEF Encode, Encoding
<1>2. CASE t = TRUE
  <2>1. Encodes(Endless(H, TRUE, k), L, TRUE, k, a, b)
    BY EncodeTls
  <2> QED
    BY <1>1, <1>2, <2>1 DEF Encodes
<1>3. CASE t = FALSE
  <2>1. Encodes(Endless(H, FALSE, k), L, FALSE, k, a, b)
    BY EncodeRaw
  <2> QED
    BY <1>1, <1>3, <2>1 DEF Encodes
<1> QED
  BY <1>2, <1>3

LEMMA EncodeUp ==
  ASSUME kind \in Plugins, NEW k \in Nat, NEW a \in Nat, NEW b \in Nat, k <= a, a <= b
  PROVE  EncodesUp(kind, k, a, b, Encode(Run(a, b)))
<1>1. PICK H \in Seq(Cells), t \in BOOLEAN : H = UpHand(kind, k) /\ t = (kind = "tls")
  BY HandsType DEF Hands
<1>2. UpLen(kind) = Len(H)
  BY <1>1, HandsType DEF Hands
<1>3. Encode(Run(a, b)) = Slice(Endless(H, t, k), At(Len(H), t, k, a), At(Len(H), t, k, b))
  BY <1>1, EncodeIs
<1> QED
  BY <1>1, <1>2, <1>3 DEF EncodesUp, UpFlow

LEMMA EncodeDown ==
  ASSUME kind \in Plugins, NEW a \in Nat, NEW b \in Nat, a <= b
  PROVE  EncodesDown(kind, a, b, Encode(Run(a, b)))
<1>1. PICK H \in Seq(Cells), t \in BOOLEAN, z \in Nat : H = DownHand(kind) /\ t = (kind = "tls") /\ z = 0
  BY HandsType DEF Hands
<1>2. DownLen(kind) = Len(H) /\ z <= a
  BY <1>1, HandsType DEF Hands
<1>3. Encode(Run(a, b)) = Slice(Endless(H, t, z), At(Len(H), t, z, a), At(Len(H), t, z, b))
  BY <1>1, <1>2, EncodeIs
<1> QED
  BY <1>1, <1>2, <1>3 DEF EncodesDown, DownFlow

-----------------------------------------------------------------------------
(* The invariant: initially, and when a client sends.                        *)

\* Places of units.
LEMMA AtGrows ==
  ASSUME NEW L \in Nat, NEW tls \in BOOLEAN, NEW k \in Nat, NEW a \in Nat, NEW b \in Nat,
         k <= a, a <= b
  PROVE  /\ At(L, tls, k, a) \in Nat /\ At(L, tls, k, b) \in Nat
         /\ L <= At(L, tls, k, a) /\ At(L, tls, k, a) <= At(L, tls, k, b)
<1>1. CASE tls
  BY <1>1 DEF At
<1>2. CASE ~tls
  BY <1>2 DEF At
<1> QED
  BY <1>1, <1>2

\* The same with the numbers of a plugin.
Ahead(kd, k, a, b) ==
  /\ At(UpLen(kd), kd = "tls", k, a) \in Nat /\ At(UpLen(kd), kd = "tls", k, b) \in Nat
  /\ UpLen(kd) <= At(UpLen(kd), kd = "tls", k, a)
  /\ At(UpLen(kd), kd = "tls", k, a) <= At(UpLen(kd), kd = "tls", k, b)

LEMMA UpAhead ==
  ASSUME NEW kd, NEW k \in Nat, NEW a \in Nat, NEW b \in Nat, k <= a, a <= b
  PROVE  Ahead(kd, k, a, b)
<1>1. PICK L \in Nat, t \in BOOLEAN : L = UpLen(kd) /\ t = (kd = "tls")
  BY DEF UpLen
<1>2. /\ At(L, t, k, a) \in Nat /\ At(L, t, k, b) \in Nat
      /\ L <= At(L, t, k, a) /\ At(L, t, k, a) <= At(L, t, k, b)
  BY AtGrows
<1> QED
  BY <1>1, <1>2 DEF Ahead

\* The constants, the plugin and the numbers of units.
LEMMA Known ==
  ASSUME Inv
  PROVE  /\ kind \in Plugins /\ cli \in Sides /\ srv \in Sides /\ cut \in BOOLEAN
         /\ Len(givenUp) \in Nat /\ Len(gotUp) \in Nat
         /\ Len(givenDown) \in Nat /\ Len(gotDown) \in Nat
BY ObfsAssumption DEF Inv, TypeOK, Plugins

\* The empty streams.
LEMMA NoUnits == Run(0, 0) = <<>>
BY SliceEmpty DEF Run

LEMMA InitInv == Init => Inv
<1> SUFFICES ASSUME Init PROVE Inv
  OBVIOUS
<1>1. /\ kind \in Kinds /\ cli = NewSide /\ srv = NewSide /\ up = <<>> /\ down = <<>>
      /\ givenUp = <<>> /\ gotUp = <<>> /\ givenDown = <<>> /\ gotDown = <<>> /\ cut = FALSE
  BY DEF Init
<1>2. NewSide \in Sides
  BY DEF NewSide, Sides
<1>3. /\ ~NewSide.sent /\ ~NewSide.heard /\ ~NewSide.open /\ ~NewSide.left /\ ~NewSide.dead
      /\ NewSide.open = NewSide.heard /\ NewSide.open = NewSide.sent
      /\ NewSide.send_buffer = <<>> /\ NewSide.recv_buffer = <<>>
  BY DEF NewSide
<1>4. TypeOK
  <2>1. /\ kind \in Kinds /\ cli \in Sides /\ srv \in Sides /\ cut \in BOOLEAN
        /\ kind # "http" => cli.open = cli.heard
        /\ cli.send_buffer # <<>> => cli.sent /\ ~cli.open
    BY <1>1, <1>2, <1>3
  <2>2. /\ <<>> \in Seq(Cells) /\ <<>> \in Seq(Nat)
        /\ <<>> \in Seq(1..MaxUp) /\ <<>> \in Seq(1..MaxDown)
    OBVIOUS
  <2> QED
    BY <1>1, <2>1, <2>2 DEF TypeOK
<1>5. FlagsInv
  <2>1. FlagsOK(kind, cli, srv, cut)
    BY <1>1, <1>3 DEF FlagsOK
  <2>2. KeptBack(cli, givenUp)
    BY <1>1, <1>3 DEF KeptBack
  <2>3. Len(<<>>) = 0
    OBVIOUS
  <2> QED
    BY <1>1, <2>1, <2>2, <2>3 DEF FlagsInv
<1>6. PICK z \in Nat : z = 0
  OBVIOUS
<1>7. UpInv
  <2>1. Slice(UpFlow(kind, z), z, z) = <<>>
    BY SliceEmpty
  <2>2. /\ Reached(kind, z, cli.sent, cli.open, 0) = 0
        /\ Reached(kind, z, srv.heard, srv.open, 0) = 0
        /\ Limit(kind, srv.heard, srv.open) \in {1, 2}
    BY <1>1, <1>3 DEF Reached, Limit
  <2>3. z <= z /\ z - z < 1 /\ z - z < 2
    OBVIOUS
  <2>7. ~cli.sent /\ ~srv.open /\ srv.recv_buffer = <<>> /\ z = 0
    BY <1>1, <1>3, <1>6
  <2>8. z - z < Limit(kind, srv.heard, srv.open)
    BY <2>2, <2>3
  <2>4. UpSent(kind, z, z, z, cli, 0, up)
    BY <1>1, <1>6, <2>1, <2>2, <2>3, <2>7 DEF UpSent
  <2>5. UpTaken(kind, z, z, z, srv, 0)
    BY <2>1, <2>2, <2>3, <2>7, <2>8 DEF UpTaken
  <2>6. Len(<<>>) = 0
    OBVIOUS
  <2> QED
    BY <1>1, <2>4, <2>5, <2>6, NoUnits DEF UpInv
<1>8. DownInv
  <2>1. Slice(DownFlow(kind), z, z) = <<>>
    BY SliceEmpty
  <2>2. DownSent(kind, z, z, srv, 0, down)
    BY <1>1, <1>3, <1>6, <2>1 DEF DownSent
  <2>3. DownTaken(kind, z, cli, 0, cut)
    BY <1>1, <1>3, <1>6 DEF DownTaken, DownUnheard
  <2>4. Len(<<>>) = 0
    OBVIOUS
  <2> QED
    BY <1>1, <2>2, <2>3, <2>4, NoUnits DEF DownInv
<1> QED
  BY <1>4, <1>5, <1>7, <1>8 DEF Inv

\* What client_encode does, case by case.
EncodedCases(c, buf, kk) ==
  /\ c.open => Encoded(c, buf, kk) = <<c, Encode(buf)>>
  /\ ~c.open /\ kind = "http" =>
       Encoded(c, buf, kk) =
         <<[c EXCEPT !.sent = TRUE, !.open = TRUE],
           Greeting(SubSeq(buf, 1, kk)) \o Encode(SubSeq(buf, kk + 1, Len(buf)))>>
  /\ ~c.open /\ kind # "http" /\ ~c.sent =>
       Encoded(c, buf, kk) =
         <<[c EXCEPT !.sent = TRUE, !.send_buffer = c.send_buffer \o buf], Greeting(<<>>)>>
  /\ ~c.open /\ kind = "tls" /\ c.sent /\ buf = <<>> =>
       Encoded(c, buf, kk) =
         <<[c EXCEPT !.open = TRUE, !.send_buffer = <<>>], Finish \o Encode(c.send_buffer)>>
  /\ ~c.open /\ kind = "random" /\ c.sent /\ c.heard =>
       Encoded(c, buf, kk) =
         <<[c EXCEPT !.open = TRUE, !.send_buffer = <<>>], Encode(c.send_buffer \o buf)>>
  /\ ~c.open /\ kind # "http" /\ c.sent /\ ~c.heard /\ buf # <<>> =>
       Encoded(c, buf, kk) = <<[c EXCEPT !.send_buffer = c.send_buffer \o buf], <<>> >>

LEMMA EncodedIs ==
  ASSUME kind \in Plugins, NEW c, NEW buf, NEW kk
  PROVE  EncodedCases(c, buf, kk)
BY DEF Plugins, EncodedCases, Encoded, EncodedTls, EncodedHttp, EncodedRandom

\* DownInv does not depend on what a client sends.
LEMMA DownKept ==
  ASSUME DownInv, cli'.heard = cli.heard, cli'.dead = cli.dead,
         cli'.recv_buffer = cli.recv_buffer,
         UNCHANGED <<kind, srv, down, givenDown, gotDown, cut>>
  PROVE  DownInv'
<1>1. PICK Q \in Nat, D \in Nat : /\ DownSent(kind, Q, D, srv, Len(givenDown), down)
                                  /\ DownTaken(kind, Q, cli, Len(gotDown), cut)
  BY DEF DownInv
<1>2. DownTaken(kind, Q, cli', Len(gotDown), cut)
  BY <1>1 DEF DownTaken, DownHeard, DownUnheard
<1> QED
  BY <1>1, <1>2 DEF DownInv

\* A client's next units are in the range of TypeOK.
LEMMA RunRange ==
  ASSUME NEW a \in Nat, NEW b \in Nat, a <= b, NEW M \in Nat, b <= M
  PROVE  Run(a, b) \in Seq(1..M) /\ Len(Run(a, b)) = b - a
<1>0. PICK n \in Nat : n = b - a
  OBVIOUS
<1>1. PICK t : t = Run(a, b)
  OBVIOUS
<1>2. t \in Seq(Nat) /\ Len(t) = n /\ \A i \in 1..n : t[i] = a + i
  <2>1. IsRun(a, b, t)
    BY <1>1, RunIs
  <2> QED
    BY <1>0, <2>1 DEF IsRun
<1>3. \A i \in 1..n : a + i \in 1..M
  BY <1>0
<1>4. \A i \in 1..n : t[i] \in 1..M
  BY <1>2, <1>3
<1>5. t \in [1..n -> 1..M]
  BY <1>2, <1>4
<1> QED
  BY <1>0, <1>1, <1>2, <1>5

\* More units, handed over.
Handing(n, j, M, N, g, u, h) ==
  g = Run(0, n) /\ n + j <= M /\ N = n + j /\ u = [i \in 1..j |-> n + i] /\ h = g \o u
Handed(n, j, M, N, u, h) ==
  /\ u = Run(n, N) /\ u \in Seq(1..M) /\ Len(u) = j
  /\ h = Run(0, N) /\ h \in Seq(1..M) /\ Len(h) = N

LEMMA MoreUnits ==
  ASSUME NEW n \in Nat, NEW j \in Nat, NEW M \in Nat, NEW N, NEW g, NEW u, NEW h,
         Handing(n, j, M, N, g, u, h)
  PROVE  Handed(n, j, M, N, u, h)
<1>0. g = Run(0, n) /\ n + j <= M /\ N = n + j /\ u = [i \in 1..j |-> n + i] /\ h = g \o u
  BY DEF Handing
<1>1. N \in Nat /\ n <= N /\ 0 <= n /\ 0 <= N /\ 0 \in Nat /\ N - n = j /\ N - 0 = N /\ N <= M
  BY <1>0
<1>2. u = Run(n, N)
  BY <1>0, NextUnits
<1>3. h = Run(0, N)
  <2>1. PICK z \in Nat : z = 0
    OBVIOUS
  <2>2. z <= n /\ N \in Nat /\ n <= N
    BY <1>1, <2>1
  <2>3. Slice(Units, z, n) \o Slice(Units, n, N) = Slice(Units, z, N)
    BY <2>2, UnitsType, SliceJoin
  <2> QED
    BY <1>0, <1>2, <2>1, <2>3 DEF Run
<1>4. Run(n, N) \in Seq(1..M) /\ Len(Run(n, N)) = N - n
  BY <1>1, RunRange
<1>5. Run(0, N) \in Seq(1..M) /\ Len(Run(0, N)) = N - 0
  BY <1>1, RunRange
<1> QED
  BY <1>1, <1>2, <1>3, <1>4, <1>5 DEF Handed

\* A stream that goes on.
SentMore(F, P, T, U, w, x, v) ==
  P <= T /\ T <= U /\ w = Slice(F, P, T) /\ x = Slice(F, T, U) /\ v = w \o x
Grown(F, P, U, v) == P <= U /\ v = Slice(F, P, U) /\ v \in Seq(Cells)

LEMMA Extends ==
  ASSUME NEW F \in [Places -> Cells], NEW P \in Nat, NEW T \in Nat, NEW U \in Nat,
         NEW w, NEW x, NEW v, SentMore(F, P, T, U, w, x, v)
  PROVE  Grown(F, P, U, v)
<1>1. P <= T /\ T <= U /\ w = Slice(F, P, T) /\ x = Slice(F, T, U) /\ v = w \o x
  BY DEF SentMore
<1>2. v = Slice(F, P, U)
  BY <1>1, SliceJoin
<1>3. P <= U
  BY <1>1
<1> QED
  BY <1>2, <1>3, SliceIsSeq DEF Sliced, Grown

\* How a client's plugin object may change when it is given n units in all.
ClientOK(c, g, n) ==
  /\ c \in Sides /\ g \in Seq(1..MaxUp) /\ Len(g) = n /\ g = Run(0, n)
  /\ KeptBack(c, g) /\ c.sent

SameHearing(c, d) ==
  d.heard = c.heard /\ d.dead = c.dead /\ d.recv_buffer = c.recv_buffer

\* What a call of client_encode leaves behind is the invariant.
LEMMA ClientEncodes ==
  ASSUME Inv, NEW n \in Nat, ClientOK(cli', givenUp', n), SameHearing(cli, cli'),
         FlagsOK(kind, cli', srv, cut),
         UNCHANGED <<kind, srv, down, gotUp, givenDown, gotDown, cut>>,
         NEW k \in Nat, NEW P \in Nat, NEW T \in Nat, up' \in Seq(Cells),
         UpSent(kind, k, P, T, cli', n, up'),
         ~srv.left /\ ~srv.dead => \E C \in Nat : UpTaken(kind, k, P, C, srv, Len(gotUp))
  PROVE  Inv'
<1>1. DownInv'
  BY DownKept DEF Inv, SameHearing
<1>2. UpInv'
  BY DEF Inv, UpInv, ClientOK
<1>3. FlagsInv'
  BY DEF Inv, FlagsInv, ClientOK
<1>4. kind # "http" => cli'.open = cli'.heard
  BY DEF FlagsOK
<1>5. cli'.send_buffer # <<>> => cli'.sent /\ ~cli'.open
  BY DEF ClientOK, KeptBack
<1>6. TypeOK'
  <2>1. cli' \in Sides /\ givenUp' \in Seq(1..MaxUp)
    BY DEF ClientOK
  <2>2. /\ kind' \in Kinds /\ srv' \in Sides /\ down' \in Seq(Cells) /\ gotUp' \in Seq(Nat)
        /\ givenDown' \in Seq(1..MaxDown) /\ gotDown' \in Seq(Nat) /\ cut' \in BOOLEAN
        /\ kind' = kind
    BY DEF Inv, TypeOK
  <2> QED
    BY <1>4, <1>5, <2>1, <2>2 DEF TypeOK
<1> QED
  BY <1>1, <1>2, <1>3, <1>6 DEF Inv

\* ClientSend: one case for each of client_encode's.
LEMMA ClientSendInv ==
  ASSUME Inv, NEW j \in Nat \ {0}, ClientSend(j)
  PROVE  Inv'
<1>1. PICK n \in Nat : n = Len(givenUp)
  BY Known
<1>2. PICK buf : buf = [i \in 1..j |-> n + i]
  OBVIOUS
<1>3. PICK kk \in 1..j : /\ cli' = Encoded(cli, buf, kk)[1]
                         /\ up' = up \o Encoded(cli, buf, kk)[2]
                         /\ givenUp' = givenUp \o buf
                         /\ kk < j => kind = "http" /\ ~cli.open
  BY <1>1, <1>2 DEF ClientSend
<1>4. UNCHANGED <<kind, srv, down, gotUp, givenDown, gotDown, cut>> /\ n + j <= MaxUp /\ ~cli.dead
  BY <1>1 DEF ClientSend
<1>5. PICK N \in Nat : N = n + j
  OBVIOUS
<1>6. /\ buf = Run(n, N) /\ buf \in Seq(1..MaxUp) /\ Len(buf) = j
      /\ givenUp' = Run(0, N) /\ givenUp' \in Seq(1..MaxUp) /\ Len(givenUp') = N
  <2>1. givenUp = Run(0, n) /\ MaxUp \in Nat
    BY <1>1, ObfsAssumption DEF Inv, UpInv
  <2> QED
    <3>1. PICK h : h = givenUp \o buf
      OBVIOUS
    <3>2. PICK M \in Nat : M = MaxUp
      BY <2>1
    <3>3. n + j <= M /\ j \in Nat
      BY <1>4, <3>2
    <3>4. Handing(n, j, M, N, givenUp, buf, h)
      BY <1>2, <1>5, <2>1, <3>1, <3>3 DEF Handing
    <3>5. Handed(n, j, M, N, buf, h)
      BY <3>3, <3>4, MoreUnits
    <3> QED
      BY <1>3, <3>1, <3>2, <3>5 DEF Handed
<1>7. kind \in Plugins /\ cli \in Sides /\ givenUp \in Seq(1..MaxUp) /\ givenUp = Run(0, n)
  BY <1>1, Known DEF Inv, UpInv, TypeOK
<1>8. FlagsOK(kind, cli, srv, cut) /\ KeptBack(cli, givenUp) /\ (~cli.sent => n = 0)
  BY <1>1 DEF Inv, FlagsInv
<1>9. PICK k \in Nat, P \in Nat, T \in Nat :
        /\ UpSent(kind, k, P, T, cli, n, up)
        /\ ~srv.left /\ ~srv.dead => \E C \in Nat : UpTaken(kind, k, P, C, srv, Len(gotUp))
  BY <1>1 DEF Inv, UpInv
<1>10. EncodedCases(cli, buf, kk)
  BY <1>7, EncodedIs
<1>11. n <= N /\ N = n + j
  BY <1>5
<1>12. CASE cli.open
  <2>1. cli' = cli /\ up' = up \o Encode(buf)
    BY <1>3, <1>10, <1>12 DEF EncodedCases
  <2>2. cli.sent /\ cli.send_buffer = <<>>
    BY <1>8, <1>12 DEF FlagsOK, KeptBack
  <2>3. ClientOK(cli', givenUp', N)
    BY <1>6, <1>7, <1>12, <2>1, <2>2 DEF ClientOK, KeptBack
  <2>4. SameHearing(cli, cli')
    BY <2>1 DEF SameHearing
  <2>5. k <= n /\ T = At(UpLen(kind), kind = "tls", k, n) /\ P <= T
        /\ up = Slice(UpFlow(kind, k), P, T) /\ (kind # "http" => k = 0)
    BY <1>9, <1>12, <2>2 DEF UpSent, Reached
  <2>6. PICK U : U = At(UpLen(kind), kind = "tls", k, N)
    OBVIOUS
  <2>7. U \in Nat /\ T <= U
    BY <1>11, <2>5, <2>6, UpAhead DEF Ahead
  <2>8. Encode(buf) = Slice(UpFlow(kind, k), T, U)
    BY <1>6, <1>7, <1>11, <2>5, <2>6, EncodeUp DEF EncodesUp
  <2>9. up' = Slice(UpFlow(kind, k), P, U) /\ up' \in Seq(Cells)
    <3>1. PICK x, v : x = Encode(buf) /\ v = up \o x
      OBVIOUS
    <3>2. SentMore(UpFlow(kind, k), P, T, U, up, x, v)
      BY <2>5, <2>7, <2>8, <3>1 DEF SentMore
    <3>3. Grown(UpFlow(kind, k), P, U, v)
      BY <1>7, <2>7, <3>2, FlowsType, Extends DEF Flows
    <3> QED
      BY <2>1, <3>1, <3>3 DEF Grown
  <2>10. k <= N /\ P <= U
    BY <1>11, <2>5, <2>7
  <2>11. UpSent(kind, k, P, U, cli', N, up')
    BY <1>12, <2>1, <2>2, <2>5, <2>6, <2>9, <2>10 DEF UpSent, Reached
  <2> QED
    BY <1>4, <1>8, <1>9, <2>1, <2>3, <2>4, <2>7, <2>9, <2>11, ClientEncodes
<1>13. CASE ~cli.open /\ kind # "http" /\ ~cli.sent
  <2>1. /\ cli' = [cli EXCEPT !.sent = TRUE, !.send_buffer = cli.send_buffer \o buf]
        /\ up' = up \o Greeting(<<>>)
    BY <1>3, <1>10, <1>13 DEF EncodedCases
  <2>2. cli.send_buffer = givenUp
    BY <1>8, <1>13 DEF KeptBack
  <2>3. cli.send_buffer \o buf = givenUp'
    BY <1>3, <2>2
  <2>4. /\ cli' \in Sides /\ cli'.sent /\ cli'.send_buffer = givenUp'
        /\ cli'.open = cli.open /\ cli'.heard = cli.heard /\ cli'.dead = cli.dead
        /\ cli'.recv_buffer = cli.recv_buffer
    BY <1>6, <1>7, <2>1, <2>3 DEF Sides
  <2>5. ClientOK(cli', givenUp', N)
    BY <1>6, <1>13, <2>4 DEF ClientOK, KeptBack
  <2>6. SameHearing(cli, cli')
    BY <2>4 DEF SameHearing
  <2>7. FlagsOK(kind, cli', srv, cut)
    BY <1>8, <1>13, <2>4 DEF FlagsOK
  <2>8. T = 0 /\ P <= T /\ up = Slice(UpFlow(kind, k), P, T) /\ k = 0
    BY <1>9, <1>13 DEF UpSent, Reached
  <2>9. PICK U \in Nat : U = 2
    OBVIOUS
  <2>10. T <= U /\ P <= U /\ k <= N
    BY <2>8, <2>9
  <2>11. Greeting(<<>>) = Slice(UpFlow(kind, k), T, U)
    BY <1>7, <1>13, <2>8, <2>9, GreetingIs
  <2>12. up' = Slice(UpFlow(kind, k), P, U) /\ up' \in Seq(Cells)
    <3>1. PICK x, v : x = Greeting(<<>>) /\ v = up \o x
      OBVIOUS
    <3>2. SentMore(UpFlow(kind, k), P, T, U, up, x, v)
      BY <2>8, <2>10, <2>11, <3>1 DEF SentMore
    <3>3. Grown(UpFlow(kind, k), P, U, v)
      BY <1>7, <3>2, FlowsType, Extends DEF Flows
    <3> QED
      BY <2>1, <3>1, <3>3 DEF Grown
  <2>13. Reached(kind, k, cli'.sent, cli'.open, N) = U
    BY <1>13, <2>4, <2>9 DEF Reached
  <2>14. UpSent(kind, k, P, U, cli', N, up')
    BY <2>8, <2>10, <2>12, <2>13 DEF UpSent
  <2> QED
    BY <1>4, <1>9, <2>5, <2>6, <2>7, <2>12, <2>14, ClientEncodes
<1>14. CASE ~cli.open /\ kind # "http" /\ cli.sent
  <2>1. ~cli.heard /\ buf # <<>>
    <3>1. ~cli.heard
      BY <1>8, <1>14 DEF FlagsOK
    <3>2. j # 0
      OBVIOUS
    <3> QED
      BY <1>6, <3>1, <3>2
  <2>2. /\ cli' = [cli EXCEPT !.send_buffer = cli.send_buffer \o buf]
        /\ up' = up \o <<>>
    <3>1. PICK x, y : x = [cli EXCEPT !.send_buffer = cli.send_buffer \o buf] /\ y = <<>>
      OBVIOUS
    <3>2. Encoded(cli, buf, kk) = <<x, y>>
      BY <1>10, <1>14, <2>1, <3>1 DEF EncodedCases
    <3> QED
      BY <1>3, <3>1, <3>2
  <2>3. cli.send_buffer = givenUp
    BY <1>8, <1>14 DEF KeptBack
  <2>4. cli.send_buffer \o buf = givenUp'
    BY <1>3, <2>3
  <2>5. /\ cli' \in Sides /\ cli'.sent = cli.sent /\ cli'.send_buffer = givenUp'
        /\ cli'.open = cli.open /\ cli'.heard = cli.heard /\ cli'.dead = cli.dead
        /\ cli'.recv_buffer = cli.recv_buffer
    BY <1>6, <1>7, <2>2, <2>4 DEF Sides
  <2>6. ClientOK(cli', givenUp', N)
    BY <1>6, <1>14, <2>5 DEF ClientOK, KeptBack
  <2>7. SameHearing(cli, cli')
    BY <2>5 DEF SameHearing
  <2>8. FlagsOK(kind, cli', srv, cut)
    BY <1>8, <2>5 DEF FlagsOK
  <2>9. up \in Seq(Cells) /\ up' = up
    <3>1. up \in Seq(Cells)
      BY DEF Inv, TypeOK
    <3> QED
      BY <2>2, <3>1
  <2>10. k <= n /\ T = 2 /\ P <= T /\ up = Slice(UpFlow(kind, k), P, T) /\ k = 0
    BY <1>9, <1>14 DEF UpSent, Reached
  <2>11. k <= N
    BY <2>10
  <2>12. Reached(kind, k, cli'.sent, cli'.open, N) = T
    BY <1>14, <2>5, <2>10 DEF Reached
  <2>13. UpSent(kind, k, P, T, cli', N, up')
    BY <2>9, <2>10, <2>11, <2>12 DEF UpSent
  <2> QED
    BY <1>4, <1>9, <2>6, <2>7, <2>8, <2>9, <2>13, ClientEncodes
<1>15. CASE ~cli.open /\ kind = "http"
  <2>1. ~cli.sent /\ ~srv.heard /\ ~srv.open /\ ~srv.sent /\ n = 0
    BY <1>8, <1>15 DEF FlagsOK
  <2>2. /\ cli' = [cli EXCEPT !.sent = TRUE, !.open = TRUE]
        /\ up' = up \o (Greeting(SubSeq(buf, 1, kk)) \o Encode(SubSeq(buf, kk + 1, Len(buf))))
    <3>1. PICK x, y : /\ x = [cli EXCEPT !.sent = TRUE, !.open = TRUE]
                      /\ y = Greeting(SubSeq(buf, 1, kk)) \o Encode(SubSeq(buf, kk + 1, Len(buf)))
      OBVIOUS
    <3>2. Encoded(cli, buf, kk) = <<x, y>>
      BY <1>10, <1>15, <3>1 DEF EncodedCases
    <3>3. <<x, y>>[1] = x /\ <<x, y>>[2] = y
      OBVIOUS
    <3>4. cli' = x /\ up' = up \o y
      BY <1>3, <3>2, <3>3
    <3> QED
      BY <3>1, <3>4
  <2>3. givenUp = <<>>
    BY <1>1, <1>7, <2>1
  <2>4. cli.send_buffer = <<>>
    BY <1>8, <1>15, <2>3 DEF KeptBack
  <2>5. /\ cli' \in Sides /\ cli'.sent /\ cli'.open /\ cli'.send_buffer = <<>>
        /\ cli'.heard = cli.heard /\ cli'.dead = cli.dead /\ cli'.recv_buffer = cli.recv_buffer
    BY <1>7, <2>2, <2>4 DEF Sides
  <2>6. ClientOK(cli', givenUp', N)
    BY <1>6, <2>5 DEF ClientOK, KeptBack
  <2>7. SameHearing(cli, cli')
    BY <2>5 DEF SameHearing
  <2>8. FlagsOK(kind, cli', srv, cut)
    BY <1>8, <1>15, <2>5 DEF FlagsOK
  <2>9. N = j /\ kk \in Nat /\ kk <= N /\ 0 <= N
    BY <1>11, <2>1
  <2>10. SubSeq(buf, 1, kk) = Run(0, kk) /\ SubSeq(buf, kk + 1, Len(buf)) = Run(kk, N)
    <3>1. PICK z \in Nat : z = 0
      OBVIOUS
    <3>2. z <= N /\ kk <= N - z /\ z + kk = kk /\ N - z = N
      BY <2>9, <3>1
    <3>3. CutAt(Units, z, N, kk)
      BY <2>9, <3>2, UnitsType, SliceCut
    <3>4. buf = Slice(Units, z, N) /\ Len(buf) = N
      BY <1>6, <2>1, <2>9, <3>1 DEF Run
    <3> QED
      BY <3>1, <3>2, <3>3, <3>4 DEF CutAt, Run
  <2>11. PICK U : U = At(UpLen(kind), kind = "tls", kk, N)
    OBVIOUS
  <2>12. PICK V \in Nat, Z \in Nat : V = 2 /\ Z = 0
    OBVIOUS
  <2>13. V = At(UpLen(kind), kind = "tls", kk, kk)
    BY <1>15, <2>9, <2>12 DEF At, UpLen
  <2>14. U \in Nat /\ V <= U
    BY <2>9, <2>11, <2>13, UpAhead DEF Ahead
  <2>15. Greeting(Run(0, kk)) = Slice(UpFlow(kind, kk), Z, V)
    BY <1>7, <2>9, <2>12, GreetingIs
  <2>16. Encode(Run(kk, N)) = Slice(UpFlow(kind, kk), V, U)
    BY <1>7, <2>9, <2>11, <2>13, EncodeUp DEF EncodesUp
  <2>17. Z <= V
    BY <2>12
  <2>28. PICK x, y : x = Greeting(Run(0, kk)) /\ y = Encode(Run(kk, N))
    OBVIOUS
  <2>18. PICK w : w = x \o y
    OBVIOUS
  <2>19. w = Slice(UpFlow(kind, kk), Z, U) /\ w \in Seq(Cells)
    <3>1. SentMore(UpFlow(kind, kk), Z, V, U, x, y, w)
      BY <2>14, <2>15, <2>16, <2>17, <2>18, <2>28 DEF SentMore
    <3>2. Grown(UpFlow(kind, kk), Z, U, w)
      BY <1>7, <2>9, <2>14, <3>1, FlowsType, Extends DEF Flows
    <3> QED
      BY <3>2 DEF Grown
  <2>20. T = 0 /\ P <= T /\ up = Slice(UpFlow(kind, k), P, T)
    BY <1>9, <2>1 DEF UpSent, Reached
  <2>21. P = Z /\ T = Z /\ Z <= U
    BY <2>12, <2>14, <2>20
  <2>22. up = <<>>
    BY <2>20, <2>21, SliceEmpty
  <2>23. up' = w
    <3>1. up' = up \o w
      BY <2>2, <2>10, <2>18, <2>28
    <3> QED
      BY <2>19, <2>22, <3>1
  <2>24. Reached(kind, kk, cli'.sent, cli'.open, N) = U
    BY <2>5, <2>11 DEF Reached
  <2>25. UpSent(kind, kk, Z, U, cli', N, up')
    BY <1>15, <2>9, <2>19, <2>21, <2>23, <2>24 DEF UpSent
  <2>26. ~srv.left /\ ~srv.dead => \E C \in Nat : UpTaken(kind, kk, Z, C, srv, Len(gotUp))
    <3> HAVE ~srv.left /\ ~srv.dead
    <3>1. PICK C \in Nat : UpTaken(kind, k, P, C, srv, Len(gotUp))
      BY <1>9
    <3>2. C = 0 /\ P - C < Limit(kind, srv.heard, srv.open) /\ Len(gotUp) = 0
          /\ srv.recv_buffer = Slice(UpFlow(kind, k), C, P)
      BY <2>1, <3>1 DEF UpTaken, Reached
    <3>3. C = Z /\ P = Z /\ Z <= Z
      BY <2>12, <2>21, <3>2
    <3>4. Slice(UpFlow(kind, k), Z, Z) = <<>> /\ Slice(UpFlow(kind, kk), Z, Z) = <<>>
      BY SliceEmpty
    <3>5. Z = Reached(kind, kk, srv.heard, srv.open, Len(gotUp))
      BY <2>1, <2>12 DEF Reached
    <3>6. UpTaken(kind, kk, Z, Z, srv, Len(gotUp))
      BY <2>1, <3>2, <3>3, <3>4, <3>5 DEF UpTaken
    <3> QED
      BY <3>6
  <2>27. up' \in Seq(Cells)
    BY <2>19, <2>23
  <2> QED
    BY <1>4, <2>6, <2>7, <2>8, <2>9, <2>14, <2>25, <2>26, <2>27, ClientEncodes
<1> QED
  BY <1>12, <1>13, <1>14, <1>15

-----------------------------------------------------------------------------
(* The invariant: when a server sends.                                       *)

\* The places of a server's units.
DownPlaces(kd, a, b) ==
  /\ At(DownLen(kd), kd = "tls", 0, a) \in Nat /\ At(DownLen(kd), kd = "tls", 0, b) \in Nat
  /\ DownLen(kd) <= At(DownLen(kd), kd = "tls", 0, a)
  /\ At(DownLen(kd), kd = "tls", 0, a) <= At(DownLen(kd), kd = "tls", 0, b)

LEMMA DownAhead ==
  ASSUME NEW kd, NEW a \in Nat, NEW b \in Nat, a <= b
  PROVE  DownPlaces(kd, a, b)
<1>0. DownLen(kd) \in Nat
  BY DEF DownLen
<1>1. PICK L \in Nat, t \in BOOLEAN, z \in Nat : L = DownLen(kd) /\ t = (kd = "tls") /\ z = 0
  BY <1>0
<1>2. z <= a
  BY <1>1
<1>3. /\ At(L, t, z, a) \in Nat /\ At(L, t, z, b) \in Nat
      /\ L <= At(L, t, z, a) /\ At(L, t, z, a) <= At(L, t, z, b)
  BY <1>2, AtGrows
<1> QED
  BY <1>1, <1>3 DEF DownPlaces

LEMMA DownType ==
  ASSUME kind \in Plugins
  PROVE  DownFlow(kind) \in [Places -> Cells]
<1>1. PICK k \in Nat : k = 0
  OBVIOUS
<1> QED
  BY <1>1, FlowsType DEF Flows

\* A server's plugin object that differs in "sent" only.
SameTaking(s, r) ==
  /\ r.heard = s.heard /\ r.open = s.open /\ r.left = s.left /\ r.dead = s.dead
  /\ r.recv_buffer = s.recv_buffer

LEMMA TakingKept ==
  ASSUME NEW kd, NEW k, NEW P, NEW C, NEW s, NEW r, NEW m, SameTaking(s, r),
         UpTaken(kd, k, P, C, s, m)
  PROVE  UpTaken(kd, k, P, C, r, m)
BY DEF UpTaken, SameTaking

LEMMA ServerSendInv ==
  ASSUME Inv, NEW j \in Nat \ {0}, ServerSend(j)
  PROVE  Inv'
<1>1. PICK n \in Nat : n = Len(givenDown)
  BY Known
<1>2. PICK buf : buf = [i \in 1..j |-> n + i]
  OBVIOUS
<1>3. PICK x, y : x = (IF srv.sent THEN <<>> ELSE Reply) /\ y = Encode(buf)
  OBVIOUS
<1>4. /\ ~srv.dead /\ ~srv.left /\ gotUp # <<>> /\ n + j <= MaxDown
      /\ down' = (down \o x) \o y /\ givenDown' = givenDown \o buf
      /\ srv' = [srv EXCEPT !.sent = TRUE]
      /\ UNCHANGED <<kind, cli, up, givenUp, gotUp, gotDown, cut>>
  BY <1>1, <1>2, <1>3 DEF ServerSend
<1>5. PICK N \in Nat : N = n + j
  OBVIOUS
<1>6. /\ buf = Run(n, N) /\ buf \in Seq(1..MaxDown) /\ Len(buf) = j
      /\ givenDown' = Run(0, N) /\ givenDown' \in Seq(1..MaxDown) /\ Len(givenDown') = N
  <2>1. PICK M \in Nat : M = MaxDown
    BY ObfsAssumption
  <2>2. givenDown = Run(0, n)
    BY <1>1 DEF Inv, DownInv
  <2>3. PICK h : h = givenDown \o buf
    OBVIOUS
  <2>4. n + j <= M
    BY <1>4, <2>1
  <2>5. Handing(n, j, M, N, givenDown, buf, h)
    BY <1>2, <1>5, <2>2, <2>3, <2>4 DEF Handing
  <2>6. Handed(n, j, M, N, buf, h)
    BY <2>5, MoreUnits
  <2> QED
    BY <1>4, <2>1, <2>3, <2>6 DEF Handed
<1>7. kind \in Plugins /\ cli \in Sides /\ srv \in Sides /\ n <= N /\ gotUp \in Seq(Nat)
      /\ down \in Seq(Cells)
  BY <1>5, Known DEF Inv, TypeOK
<1>8. FlagsOK(kind, cli, srv, cut) /\ (~srv.sent => n = 0)
  BY <1>1 DEF Inv, FlagsInv
<1>9. PICK k \in Nat, P \in Nat, T \in Nat, C \in Nat :
        /\ UpSent(kind, k, P, T, cli, Len(givenUp), up)
        /\ UpTaken(kind, k, P, C, srv, Len(gotUp))
  BY <1>4 DEF Inv, UpInv
<1>10. Len(gotUp) # 0
  BY <1>4, <1>7
<1>11. srv.open /\ srv.heard
  BY <1>8, <1>9, <1>10 DEF UpTaken, FlagsOK
<1>12. srv' \in Sides /\ srv'.sent /\ SameTaking(srv, srv')
  BY <1>4, <1>7 DEF Sides, SameTaking
<1>13. FlagsOK(kind, cli, srv', cut)
  BY <1>8, <1>11, <1>12 DEF FlagsOK, SameTaking
<1>14. FlagsInv'
  BY <1>4, <1>12, <1>13 DEF Inv, FlagsInv, SameTaking
<1>15. UpInv'
  <2>1. UpTaken(kind, k, P, C, srv', Len(gotUp))
    BY <1>9, <1>12, TakingKept
  <2> QED
    BY <1>4, <1>9, <2>1 DEF Inv, UpInv
<1>16. PICK Q \in Nat, D \in Nat : /\ DownSent(kind, Q, D, srv, n, down)
                                   /\ DownTaken(kind, Q, cli, Len(gotDown), cut)
  BY <1>1 DEF Inv, DownInv
<1>17. PICK V, U : V = At(DownLen(kind), kind = "tls", 0, n) /\ U = At(DownLen(kind), kind = "tls", 0, N)
  OBVIOUS
<1>18. V \in Nat /\ U \in Nat /\ DownLen(kind) <= V /\ V <= U
  BY <1>7, <1>17, DownAhead DEF DownPlaces
<1>19. Grown(DownFlow(kind), Q, V, down \o x)
  <2>1. CASE srv.sent
    <3>1. D = V /\ Q <= V /\ down = Slice(DownFlow(kind), Q, V) /\ x = <<>>
      BY <1>3, <1>16, <1>17, <2>1 DEF DownSent
    <3>2. down \o x = down
      BY <1>7, <3>1
    <3> QED
      BY <1>7, <3>1, <3>2 DEF Grown
  <2>2. CASE ~srv.sent
    <3>1. D = 0 /\ Q <= D /\ down = Slice(DownFlow(kind), Q, D) /\ x = Reply /\ n = 0
      BY <1>3, <1>8, <1>16, <2>2 DEF DownSent
    <3>2. V = DownLen(kind)
      BY <1>17, <3>1 DEF At, DownLen
    <3>3. x = Slice(DownFlow(kind), D, V)
      BY <1>7, <3>1, <3>2, ReplyIs
    <3>4. D <= V
      BY <1>18, <3>1
    <3>5. PICK v : v = down \o x
      OBVIOUS
    <3>6. SentMore(DownFlow(kind), Q, D, V, down, x, v)
      BY <3>1, <3>3, <3>4, <3>5 DEF SentMore
    <3>7. Grown(DownFlow(kind), Q, V, v)
      BY <1>7, <1>18, <3>6, DownType, Extends
    <3> QED
      BY <3>5, <3>7
  <2> QED
    BY <2>1, <2>2
<1>20. Grown(DownFlow(kind), Q, U, down')
  <2>1. PICK w, v : w = down \o x /\ v = w \o y
    OBVIOUS
  <2>2. y = Slice(DownFlow(kind), V, U)
    BY <1>3, <1>6, <1>7, <1>17, EncodeDown DEF EncodesDown
  <2>3. SentMore(DownFlow(kind), Q, V, U, w, y, v)
    BY <1>18, <1>19, <2>1, <2>2 DEF Grown, SentMore
  <2>4. Grown(DownFlow(kind), Q, U, v)
    BY <1>7, <1>18, <2>3, DownType, Extends
  <2> QED
    BY <1>4, <2>1, <2>4
<1>21. DownSent(kind, Q, U, srv', N, down')
  BY <1>12, <1>17, <1>20 DEF DownSent, Grown
<1>22. DownInv'
  BY <1>4, <1>6, <1>16, <1>18, <1>21 DEF Inv, DownInv
<1>23. TypeOK'
  <2>1. down' \in Seq(Cells)
    BY <1>20 DEF Grown
  <2> QED
    BY <1>4, <1>6, <1>12, <2>1 DEF Inv, TypeOK
<1> QED
  BY <1>14, <1>15, <1>22, <1>23 DEF Inv

-----------------------------------------------------------------------------
(* The invariant: when a server receives.                                    *)

\* The first units are a sequence.
LEMMA RunType ==
  ASSUME NEW m \in Nat
  PROVE  Run(0, m) \in Seq(Nat) /\ Len(Run(0, m)) = m
<1>1. PICK t : t = Run(0, m)
  OBVIOUS
<1>2. IsRun(0, m, t)
  BY <1>1, RunIs
<1>3. m - 0 = m
  OBVIOUS
<1> QED
  BY <1>1, <1>2, <1>3 DEF IsRun

\* What a call of server_decode leaves behind is the invariant.
LEMMA ServerTakes ==
  ASSUME Inv, NEW k \in Nat, NEW R \in Nat, NEW T \in Nat, NEW m \in Nat,
         UpSent(kind, k, R, T, cli, Len(givenUp), up'), up' \in Seq(Cells),
         srv' \in Sides, FlagsOK(kind, cli, srv', cut'), cut' \in BOOLEAN,
         ~srv'.sent => Len(givenDown) = 0,
         gotUp' = Run(0, m), srv'.left \/ srv'.dead => m = 0,
         ~srv'.left /\ ~srv'.dead => \E C \in Nat : UpTaken(kind, k, R, C, srv', m),
         DownInv', down' \in Seq(Cells),
         UNCHANGED <<kind, cli, givenUp, givenDown, gotDown>>
  PROVE  Inv'
<1>1. gotUp' \in Seq(Nat) /\ Len(gotUp') = m
  BY RunType
<1>2. TypeOK'
  BY <1>1 DEF Inv, TypeOK
<1>3. FlagsInv'
  BY <1>1 DEF Inv, FlagsInv
<1>4. UpInv'
  BY <1>1 DEF Inv, UpInv
<1> QED
  BY <1>2, <1>3, <1>4 DEF Inv

\* The other direction, if the server does not answer, and if it does.
LEMMA DownSame ==
  ASSUME Inv, cut => cut', srv'.sent = srv.sent,
         UNCHANGED <<kind, cli, down, givenDown, gotDown>>
  PROVE  DownInv'
<1>1. PICK Q \in Nat, D \in Nat : /\ DownSent(kind, Q, D, srv, Len(givenDown), down)
                                  /\ DownTaken(kind, Q, cli, Len(gotDown), cut)
  BY DEF Inv, DownInv
<1>2. DownTaken(kind, Q, cli, Len(gotDown), cut')
  BY <1>1 DEF DownTaken, DownUnheard
<1>3. DownSent(kind, Q, D, srv', Len(givenDown), down)
  BY <1>1 DEF DownSent
<1> QED
  BY <1>1, <1>2, <1>3 DEF Inv, DownInv

LEMMA DownAnswer ==
  ASSUME Inv, cut => cut', ~srv.sent, srv'.sent, down' = down \o Reply,
         UNCHANGED <<kind, cli, givenDown, gotDown>>
  PROVE  DownInv' /\ down' \in Seq(Cells)
<1>1. PICK Q \in Nat, D \in Nat : /\ DownSent(kind, Q, D, srv, Len(givenDown), down)
                                  /\ DownTaken(kind, Q, cli, Len(gotDown), cut)
  BY DEF Inv, DownInv
<1>2. DownTaken(kind, Q, cli, Len(gotDown), cut')
  BY <1>1 DEF DownTaken, DownUnheard
<1>3. kind \in Plugins /\ Len(givenDown) = 0
  BY Known DEF Inv, FlagsInv
<1>4. PICK V \in Nat : V = DownLen(kind)
  BY DEF DownLen
<1>5. D = 0 /\ Q <= D /\ down = Slice(DownFlow(kind), Q, D)
  BY <1>1 DEF DownSent
<1>6. V = At(DownLen(kind), kind = "tls", 0, 0)
  BY <1>4 DEF At
<1>7. PICK x, v : x = Reply /\ v = down \o x
  OBVIOUS
<1>8. D <= V
  BY <1>5
<1>9. x = Slice(DownFlow(kind), D, V)
  BY <1>3, <1>4, <1>5, <1>7, ReplyIs
<1>10. SentMore(DownFlow(kind), Q, D, V, down, x, v)
  BY <1>5, <1>7, <1>8, <1>9 DEF SentMore
<1>11. Grown(DownFlow(kind), Q, V, v)
  BY <1>3, <1>10, DownType, Extends
<1>12. Grown(DownFlow(kind), Q, V, down')
  BY <1>7, <1>11
<1>13. DownSent(kind, Q, V, srv', Len(givenDown), down')
  BY <1>3, <1>6, <1>12 DEF DownSent, Grown
<1> QED
  BY <1>1, <1>2, <1>12, <1>13 DEF Inv, DownInv, Grown

\* What has come to a server: the cells up to R.
Came(k, P, T, R, j) ==
  /\ k \in Nat /\ P \in Nat /\ T \in Nat /\ R \in Nat /\ R = P + j /\ R <= T
  /\ SubSeq(up, 1, j) = Slice(UpFlow(kind, k), P, R)
  /\ SubSeq(up, j + 1, Len(up)) = Slice(UpFlow(kind, k), R, T)
  /\ UpSent(kind, k, P, T, cli, Len(givenUp), up)
  /\ UpSent(kind, k, R, T, cli, Len(givenUp), SubSeq(up, j + 1, Len(up)))
  /\ SubSeq(up, j + 1, Len(up)) \in Seq(Cells)

CameFrom(k, P, R, C, j) ==
  /\ C \in Nat /\ C <= R /\ UpTaken(kind, k, P, C, srv, Len(gotUp))
  /\ srv.recv_buffer \o SubSeq(up, 1, j) = Slice(UpFlow(kind, k), C, R)

LEMMA Comes ==
  ASSUME Inv, NEW j \in 1..Len(up)
  PROVE  \E k, P, T, R : /\ Came(k, P, T, R, j)
                         /\ ~srv.left /\ ~srv.dead => \E C : CameFrom(k, P, R, C, j)
<1>1. PICK k \in Nat, P \in Nat, T \in Nat :
        /\ UpSent(kind, k, P, T, cli, Len(givenUp), up)
        /\ ~srv.left /\ ~srv.dead => \E C \in Nat : UpTaken(kind, k, P, C, srv, Len(gotUp))
  BY DEF Inv, UpInv
<1>2. kind \in Plugins
  BY Known
<1>3. PICK E : E = UpFlow(kind, k)
  OBVIOUS
<1>4. E \in [Places -> Cells]
  BY <1>2, <1>3, FlowsType DEF Flows
<1>5. P <= T /\ up = Slice(E, P, T)
  BY <1>1, <1>3 DEF UpSent
<1>6. Sliced(Cells, E, P, T, up)
  BY <1>4, <1>5, SliceIsSeq
<1>7. Len(up) = T - P
  BY <1>6 DEF Sliced
<1>8. PICK R \in Nat : R = P + j
  BY <1>7
<1>9. R <= T /\ j \in Nat /\ j <= T - P /\ P <= R
  BY <1>7, <1>8
<1>10. CutAt(E, P, T, j)
  BY <1>4, <1>5, <1>9, SliceCut
<1>11. SubSeq(up, 1, j) = Slice(E, P, R) /\ SubSeq(up, j + 1, Len(up)) = Slice(E, R, T)
  BY <1>5, <1>7, <1>8, <1>10 DEF CutAt
<1>12. Sliced(Cells, E, R, T, Slice(E, R, T))
  BY <1>4, <1>9, SliceIsSeq
<1>13. UpSent(kind, k, R, T, cli, Len(givenUp), SubSeq(up, j + 1, Len(up)))
  BY <1>1, <1>3, <1>9, <1>11 DEF UpSent
<1>14. Came(k, P, T, R, j)
  BY <1>1, <1>3, <1>8, <1>9, <1>11, <1>12, <1>13 DEF Came, Sliced
<1>15. ASSUME ~srv.left /\ ~srv.dead PROVE \E C : CameFrom(k, P, R, C, j)
  <2>1. PICK C \in Nat : UpTaken(kind, k, P, C, srv, Len(gotUp))
    BY <1>1, <1>15
  <2>2. C <= P /\ srv.recv_buffer = Slice(E, C, P)
    BY <1>3, <2>1 DEF UpTaken
  <2>3. PICK w, x, v : w = srv.recv_buffer /\ x = SubSeq(up, 1, j) /\ v = w \o x
    OBVIOUS
  <2>4. SentMore(E, C, P, R, w, x, v)
    BY <1>9, <1>11, <2>2, <2>3 DEF SentMore
  <2>5. Grown(E, C, R, v)
    BY <1>4, <2>4, Extends
  <2>6. CameFrom(k, P, R, C, j)
    BY <1>3, <2>1, <2>3, <2>5 DEF CameFrom, Grown
  <2> QED
    BY <2>6
<1> QED
  BY <1>14, <1>15

\* A server that still takes part receives j cells; b is what it has then.
Receives(k, P, T, R, C, j, b) ==
  /\ Came(k, P, T, R, j) /\ CameFrom(k, P, R, C, j) /\ ~srv.left /\ ~srv.dead
  /\ b = srv.recv_buffer \o SubSeq(up, 1, j)
  /\ up' = SubSeq(up, j + 1, Len(up))
  /\ UNCHANGED <<kind, cli, givenUp, givenDown, gotDown>>

ServerFacts(k, P, T, R, C, b) ==
  /\ k \in Nat /\ P \in Nat /\ T \in Nat /\ R \in Nat /\ C \in Nat /\ C <= R /\ R <= T
  /\ kind \in Plugins /\ srv \in Sides /\ FlagsOK(kind, cli, srv, cut) /\ cut \in BOOLEAN
  /\ b = Slice(UpFlow(kind, k), C, R) /\ b \in Seq(Cells) /\ Len(b) = R - C
  /\ UpFlow(kind, k) \in [Places -> Cells]
  /\ UpSent(kind, k, R, T, cli, Len(givenUp), up') /\ up' \in Seq(Cells)
  /\ UpTaken(kind, k, P, C, srv, Len(gotUp))
  /\ Len(gotUp) \in Nat /\ gotUp = Run(0, Len(gotUp)) /\ down \in Seq(Cells)
  /\ ~srv.sent => Len(givenDown) = 0

LEMMA ServerKnown ==
  ASSUME Inv, NEW k, NEW P, NEW T, NEW R, NEW C, NEW j, NEW b, Receives(k, P, T, R, C, j, b)
  PROVE  ServerFacts(k, P, T, R, C, b)
<1>1. /\ k \in Nat /\ P \in Nat /\ T \in Nat /\ R \in Nat /\ C \in Nat /\ C <= R /\ R <= T
      /\ UpSent(kind, k, R, T, cli, Len(givenUp), up') /\ up' \in Seq(Cells)
      /\ UpTaken(kind, k, P, C, srv, Len(gotUp)) /\ b = Slice(UpFlow(kind, k), C, R)
  BY DEF Receives, Came, CameFrom
<1>2. kind \in Plugins /\ srv \in Sides /\ cut \in BOOLEAN /\ Len(gotUp) \in Nat
  BY Known
<1>3. /\ FlagsOK(kind, cli, srv, cut) /\ gotUp = Run(0, Len(gotUp)) /\ down \in Seq(Cells)
      /\ ~srv.sent => Len(givenDown) = 0
  BY DEF Inv, FlagsInv, UpInv, TypeOK
<1>4. UpFlow(kind, k) \in [Places -> Cells]
  BY <1>1, <1>2, FlowsType DEF Flows
<1>5. Sliced(Cells, UpFlow(kind, k), C, R, b)
  BY <1>1, <1>4, SliceIsSeq
<1> QED
  BY <1>1, <1>2, <1>3, <1>4, <1>5 DEF ServerFacts, Sliced

\* It waits for the rest of a message.
LEMMA ServerWaits ==
  ASSUME Inv, NEW k, NEW P, NEW T, NEW R, NEW C, NEW j, NEW b, Receives(k, P, T, R, C, j, b),
         srv' = [srv EXCEPT !.recv_buffer = b], UNCHANGED <<gotUp, down, cut>>,
         Len(b) < Limit(kind, srv.heard, srv.open)
  PROVE  Inv'
<1>1. ServerFacts(k, P, T, R, C, b)
  BY ServerKnown
<1>2. /\ srv' \in Sides /\ srv'.recv_buffer = b /\ srv'.sent = srv.sent
      /\ srv'.heard = srv.heard /\ srv'.open = srv.open
      /\ srv'.left = srv.left /\ srv'.dead = srv.dead
  BY <1>1 DEF ServerFacts, Sides
<1>3. PICK m \in Nat : m = Len(gotUp)
  BY <1>1 DEF ServerFacts
<1>4. UpTaken(kind, k, R, C, srv', m)
  BY <1>1, <1>2, <1>3 DEF ServerFacts, UpTaken
<1>5. FlagsOK(kind, cli, srv', cut)
  BY <1>1, <1>2 DEF ServerFacts, FlagsOK
<1>6. DownInv'
  BY <1>2, DownSame DEF Receives
<1>7. /\ k \in Nat /\ R \in Nat /\ T \in Nat /\ C \in Nat
      /\ UpSent(kind, k, R, T, cli, Len(givenUp), up') /\ up' \in Seq(Cells)
      /\ cut' \in BOOLEAN /\ down' \in Seq(Cells) /\ FlagsOK(kind, cli, srv', cut')
      /\ ~srv'.sent => Len(givenDown) = 0
      /\ gotUp' = Run(0, m) /\ ~srv'.left /\ ~srv'.dead
      /\ UNCHANGED <<kind, cli, givenUp, givenDown, gotDown>>
  BY <1>1, <1>2, <1>3, <1>5 DEF ServerFacts, Receives
<1> QED
  BY <1>2, <1>4, <1>6, <1>7, ServerTakes

\* It takes the connection for another one.
LEMMA ServerLeaves ==
  ASSUME Inv, NEW k, NEW P, NEW T, NEW R, NEW C, NEW j, NEW b, Receives(k, P, T, R, C, j, b),
         LeaveProtocol, ~srv.heard, cut' \in BOOLEAN, cut => cut'
  PROVE  Inv'
<1>1. ServerFacts(k, P, T, R, C, b)
  BY ServerKnown
<1>2. /\ srv' \in Sides /\ srv'.left /\ srv'.sent = srv.sent
      /\ srv'.heard = srv.heard /\ srv'.open = srv.open /\ srv'.dead = srv.dead
  <2>1. srv \in Sides /\ srv' = [srv EXCEPT !.left = TRUE, !.recv_buffer = <<>>]
    BY <1>1 DEF ServerFacts, LeaveProtocol
  <2>2. <<>> \in Seq(Cells)
    OBVIOUS
  <2> QED
    BY <2>1, <2>2 DEF Sides
<1>3. ~srv.open /\ Len(gotUp) = 0
  BY <1>1 DEF ServerFacts, FlagsOK, UpTaken
<1>4. PICK m \in Nat : m = 0
  OBVIOUS
<1>5. FlagsOK(kind, cli, srv', cut')
  BY <1>1, <1>2 DEF ServerFacts, FlagsOK, Receives
<1>6. DownInv'
  BY <1>2, DownSame DEF Receives, LeaveProtocol
<1>7. /\ k \in Nat /\ R \in Nat /\ T \in Nat
      /\ UpSent(kind, k, R, T, cli, Len(givenUp), up') /\ up' \in Seq(Cells)
      /\ down' \in Seq(Cells) /\ (~srv'.sent => Len(givenDown) = 0)
      /\ gotUp' = Run(0, m)
      /\ UNCHANGED <<kind, cli, givenUp, givenDown, gotDown>>
  BY <1>1, <1>2, <1>3, <1>4 DEF ServerFacts, Receives, LeaveProtocol
<1> QED
  BY <1>2, <1>4, <1>5, <1>6, <1>7, ServerTakes

\* Before a server has heard the greeting.
LEMMA NothingUsed ==
  ASSUME NEW k, NEW P, NEW T, NEW R, NEW C, NEW b, ServerFacts(k, P, T, R, C, b), ~srv.heard
  PROVE  /\ C = 0 /\ Len(b) = R /\ ~srv.open /\ Len(gotUp) = 0
         /\ kind # "http" => k = 0 /\ T <= 2 /\ ~srv.sent
         /\ R >= 2 => cli.sent
<1>1. C = 0 /\ ~srv.open /\ Len(gotUp) = 0
  BY DEF ServerFacts, UpTaken, Reached, FlagsOK
<1>2. Len(b) = R
  BY <1>1 DEF ServerFacts
<1>3. kind # "http" => k = 0 /\ ~srv.sent /\ ~cli.open
  BY DEF ServerFacts, UpSent, FlagsOK
<1>4. kind # "http" => T = 0 \/ T = 2
  BY <1>3 DEF ServerFacts, UpSent, Reached
<1>5. ~cli.sent => T = 0
  BY DEF ServerFacts, UpSent, Reached
<1>6. R >= 2 => cli.sent
  BY <1>5 DEF ServerFacts
<1> QED
  BY <1>1, <1>2, <1>3, <1>4, <1>6

\* The client hello of tls.
LEMMA ServerHelloInv ==
  ASSUME Inv, NEW k, NEW P, NEW T, NEW R, NEW C, NEW j, NEW b, Receives(k, P, T, R, C, j, b),
         ServerHello(b)
  PROVE  Inv'
<1>1. ServerFacts(k, P, T, R, C, b)
  BY ServerKnown
<1>2. kind = "tls" /\ ~srv.heard /\ UNCHANGED cut /\ kind \in Plugins /\ cut \in BOOLEAN
  BY <1>1 DEF ServerHello, ServerFacts
<1>3. Len(Greeting(<<>>)) = 2
  <2>1. PICK z \in Nat : z = 0
    OBVIOUS
  <2> QED
    BY <1>2, <2>1, GreetingIs
<1>4. CASE Len(b) < 2 /\ WaitForRest(b)
  <2>1. Len(b) < Limit(kind, srv.heard, srv.open)
    BY <1>2, <1>4 DEF Limit
  <2> QED
    BY <1>2, <1>4, <2>1, ServerWaits DEF WaitForRest
<1>5. CASE LeaveProtocol
  BY <1>2, <1>5, ServerLeaves
<1>6. CASE Len(b) >= 2 /\ Answer([srv EXCEPT !.heard = TRUE,
                                    !.recv_buffer = SubSeq(b, 2 + 1, Len(b))])
  <2>1. C = 0 /\ Len(b) = R /\ ~srv.open /\ Len(gotUp) = 0 /\ k = 0 /\ T <= 2 /\ ~srv.sent
        /\ (R >= 2 => cli.sent)
    BY <1>1, <1>2, NothingUsed
  <2>2. R = 2 /\ cli.sent
    <3>1. R \in Nat /\ T \in Nat /\ R <= T /\ R >= 2
      BY <1>1, <1>6, <2>1 DEF ServerFacts
    <3> QED
      BY <2>1, <3>1
  <2>3. SubSeq(b, 2 + 1, Len(b)) = <<>>
    BY <1>1, <2>1, <2>2 DEF ServerFacts
  <2>4. /\ srv' = [[srv EXCEPT !.heard = TRUE, !.recv_buffer = <<>>] EXCEPT !.sent = TRUE]
        /\ down' = down \o Reply /\ gotUp' = gotUp
    BY <1>6, <2>3 DEF Answer
  <2>5. <<>> \in Seq(Cells) /\ srv \in Sides
    BY <1>1 DEF ServerFacts
  <2>6. /\ srv' \in Sides /\ srv'.heard /\ srv'.sent /\ srv'.recv_buffer = <<>>
        /\ srv'.open = srv.open /\ srv'.left = srv.left /\ srv'.dead = srv.dead
    BY <2>4, <2>5 DEF Sides
  <2>7. FlagsOK(kind, cli, srv', cut')
    BY <1>1, <1>2, <2>1, <2>2, <2>6 DEF ServerFacts, FlagsOK, Receives
  <2>8. DownInv' /\ down' \in Seq(Cells)
    BY <1>2, <2>1, <2>4, <2>6, DownAnswer DEF Receives
  <2>9. PICK m \in Nat : m = 0
    OBVIOUS
  <2>10. UpTaken(kind, k, R, R, srv', m)
    <3>1. R \in Nat /\ R <= R /\ R - R < 3
      BY <2>2
    <3>2. R = Reached(kind, k, srv'.heard, srv'.open, m) /\ Limit(kind, srv'.heard, srv'.open) = 3
      BY <2>1, <2>2, <2>6 DEF Reached, Limit
    <3>3. Slice(UpFlow(kind, k), R, R) = <<>>
      BY <3>1, SliceEmpty
    <3>4. R - R < Limit(kind, srv'.heard, srv'.open)
      BY <3>1, <3>2
    <3> QED
      BY <2>1, <2>6, <2>9, <3>1, <3>2, <3>3, <3>4 DEF UpTaken
  <2>11. /\ k \in Nat /\ R \in Nat /\ T \in Nat
         /\ UpSent(kind, k, R, T, cli, Len(givenUp), up') /\ up' \in Seq(Cells)
         /\ gotUp' = Run(0, m) /\ ~srv'.left /\ ~srv'.dead /\ cut' \in BOOLEAN
         /\ UNCHANGED <<kind, cli, givenUp, givenDown, gotDown>>
    BY <1>1, <1>2, <2>1, <2>4, <2>6, <2>9 DEF ServerFacts, Receives
  <2> QED
    BY <2>6, <2>7, <2>8, <2>10, <2>11, ServerTakes
<1> QED
  BY <1>2, <1>3, <1>4, <1>5, <1>6 DEF ServerHello

\* The random head.
LEMMA ServerHeadInv ==
  ASSUME Inv, NEW k, NEW P, NEW T, NEW R, NEW C, NEW j, NEW b, Receives(k, P, T, R, C, j, b),
         ServerHead(SubSeq(up, 1, j)), j \in Nat
  PROVE  Inv'
<1>1. ServerFacts(k, P, T, R, C, b)
  BY ServerKnown
<1>2. PICK piece : piece = SubSeq(up, 1, j)
  OBVIOUS
<1>3. /\ kind = "random" /\ ~srv.heard /\ kind \in Plugins
      /\ cut' = (cut \/ piece # Greeting(<<>>)) /\ cut \in BOOLEAN
  BY <1>1, <1>2 DEF ServerHead, ServerFacts
<1>4. cut' \in BOOLEAN /\ (cut => cut')
  BY <1>3
<1>5. CASE LeaveProtocol
  BY <1>3, <1>4, <1>5, ServerLeaves
<1>6. CASE piece = Greeting(<<>>) /\ Answer([srv EXCEPT !.heard = TRUE, !.open = TRUE])
  <2>1. C = 0 /\ Len(b) = R /\ ~srv.open /\ Len(gotUp) = 0 /\ k = 0 /\ T <= 2 /\ ~srv.sent
        /\ (R >= 2 => cli.sent)
    BY <1>1, <1>3, NothingUsed
  <2>2. P = 0 /\ srv.recv_buffer = <<>>
    <3>1. /\ P - C < Limit(kind, srv.heard, srv.open) /\ C <= P /\ P \in Nat
          /\ srv.recv_buffer = Slice(UpFlow(kind, k), C, P)
      BY <1>1 DEF ServerFacts, UpTaken
    <3>2. Limit(kind, srv.heard, srv.open) = 1
      BY <1>3 DEF Limit
    <3>3. P = C
      BY <2>1, <3>1, <3>2
    <3> QED
      BY <2>1, <3>1, <3>3, SliceEmpty
  <2>3. Len(piece) = 2
    BY <1>1, <1>3, <1>6, GreetingIs DEF ServerFacts
  <2>4. R = 2 /\ cli.sent
    <3>1. piece = Slice(UpFlow(kind, k), P, R) /\ R = P + j
      BY <1>2 DEF Receives, Came
    <3>2. P <= R /\ P \in Nat /\ R \in Nat
      BY <1>1, <2>2, <3>1 DEF ServerFacts
    <3>3. Sliced(Cells, UpFlow(kind, k), P, R, piece)
      BY <1>1, <3>1, <3>2, SliceIsSeq DEF ServerFacts
    <3>4. R - P = 2
      BY <2>3, <3>3 DEF Sliced
    <3> QED
      BY <2>1, <2>2, <3>2, <3>4
  <2>5. /\ srv' = [[srv EXCEPT !.heard = TRUE, !.open = TRUE] EXCEPT !.sent = TRUE]
        /\ down' = down \o Reply /\ gotUp' = gotUp
    BY <1>6 DEF Answer
  <2>6. /\ srv' \in Sides /\ srv'.heard /\ srv'.sent /\ srv'.open
        /\ srv'.recv_buffer = srv.recv_buffer /\ srv'.left = srv.left /\ srv'.dead = srv.dead
    BY <1>1, <2>5 DEF ServerFacts, Sides
  <2>7. FlagsOK(kind, cli, srv', cut')
    BY <1>1, <1>3, <1>4, <2>1, <2>4, <2>6 DEF ServerFacts, FlagsOK, Receives
  <2>8. DownInv' /\ down' \in Seq(Cells)
    BY <1>4, <2>1, <2>5, <2>6, DownAnswer DEF Receives
  <2>9. PICK m \in Nat : m = 0
    OBVIOUS
  <2>10. UpTaken(kind, k, R, R, srv', m)
    <3>1. R \in Nat /\ R <= R /\ R - R < 1
      BY <2>4
    <3>2. At(UpLen(kind), kind = "tls", k, m) = R
      BY <1>3, <2>1, <2>4, <2>9 DEF At, UpLen
    <3>3. R = Reached(kind, k, srv'.heard, srv'.open, m) /\ Limit(kind, srv'.heard, srv'.open) = 1
      BY <1>3, <2>6, <3>2 DEF Reached, Limit
    <3>4. Slice(UpFlow(kind, k), R, R) = <<>>
      BY <3>1, SliceEmpty
    <3>5. R - R < Limit(kind, srv'.heard, srv'.open) /\ k <= m
      BY <2>1, <2>9, <3>1, <3>3
    <3> QED
      BY <2>2, <2>6, <3>1, <3>3, <3>4, <3>5 DEF UpTaken
  <2>11. /\ k \in Nat /\ R \in Nat /\ T \in Nat
         /\ UpSent(kind, k, R, T, cli, Len(givenUp), up') /\ up' \in Seq(Cells)
         /\ gotUp' = Run(0, m) /\ ~srv'.left /\ ~srv'.dead
         /\ UNCHANGED <<kind, cli, givenUp, givenDown, gotDown>>
    BY <1>1, <2>1, <2>5, <2>6, <2>9 DEF ServerFacts, Receives
  <2> QED
    BY <1>4, <2>6, <2>7, <2>8, <2>10, <2>11, ServerTakes
<1> QED
  BY <1>2, <1>5, <1>6 DEF ServerHead

\* What the decoders of data make of the stream of a client, and of a server.
DecodesUp(kd, k, b, m, y, z) == Decodes(UpFlow(kd, k), UpLen(kd), kd = "tls", k, b, m, y, z)
DecodesDown(kd, b, m, y, z) == Decodes(DownFlow(kd), DownLen(kd), kd = "tls", 0, b, m, y, z)

ComesUp(kd, k, b, m, y) ==
  /\ k <= m /\ At(UpLen(kd), kd = "tls", k, m) <= y
  /\ b = Slice(UpFlow(kd, k), At(UpLen(kd), kd = "tls", k, m), y)
ComesDown(kd, b, m, y) ==
  /\ At(DownLen(kd), kd = "tls", 0, m) <= y
  /\ b = Slice(DownFlow(kd), At(DownLen(kd), kd = "tls", 0, m), y)

LEMMA DataUp ==
  ASSUME NEW kd \in Plugins, NEW k \in Nat, NEW m \in Nat, NEW y \in Nat, NEW b,
         ComesUp(kd, k, b, m, y)
  PROVE  \E z : DecodesUp(kd, k, b, m, y, z)
<1>1. PICK H \in Seq(Cells), t \in BOOLEAN : H = UpHand(kd, k) /\ t = (kd = "tls")
  BY HandsType DEF Hands
<1>2. PICK L : L = Len(H)
  OBVIOUS
<1>3. L = UpLen(kd)
  BY <1>1, <1>2, HandsType DEF Hands
<1>4. PICK E : E = Endless(H, t, k)
  OBVIOUS
<1>5. E = UpFlow(kd, k)
  BY <1>1, <1>4 DEF UpFlow
<1>6. k <= m
  BY DEF ComesUp
<1>7. PICK x \in Nat : x = At(L, t, k, m)
  BY <1>1, <1>3, <1>6, UpAhead DEF Ahead
<1>8. x <= y /\ b = Slice(E, x, y)
  BY <1>1, <1>3, <1>5, <1>7 DEF ComesUp
<1>9. \E z : Decodes(E, L, t, k, b, m, y, z)
  BY <1>2, <1>4, <1>6, <1>7, <1>8, DataDecoded
<1> QED
  BY <1>1, <1>3, <1>5, <1>9 DEF DecodesUp

LEMMA DataDown ==
  ASSUME NEW kd \in Plugins, NEW m \in Nat, NEW y \in Nat, NEW b, ComesDown(kd, b, m, y)
  PROVE  \E z : DecodesDown(kd, b, m, y, z)
<1>0. PICK k \in Nat : k = 0
  OBVIOUS
<1>1. PICK H \in Seq(Cells), t \in BOOLEAN : H = DownHand(kd) /\ t = (kd = "tls")
  BY <1>0, HandsType DEF Hands
<1>2. PICK L : L = Len(H)
  OBVIOUS
<1>3. L = DownLen(kd)
  BY <1>0, <1>1, <1>2, HandsType DEF Hands
<1>4. PICK E : E = Endless(H, t, k)
  OBVIOUS
<1>5. E = DownFlow(kd)
  BY <1>0, <1>1, <1>4 DEF DownFlow
<1>6. k <= m /\ m <= m
  BY <1>0
<1>7. PICK x \in Nat : x = At(L, t, k, m)
  BY <1>0, <1>1, <1>3, <1>6, DownAhead DEF DownPlaces
<1>8. x <= y /\ b = Slice(E, x, y)
  BY <1>0, <1>1, <1>3, <1>5, <1>7 DEF ComesDown
<1>9. \E z : Decodes(E, L, t, k, b, m, y, z)
  BY <1>2, <1>4, <1>6, <1>7, <1>8, DataDecoded
<1> QED
  BY <1>0, <1>1, <1>3, <1>5, <1>9 DEF DecodesDown

\* More units, handed on.
LEMMA RunsOn ==
  ASSUME NEW m \in Nat, NEW z \in Nat, m <= z
  PROVE  Run(0, m) \o Run(m, z) = Run(0, z)
<1>1. PICK o \in Nat : o = 0
  OBVIOUS
<1>2. o <= m
  BY <1>1
<1>3. Slice(Units, o, m) \o Slice(Units, m, z) = Slice(Units, o, z)
  BY <1>2, UnitsType, SliceJoin
<1> QED
  BY <1>1, <1>3 DEF Run

\* A server that has decoded the units up to z.
LEMMA ServerDecodes ==
  ASSUME Inv, NEW k, NEW P, NEW T, NEW R, NEW C, NEW j, NEW b, Receives(k, P, T, R, C, j, b),
         NEW z \in Nat, k <= z, NEW A \in Nat, A = At(UpLen(kind), kind = "tls", k, z),
         A <= R, R - A < (IF kind = "tls" THEN 2 ELSE 1),
         srv' \in Sides, srv'.heard, srv'.open, srv'.sent = srv.sent, srv'.left = srv.left,
         srv'.dead = srv.dead, srv'.recv_buffer = Slice(UpFlow(kind, k), A, R),
         cli.sent, kind = "http" \/ srv.sent, gotUp' = Run(0, z), UNCHANGED <<down, cut>>
  PROVE  Inv'
<1>1. ServerFacts(k, P, T, R, C, b)
  BY ServerKnown
<1>2. FlagsOK(kind, cli, srv', cut)
  BY <1>1 DEF ServerFacts, FlagsOK, Receives
<1>3. DownInv'
  BY DownSame DEF Receives
<1>4. A = Reached(kind, k, srv'.heard, srv'.open, z)
      /\ Limit(kind, srv'.heard, srv'.open) = IF kind = "tls" THEN 2 ELSE 1
  BY DEF Reached, Limit
<1>5. UpTaken(kind, k, R, A, srv', z)
  BY <1>4 DEF UpTaken
<1>6. /\ k \in Nat /\ R \in Nat /\ T \in Nat
      /\ UpSent(kind, k, R, T, cli, Len(givenUp), up') /\ up' \in Seq(Cells)
      /\ cut' \in BOOLEAN /\ down' \in Seq(Cells) /\ FlagsOK(kind, cli, srv', cut')
      /\ ~srv'.sent => Len(givenDown) = 0
      /\ ~srv'.left /\ ~srv'.dead
      /\ UNCHANGED <<kind, cli, givenUp, givenDown, gotDown>>
  BY <1>1, <1>2 DEF ServerFacts, Receives
<1> QED
  BY <1>3, <1>5, <1>6, ServerTakes

\* Data.
LEMMA ServerDataInv ==
  ASSUME Inv, NEW k, NEW P, NEW T, NEW R, NEW C, NEW j, NEW b, Receives(k, P, T, R, C, j, b),
         ServerData(b), UNCHANGED down
  PROVE  Inv'
<1>1. ServerFacts(k, P, T, R, C, b)
  BY ServerKnown
<1>2. srv.open /\ UNCHANGED cut /\ kind \in Plugins
  BY <1>1 DEF ServerData, ServerFacts
<1>3. srv.heard /\ cli.sent /\ (kind = "http" \/ srv.sent)
  BY <1>1, <1>2 DEF ServerFacts, FlagsOK
<1>4. PICK m \in Nat : m = Len(gotUp)
  BY <1>1 DEF ServerFacts
<1>5. k <= m /\ C = At(UpLen(kind), kind = "tls", k, m) /\ C <= P
      /\ P - C < (IF kind = "tls" THEN 2 ELSE 1)
      /\ srv.recv_buffer = Slice(UpFlow(kind, k), C, P)
  BY <1>1, <1>2, <1>3, <1>4 DEF ServerFacts, UpTaken, Reached, Limit
<1>6. ComesUp(kind, k, b, m, R)
  BY <1>1, <1>5 DEF ServerFacts, ComesUp
<1>7. PICK z : DecodesUp(kind, k, b, m, R, z)
  BY <1>1, <1>6, DataUp DEF ServerFacts
<1>8. PICK A : A = At(UpLen(kind), kind = "tls", k, z)
  OBVIOUS
<1>9. /\ z \in Nat /\ m <= z /\ A \in Nat /\ A <= R /\ R - A < (IF kind = "tls" THEN 2 ELSE 1)
      /\ kind = "tls" => Records(b) = Run(m, z) /\ AfterRecords(b) = Slice(UpFlow(kind, k), A, R)
      /\ kind # "tls" => Taken(b) = Run(m, z)
  BY <1>7, <1>8 DEF DecodesUp, Decodes
<1>10. k <= z /\ k \in Nat /\ R \in Nat /\ P \in Nat /\ C \in Nat
  <2>1. k \in Nat /\ R \in Nat /\ P \in Nat /\ C \in Nat
    BY <1>1 DEF ServerFacts
  <2> QED
    BY <1>5, <1>9, <2>1
<1>11. gotUp' = gotUp \o Run(m, z)
  BY <1>9 DEF ServerData
<1>12. gotUp = Run(0, m)
  BY <1>1, <1>4 DEF ServerFacts
<1>13. gotUp' = Run(0, z)
  BY <1>9, <1>11, <1>12, RunsOn
<1>14. CASE kind = "tls"
  <2>1. PICK r : r = AfterRecords(b)
    OBVIOUS
  <2>2. srv' = [srv EXCEPT !.recv_buffer = r] /\ r = Slice(UpFlow(kind, k), A, R)
    BY <1>9, <1>14, <2>1 DEF ServerData
  <2>3. Sliced(Cells, UpFlow(kind, k), A, R, r)
    BY <1>1, <1>9, <1>10, <2>2, SliceIsSeq DEF ServerFacts
  <2>4. r \in Seq(Cells) /\ srv \in Sides
    BY <1>1, <2>3 DEF Sliced, ServerFacts
  <2>5. /\ srv' \in Sides /\ srv'.heard = srv.heard /\ srv'.open = srv.open
        /\ srv'.sent = srv.sent /\ srv'.left = srv.left /\ srv'.dead = srv.dead
        /\ srv'.recv_buffer = r
    BY <2>2, <2>4 DEF Sides
  <2>6. srv'.heard /\ srv'.open /\ srv'.recv_buffer = Slice(UpFlow(kind, k), A, R)
    BY <1>2, <1>3, <2>2, <2>5
  <2> QED
    BY <1>2, <1>3, <1>8, <1>9, <1>10, <1>13, <2>5, <2>6, ServerDecodes
<1>15. CASE kind # "tls"
  <2>1. srv' = srv /\ srv \in Sides
    BY <1>1, <1>15 DEF ServerData, ServerFacts
  <2>2. C = P /\ A = R
    BY <1>5, <1>9, <1>10, <1>15
  <2>3. srv.recv_buffer = Slice(UpFlow(kind, k), A, R)
    BY <1>5, <1>10, <2>2, SliceEmpty
  <2> QED
    BY <1>2, <1>3, <1>8, <1>9, <1>10, <1>13, <2>1, <2>3, ServerDecodes
<1> QED
  BY <1>14, <1>15

\* ChangeCipherSpec and Finished.
LEMMA ServerFinishInv ==
  ASSUME Inv, NEW k, NEW P, NEW T, NEW R, NEW C, NEW j, NEW b, Receives(k, P, T, R, C, j, b),
         ServerFinish(b), UNCHANGED down
  PROVE  Inv'
<1>1. ServerFacts(k, P, T, R, C, b)
  BY ServerKnown
<1>2. srv.heard /\ ~srv.open
  BY DEF ServerFinish
<1>3. kind = "tls" /\ cli.sent /\ srv.sent
  BY <1>1, <1>2 DEF ServerFacts, FlagsOK, Plugins
<1>4. C = 2 /\ Len(gotUp) = 0 /\ k = 0
  BY <1>1, <1>2, <1>3 DEF ServerFacts, UpTaken, UpSent, Reached
<1>5. Len(Finish) = 3
  BY <1>1, <1>3, FinishIs DEF ServerFacts
<1>6. gotUp = Run(0, 0)
  BY <1>1, <1>4 DEF ServerFacts
<1>7. CASE srv' = [srv EXCEPT !.dead = TRUE] /\ cut' = TRUE /\ UNCHANGED gotUp
  <2>1. /\ srv' \in Sides /\ srv'.dead /\ srv'.heard = srv.heard /\ srv'.open = srv.open
        /\ srv'.sent = srv.sent /\ srv'.left = srv.left
    BY <1>1, <1>7 DEF ServerFacts, Sides
  <2>2. FlagsOK(kind, cli, srv', cut')
    BY <1>1, <1>2, <1>7, <2>1 DEF ServerFacts, FlagsOK, Receives
  <2>3. DownInv'
    BY <1>7, <2>1, DownSame DEF Receives
  <2>4. PICK m \in Nat : m = 0
    OBVIOUS
  <2>5. cut' \in BOOLEAN
    BY <1>7
  <2>6. /\ k \in Nat /\ R \in Nat /\ T \in Nat
        /\ UpSent(kind, k, R, T, cli, Len(givenUp), up') /\ up' \in Seq(Cells)
        /\ down' \in Seq(Cells) /\ (~srv'.sent => Len(givenDown) = 0)
        /\ gotUp' = Run(0, m)
        /\ UNCHANGED <<kind, cli, givenUp, givenDown, gotDown>>
    BY <1>1, <1>6, <1>7, <2>1, <2>4 DEF ServerFacts, Receives
  <2> QED
    BY <2>1, <2>2, <2>3, <2>4, <2>5, <2>6, ServerTakes
<1>8. CASE Len(b) \in 2..(3 - 1) /\ srv' = [srv EXCEPT !.recv_buffer = b] /\ UNCHANGED <<gotUp, cut>>
  <2>1. Limit(kind, srv.heard, srv.open) = 3
    BY <1>2 DEF Limit
  <2>2. Len(b) < Limit(kind, srv.heard, srv.open)
    <3>1. PICK l : l = Len(b)
      OBVIOUS
    <3>2. l \in 2..(3 - 1)
      BY <1>8, <3>1
    <3>3. l < 3
      BY <3>2
    <3> QED
      BY <2>1, <3>1, <3>3
  <2> QED
    BY <1>8, <2>2, ServerWaits
<1>9. CASE /\ Len(b) >= 3
           /\ LET rest == SubSeq(b, 3 + 1, Len(b))
              IN /\ srv' = [srv EXCEPT !.open = TRUE, !.recv_buffer = AfterRecords(rest)]
                 /\ gotUp' = gotUp \o Records(rest)
           /\ UNCHANGED cut
  <2>1. PICK rest, r : rest = SubSeq(b, 3 + 1, Len(b)) /\ r = AfterRecords(rest)
    OBVIOUS
  <2>2. srv' = [srv EXCEPT !.open = TRUE, !.recv_buffer = r] /\ gotUp' = gotUp \o Records(rest)
    BY <1>9, <2>1
  <2>3. /\ k \in Nat /\ C \in Nat /\ R \in Nat /\ C <= R /\ Len(b) = R - C
        /\ b = Slice(UpFlow(kind, k), C, R) /\ UpFlow(kind, k) \in [Places -> Cells]
        /\ srv \in Sides /\ kind \in Plugins
    BY <1>1 DEF ServerFacts
  <2>4. PICK v \in Nat, m \in Nat, x \in Nat : v = 3 /\ m = 0 /\ x = 5
    OBVIOUS
  <2>5. v <= R - C /\ C + v = x
    BY <1>4, <1>9, <2>3, <2>4
  <2>6. CutAt(UpFlow(kind, k), C, R, v)
    BY <2>3, <2>5, SliceCut
  <2>7. rest = Slice(UpFlow(kind, k), x, R)
    BY <2>1, <2>3, <2>4, <2>5, <2>6 DEF CutAt
  <2>8. x = At(UpLen(kind), kind = "tls", k, m) /\ k <= m
    BY <1>3, <1>4, <2>4 DEF At, UpLen
  <2>9. x <= R
    BY <2>3, <2>5
  <2>10. ComesUp(kind, k, rest, m, R)
    BY <2>7, <2>8, <2>9 DEF ComesUp
  <2>11. PICK z : DecodesUp(kind, k, rest, m, R, z)
    BY <2>3, <2>10, DataUp
  <2>12. PICK A : A = At(UpLen(kind), kind = "tls", k, z)
    OBVIOUS
  <2>13. /\ z \in Nat /\ m <= z /\ A \in Nat /\ A <= R /\ R - A < (IF kind = "tls" THEN 2 ELSE 1)
         /\ Records(rest) = Run(m, z) /\ r = Slice(UpFlow(kind, k), A, R)
    BY <1>3, <2>1, <2>11, <2>12 DEF DecodesUp, Decodes
  <2>14. k <= z
    BY <1>4, <2>4, <2>13
  <2>15. gotUp' = Run(0, z)
    <3>1. gotUp = Run(0, m) /\ gotUp' = gotUp \o Run(m, z)
      BY <1>6, <2>2, <2>4, <2>13
    <3> QED
      BY <2>13, <3>1, RunsOn
  <2>16. Sliced(Cells, UpFlow(kind, k), A, R, r)
    BY <2>3, <2>13, SliceIsSeq
  <2>17. r \in Seq(Cells)
    BY <2>16 DEF Sliced
  <2>18. /\ srv' \in Sides /\ srv'.heard = srv.heard /\ srv'.open
         /\ srv'.sent = srv.sent /\ srv'.left = srv.left /\ srv'.dead = srv.dead
         /\ srv'.recv_buffer = r
    BY <2>2, <2>3, <2>17 DEF Sides
  <2>19. srv'.heard /\ srv'.recv_buffer = Slice(UpFlow(kind, k), A, R) /\ UNCHANGED cut
    BY <1>2, <1>9, <2>13, <2>18
  <2> QED
    BY <1>3, <2>12, <2>13, <2>14, <2>15, <2>18, <2>19, ServerDecodes
<1> QED
  BY <1>5, <1>7, <1>8, <1>9 DEF ServerFinish

\* The header of http, and the data in it.
LEMMA ServerHttpInv ==
  ASSUME Inv, NEW k, NEW P, NEW T, NEW R, NEW C, NEW j, NEW b, Receives(k, P, T, R, C, j, b),
         ServerHttp(b)
  PROVE  Inv'
<1>1. ServerFacts(k, P, T, R, C, b)
  BY ServerKnown
<1>2. kind = "http" /\ ~srv.heard /\ UNCHANGED cut /\ kind \in Plugins /\ cut \in BOOLEAN
      /\ k \in Nat
  BY <1>1 DEF ServerHttp, ServerFacts
<1>3. Len(Greeting(<<>>)) = 2
  <2>1. PICK z \in Nat : z = 0
    OBVIOUS
  <2>2. Run(0, z) = <<>>
    BY <2>1, NoUnits
  <2>3. PICK d : d = <<>>
    OBVIOUS
  <2> QED
    BY <1>2, <2>2, <2>3, GreetingIs
<1>4. CASE Len(b) < 2 /\ WaitForRest(b)
  <2>1. Len(b) < Limit(kind, srv.heard, srv.open)
    BY <1>2, <1>4 DEF Limit
  <2> QED
    BY <1>2, <1>4, <2>1, ServerWaits DEF WaitForRest
<1>5. CASE LeaveProtocol
  BY <1>2, <1>5, ServerLeaves
<1>6. CASE /\ Len(b) >= 2
           /\ srv' = [srv EXCEPT !.heard = TRUE, !.open = TRUE, !.recv_buffer = <<>>]
           /\ gotUp' = b[2].data \o Taken(SubSeq(b, 2 + 1, Len(b)))
           /\ UNCHANGED down
  <2>1. C = 0 /\ Len(b) = R /\ (R >= 2 => cli.sent)
    BY <1>1, <1>2, NothingUsed
  <2>2. PICK rest : rest = SubSeq(b, 2 + 1, Len(b))
    OBVIOUS
  <2>3. /\ C \in Nat /\ R \in Nat /\ C <= R /\ Len(b) = R - C
        /\ b = Slice(UpFlow(kind, k), C, R) /\ UpFlow(kind, k) \in [Places -> Cells]
        /\ srv \in Sides
    BY <1>1 DEF ServerFacts
  <2>4. PICK x \in Nat : x = 2
    OBVIOUS
  <2>5. x <= R - C /\ C + x = x /\ x <= R /\ cli.sent
    BY <1>6, <2>1, <2>3, <2>4
  <2>6. CutAt(UpFlow(kind, k), C, R, x)
    BY <2>3, <2>5, SliceCut
  <2>7. rest = Slice(UpFlow(kind, k), x, R)
    BY <2>2, <2>3, <2>4, <2>5, <2>6 DEF CutAt
  <2>8. x = At(UpLen(kind), kind = "tls", k, k) /\ k <= k
    BY <1>2, <2>4 DEF At, UpLen
  <2>9. ComesUp(kind, k, rest, k, R)
    BY <2>5, <2>7, <2>8 DEF ComesUp
  <2>10. PICK z : DecodesUp(kind, k, rest, k, R, z)
    BY <1>2, <2>3, <2>9, DataUp
  <2>11. PICK A : A = At(UpLen(kind), kind = "tls", k, z)
    OBVIOUS
  <2>12. /\ z \in Nat /\ k <= z /\ A \in Nat /\ A <= R /\ R - A < (IF kind = "tls" THEN 2 ELSE 1)
         /\ Taken(rest) = Run(k, z)
    BY <1>2, <2>10, <2>11 DEF DecodesUp, Decodes
  <2>13. A = R
    BY <1>2, <2>3, <2>12
  <2>14. b[2].data = Run(0, k)
    <3>1. PICK H, d : H = UpHand(kind, k) /\ d = Run(0, k)
      OBVIOUS
    <3>2. H = <<Cell("get1", <<>>), Cell("get2", d)>>
      BY <1>2, <3>1 DEF UpHand
    <3>3. Len(H) = 2 /\ H[2] = Cell("get2", d)
      BY <3>2
    <3>4. UpFlow(kind, k)[2] = H[2]
      <4>1. UpFlow(kind, k) = Endless(H, kind = "tls", k)
        BY <3>1 DEF UpFlow
      <4>2. 2 \in Places /\ 2 <= Len(H)
        BY <3>3 DEF Places
      <4> QED
        BY <4>1, <4>2 DEF Endless
    <3>5. b[2] = UpFlow(kind, k)[2]
      <4>1. Sliced(Cells, UpFlow(kind, k), C, R, b)
        BY <2>3, SliceIsSeq
      <4>2. 2 \in 1..(R - C) /\ C + 2 = 2
        BY <2>1, <2>3, <2>4, <2>5
      <4>3. \A i \in 1..(R - C) : b[i] = UpFlow(kind, k)[C + i]
        BY <4>1 DEF Sliced
      <4> QED
        BY <4>2, <4>3
    <3>6. Cell("get2", d).data = d
      BY DEF Cell
    <3> QED
      BY <3>1, <3>3, <3>4, <3>5, <3>6
  <2>15. gotUp' = Run(0, z)
    <3>1. gotUp' = Run(0, k) \o Run(k, z)
      BY <1>6, <2>2, <2>12, <2>14
    <3> QED
      BY <1>2, <2>12, <3>1, RunsOn
  <2>16. Slice(UpFlow(kind, k), A, R) = <<>>
    BY <2>3, <2>13, SliceEmpty
  <2>17. <<>> \in Seq(Cells)
    OBVIOUS
  <2>18. /\ srv' \in Sides /\ srv'.heard /\ srv'.open
         /\ srv'.sent = srv.sent /\ srv'.left = srv.left /\ srv'.dead = srv.dead
         /\ srv'.recv_buffer = <<>>
    BY <1>6, <2>3, <2>17 DEF Sides
  <2>19. srv'.recv_buffer = Slice(UpFlow(kind, k), A, R)
    BY <2>16, <2>18
  <2> QED
    BY <1>2, <1>6, <2>5, <2>11, <2>12, <2>15, <2>18, <2>19, ServerDecodes
<1> QED
  BY <1>2, <1>3, <1>4, <1>5, <1>6 DEF ServerHttp

\* server_decode.
LEMMA ServerReceiveInv ==
  ASSUME Inv, NEW j \in 1..Len(up), ServerReceive(j)
  PROVE  Inv'
<1>1. PICK k, P, T, R : /\ Came(k, P, T, R, j)
                        /\ ~srv.left /\ ~srv.dead => \E C : CameFrom(k, P, R, C, j)
  BY Comes
<1>2. /\ ~srv.dead /\ up' = SubSeq(up, j + 1, Len(up))
      /\ UNCHANGED <<kind, cli, givenUp, givenDown, gotDown>>
  BY DEF ServerReceive
<1>3. PICK b : b = srv.recv_buffer \o SubSeq(up, 1, j)
  OBVIOUS
<1>4. CASE srv.left /\ UNCHANGED <<srv, gotUp, down, cut>>
  <2>1. /\ k \in Nat /\ R \in Nat /\ T \in Nat
        /\ UpSent(kind, k, R, T, cli, Len(givenUp), up') /\ up' \in Seq(Cells)
    BY <1>1, <1>2 DEF Came
  <2>2. PICK m \in Nat : m = Len(gotUp)
    BY Known
  <2>3. /\ srv' \in Sides /\ FlagsOK(kind, cli, srv', cut') /\ cut' \in BOOLEAN
        /\ ~srv'.sent => Len(givenDown) = 0
        /\ gotUp' = Run(0, m) /\ m = 0 /\ down' \in Seq(Cells)
    BY <1>2, <1>4, <2>2 DEF Inv, TypeOK, FlagsInv, UpInv
  <2>4. DownInv'
    BY <1>2, <1>4, DownSame
  <2>5. srv'.left
    BY <1>4
  <2> QED
    BY <1>2, <2>1, <2>3, <2>4, <2>5, ServerTakes
<1>5. CASE ~srv.left
  <2>1. PICK C : CameFrom(k, P, R, C, j)
    BY <1>1, <1>2, <1>5
  <2>2. Receives(k, P, T, R, C, j, b)
    BY <1>1, <1>2, <1>3, <1>5, <2>1 DEF Receives
  <2>3. CASE ServerHello(b)
    BY <2>2, <2>3, ServerHelloInv
  <2>4. CASE ServerHttp(b)
    BY <2>2, <2>4, ServerHttpInv
  <2>5. CASE ServerHead(SubSeq(up, 1, j))
    <3>1. j \in Nat
      OBVIOUS
    <3> QED
      BY <2>2, <2>5, <3>1, ServerHeadInv
  <2>6. CASE ServerFinish(b) /\ UNCHANGED down
    BY <2>2, <2>6, ServerFinishInv
  <2>7. CASE ServerData(b) /\ UNCHANGED down
    BY <2>2, <2>7, ServerDataInv
  <2> QED
    BY <1>3, <1>5, <2>3, <2>4, <2>5, <2>6, <2>7 DEF ServerReceive
<1> QED
  BY <1>4, <1>5 DEF ServerReceive

-----------------------------------------------------------------------------
(* The invariant: when a client receives.                                    *)

\* What a call of client_decode leaves behind is the invariant.
LEMMA ClientTakes ==
  ASSUME Inv, NEW S \in Nat, NEW D \in Nat, DownSent(kind, S, D, srv, Len(givenDown), down'),
         down' \in Seq(Cells), cli' \in Sides, FlagsOK(kind, cli', srv, cut'), cut' \in BOOLEAN,
         KeptBack(cli', givenUp), cli'.sent, gotDown' \in Seq(Nat),
         (kind = "random" /\ cut') \/ gotDown' = Run(0, Len(gotDown')),
         DownTaken(kind, S, cli', Len(gotDown'), cut'),
         NEW k \in Nat, NEW P \in Nat, NEW T \in Nat,
         UpSent(kind, k, P, T, cli', Len(givenUp), up'), up' \in Seq(Cells),
         ~srv.left /\ ~srv.dead => \E C \in Nat : UpTaken(kind, k, P, C, srv, Len(gotUp)),
         UNCHANGED <<kind, srv, givenUp, gotUp, givenDown>>
  PROVE  Inv'
<1>1. DownInv'
  BY DEF Inv, DownInv
<1>2. UpInv'
  BY DEF Inv, UpInv
<1>3. FlagsInv'
  BY DEF Inv, FlagsInv
<1>4. kind # "http" => cli'.open = cli'.heard
  BY DEF FlagsOK
<1>5. cli'.send_buffer # <<>> => cli'.sent /\ ~cli'.open
  BY DEF KeptBack
<1>6. TypeOK'
  BY <1>4, <1>5 DEF Inv, TypeOK
<1> QED
  BY <1>1, <1>2, <1>3, <1>6 DEF Inv

\* What comes to a client: the cells from Q to S.
Reaches(Q, D, S, j) ==
  /\ Q \in Nat /\ D \in Nat /\ S \in Nat /\ S = Q + j /\ S <= D
  /\ SubSeq(down, 1, j) = Slice(DownFlow(kind), Q, S)
  /\ SubSeq(down, 1, j) \in Seq(Cells) /\ Len(SubSeq(down, 1, j)) = j
  /\ DownSent(kind, S, D, srv, Len(givenDown), SubSeq(down, j + 1, Len(down)))
  /\ SubSeq(down, j + 1, Len(down)) \in Seq(Cells)
  /\ DownTaken(kind, Q, cli, Len(gotDown), cut)
  /\ srv.sent /\ srv.heard /\ cli.sent

LEMMA Arrives ==
  ASSUME Inv, NEW j \in 1..Len(down)
  PROVE  \E Q, D, S : Reaches(Q, D, S, j)
<1>1. PICK Q \in Nat, D \in Nat : /\ DownSent(kind, Q, D, srv, Len(givenDown), down)
                                  /\ DownTaken(kind, Q, cli, Len(gotDown), cut)
  BY DEF Inv, DownInv
<1>2. PICK F : F = DownFlow(kind)
  OBVIOUS
<1>3. F \in [Places -> Cells]
  BY <1>2, Known, DownType
<1>4. Q <= D /\ down = Slice(F, Q, D)
  BY <1>1, <1>2 DEF DownSent
<1>5. Sliced(Cells, F, Q, D, down)
  BY <1>3, <1>4, SliceIsSeq
<1>6. Len(down) = D - Q
  BY <1>5 DEF Sliced
<1>7. PICK S \in Nat : S = Q + j
  BY <1>6
<1>8. S <= D /\ j \in Nat /\ j <= D - Q /\ Q <= S /\ S - Q = j /\ D # 0
  BY <1>6, <1>7
<1>9. CutAt(F, Q, D, j)
  BY <1>3, <1>4, <1>8, SliceCut
<1>10. SubSeq(down, 1, j) = Slice(F, Q, S) /\ SubSeq(down, j + 1, Len(down)) = Slice(F, S, D)
  BY <1>4, <1>6, <1>7, <1>9 DEF CutAt
<1>11. Sliced(Cells, F, S, D, Slice(F, S, D)) /\ Sliced(Cells, F, Q, S, Slice(F, Q, S))
  BY <1>3, <1>8, SliceIsSeq
<1>12. DownSent(kind, S, D, srv, Len(givenDown), SubSeq(down, j + 1, Len(down)))
  BY <1>1, <1>2, <1>8, <1>10 DEF DownSent
<1>13. srv.sent
  BY <1>1, <1>8 DEF DownSent
<1>14. srv.heard /\ cli.sent
  BY <1>13 DEF Inv, FlagsInv, FlagsOK
<1>15. /\ SubSeq(down, 1, j) \in Seq(Cells) /\ Len(SubSeq(down, 1, j)) = j
       /\ SubSeq(down, j + 1, Len(down)) \in Seq(Cells)
  BY <1>8, <1>10, <1>11 DEF Sliced
<1> QED
  BY <1>1, <1>2, <1>7, <1>8, <1>10, <1>12, <1>13, <1>14, <1>15 DEF Reaches

\* A client receives j cells.
Hears(Q, D, S, j, piece) ==
  /\ Reaches(Q, D, S, j) /\ ~cli.dead /\ piece = SubSeq(down, 1, j)
  /\ down' = SubSeq(down, j + 1, Len(down))
  /\ UNCHANGED <<kind, srv, givenUp, gotUp, givenDown>>

ClientFacts(Q, D, S, j, piece) ==
  /\ Q \in Nat /\ D \in Nat /\ S \in Nat /\ j \in Nat /\ S = Q + j
  /\ kind \in Plugins /\ cli \in Sides /\ FlagsOK(kind, cli, srv, cut) /\ cut \in BOOLEAN
  /\ piece = Slice(DownFlow(kind), Q, S) /\ piece \in Seq(Cells) /\ Len(piece) = j
  /\ DownSent(kind, S, D, srv, Len(givenDown), down') /\ down' \in Seq(Cells)
  /\ DownTaken(kind, Q, cli, Len(gotDown), cut)
  /\ srv.sent /\ srv.heard /\ cli.sent
  /\ DownFlow(kind) \in [Places -> Cells]
  /\ gotDown \in Seq(Nat) /\ Len(gotDown) \in Nat
  /\ (kind = "random" /\ cut) \/ gotDown = Run(0, Len(gotDown))
  /\ KeptBack(cli, givenUp) /\ up \in Seq(Cells)

LEMMA ClientKnown ==
  ASSUME Inv, NEW Q, NEW D, NEW S, NEW j \in Nat, NEW piece, Hears(Q, D, S, j, piece)
  PROVE  ClientFacts(Q, D, S, j, piece)
<1>1. /\ Q \in Nat /\ D \in Nat /\ S \in Nat /\ S = Q + j
      /\ piece = Slice(DownFlow(kind), Q, S) /\ piece \in Seq(Cells) /\ Len(piece) = j
      /\ DownSent(kind, S, D, srv, Len(givenDown), down') /\ down' \in Seq(Cells)
      /\ DownTaken(kind, Q, cli, Len(gotDown), cut)
      /\ srv.sent /\ srv.heard /\ cli.sent
  BY DEF Hears, Reaches
<1>2. kind \in Plugins /\ cli \in Sides /\ cut \in BOOLEAN /\ Len(gotDown) \in Nat
  BY Known
<1>3. /\ FlagsOK(kind, cli, srv, cut) /\ KeptBack(cli, givenUp)
      /\ gotDown \in Seq(Nat) /\ up \in Seq(Cells)
      /\ (kind = "random" /\ cut) \/ gotDown = Run(0, Len(gotDown))
  BY DEF Inv, FlagsInv, DownInv, TypeOK
<1>4. DownFlow(kind) \in [Places -> Cells]
  BY <1>2, DownType
<1> QED
  BY <1>1, <1>2, <1>3, <1>4 DEF ClientFacts

\* A client that does not send.
LEMMA ClientListens ==
  ASSUME Inv, NEW Q, NEW D, NEW S, NEW j \in Nat, NEW piece, Hears(Q, D, S, j, piece),
         cli' \in Sides, cli'.sent = cli.sent, cli'.open = cli.open,
         cli'.send_buffer = cli.send_buffer, FlagsOK(kind, cli', srv, cut'), cut' \in BOOLEAN,
         gotDown' \in Seq(Nat), (kind = "random" /\ cut') \/ gotDown' = Run(0, Len(gotDown')),
         DownTaken(kind, S, cli', Len(gotDown'), cut'), UNCHANGED up
  PROVE  Inv'
<1>1. ClientFacts(Q, D, S, j, piece)
  BY ClientKnown
<1>2. PICK k \in Nat, P \in Nat, T \in Nat :
        /\ UpSent(kind, k, P, T, cli, Len(givenUp), up)
        /\ ~srv.left /\ ~srv.dead => \E C \in Nat : UpTaken(kind, k, P, C, srv, Len(gotUp))
  BY DEF Inv, UpInv
<1>3. UpSent(kind, k, P, T, cli', Len(givenUp), up')
  BY <1>2 DEF UpSent
<1>4. /\ KeptBack(cli', givenUp) /\ cli'.sent /\ up' \in Seq(Cells) /\ S \in Nat /\ D \in Nat
      /\ DownSent(kind, S, D, srv, Len(givenDown), down') /\ down' \in Seq(Cells)
      /\ UNCHANGED <<kind, srv, givenUp, gotUp, givenDown>>
  BY <1>1 DEF ClientFacts, KeptBack, Hears
<1> QED
  BY <1>2, <1>3, <1>4, ClientTakes

\* Data that a client takes over as it is.
LEMMA AnyTaken ==
  ASSUME NEW kd \in Plugins, kd # "tls", NEW x \in Nat, NEW y \in Nat, x <= y,
         NEW b, b = Slice(DownFlow(kd), x, y)
  PROVE  Taken(b) \in Seq(Nat)
<1>1. PICK k \in Nat : k = 0
  OBVIOUS
<1>2. PICK H \in Seq(Cells), t \in BOOLEAN : H = DownHand(kd) /\ t = (kd = "tls")
  BY <1>1, HandsType DEF Hands
<1>3. \A i \in 1..Len(H) : H[i].part # "raw"
  BY <1>1, <1>2, HandsType DEF Hands
<1>4. PICK E : E = Endless(H, t, k)
  OBVIOUS
<1>5. b = Slice(E, x, y) /\ ~t
  BY <1>1, <1>2, <1>4 DEF DownFlow
<1> QED
  BY <1>3, <1>4, <1>5, TakenType

\* The place behind the units that a client has handed on.
LEMMA HeardAt ==
  ASSUME NEW kd, NEW z, NEW A, A = At(DownLen(kd), kd = "tls", 0, z), NEW S, NEW c,
         A <= S, S - A < (IF kd = "tls" THEN 2 ELSE 1), A \in Nat,
         c.recv_buffer = Slice(DownFlow(kd), A, S), c.heard, NEW ct
  PROVE  DownTaken(kd, S, c, z, ct)
<1>1. DownHeard(kd, S, A, c, z)
  BY DEF DownHeard
<1> QED
  BY <1>1 DEF DownTaken

LEMMA ClientDataInv ==
  ASSUME Inv, NEW Q, NEW D, NEW S, NEW j \in Nat, NEW piece, Hears(Q, D, S, j, piece),
         ClientData(piece)
  PROVE  Inv'
<1>1. ClientFacts(Q, D, S, j, piece)
  BY ClientKnown
<1>2. cli.heard /\ UNCHANGED <<up, cut>>
  BY DEF ClientData
<1>3. /\ kind \in Plugins /\ Q \in Nat /\ S \in Nat /\ S = Q + j /\ cli \in Sides /\ cut \in BOOLEAN
      /\ piece = Slice(DownFlow(kind), Q, S) /\ FlagsOK(kind, cli, srv, cut)
      /\ gotDown \in Seq(Nat) /\ DownFlow(kind) \in [Places -> Cells]
      /\ DownTaken(kind, Q, cli, Len(gotDown), cut)
      /\ (kind = "random" /\ cut) \/ gotDown = Run(0, Len(gotDown))
  BY <1>1 DEF ClientFacts
<1>4. Q <= S
  BY <1>3
<1>5. PICK m \in Nat : m = Len(gotDown)
  BY <1>1 DEF ClientFacts
<1>6. CASE kind = "random" /\ cut
  <2>1. gotDown' = gotDown \o Taken(piece) /\ cli' = cli /\ kind # "tls"
    BY <1>6 DEF ClientData
  <2>2. Taken(piece) \in Seq(Nat)
    BY <1>3, <1>4, <2>1, AnyTaken
  <2>3. gotDown' \in Seq(Nat)
    BY <1>3, <2>1, <2>2
  <2>4. DownTaken(kind, S, cli', Len(gotDown'), cut')
    BY <1>2, <1>6, <2>1 DEF DownTaken
  <2>5. cut' \in BOOLEAN /\ FlagsOK(kind, cli', srv, cut') /\ cut' /\ cli' \in Sides
    BY <1>2, <1>3, <1>6, <2>1
  <2> QED
    BY <1>2, <1>6, <2>1, <2>3, <2>4, <2>5, ClientListens
<1>7. CASE ~(kind = "random" /\ cut)
  <2>1. gotDown = Run(0, m)
    BY <1>3, <1>5, <1>7
  <2>2. PICK C \in Nat : DownHeard(kind, Q, C, cli, m)
    BY <1>2, <1>3, <1>5, <1>7 DEF DownTaken
  <2>3. /\ C = At(DownLen(kind), kind = "tls", 0, m) /\ C <= Q
        /\ Q - C < (IF kind = "tls" THEN 2 ELSE 1)
        /\ cli.recv_buffer = Slice(DownFlow(kind), C, Q)
    BY <2>2 DEF DownHeard
  <2>4. CASE kind = "tls"
    <3>1. PICK b, r : b = cli.recv_buffer \o piece /\ r = AfterRecords(b)
      OBVIOUS
    <3>2. gotDown' = gotDown \o Records(b) /\ cli' = [cli EXCEPT !.recv_buffer = r]
      BY <2>4, <3>1 DEF ClientData
    <3>3. PICK w : w = cli.recv_buffer
      OBVIOUS
    <3>4. SentMore(DownFlow(kind), C, Q, S, w, piece, b)
      BY <1>3, <1>4, <2>3, <3>1, <3>3 DEF SentMore
    <3>5. Grown(DownFlow(kind), C, S, b)
      BY <1>3, <3>4, Extends
    <3>6. ComesDown(kind, b, m, S)
      BY <2>3, <3>5 DEF Grown, ComesDown
    <3>7. PICK z : DecodesDown(kind, b, m, S, z)
      BY <1>3, <3>6, DataDown
    <3>8. PICK A : A = At(DownLen(kind), kind = "tls", 0, z)
      OBVIOUS
    <3>9. /\ z \in Nat /\ m <= z /\ A \in Nat /\ A <= S /\ S - A < (IF kind = "tls" THEN 2 ELSE 1)
          /\ Records(b) = Run(m, z) /\ r = Slice(DownFlow(kind), A, S)
      BY <2>4, <3>1, <3>7, <3>8 DEF DecodesDown, Decodes
    <3>10. gotDown' = Run(0, z)
      BY <2>1, <3>2, <3>9, RunsOn
    <3>11. gotDown' \in Seq(Nat) /\ Len(gotDown') = z
      BY <3>9, <3>10, RunType
    <3>12. Sliced(Cells, DownFlow(kind), A, S, r)
      BY <1>3, <3>9, SliceIsSeq
    <3>13. r \in Seq(Cells)
      BY <3>12 DEF Sliced
    <3>14. /\ cli' \in Sides /\ cli'.sent = cli.sent /\ cli'.heard = cli.heard
           /\ cli'.open = cli.open /\ cli'.left = cli.left /\ cli'.dead = cli.dead
           /\ cli'.send_buffer = cli.send_buffer /\ cli'.recv_buffer = r
      BY <1>3, <3>2, <3>13 DEF Sides
    <3>15. cli'.heard /\ cli'.recv_buffer = Slice(DownFlow(kind), A, S)
      BY <1>2, <3>9, <3>14
    <3>16. DownTaken(kind, S, cli', z, cut')
      BY <3>8, <3>9, <3>15, HeardAt
    <3>17. FlagsOK(kind, cli', srv, cut')
      BY <1>2, <1>3, <3>14 DEF FlagsOK
    <3>18. gotDown' = Run(0, Len(gotDown')) /\ DownTaken(kind, S, cli', Len(gotDown'), cut')
           /\ cut' \in BOOLEAN
      BY <1>2, <1>3, <3>10, <3>11, <3>16
    <3> QED
      BY <1>2, <3>11, <3>14, <3>17, <3>18, ClientListens
  <2>5. CASE kind # "tls"
    <3>1. gotDown' = gotDown \o Taken(piece) /\ cli' = cli
      BY <2>5 DEF ClientData
    <3>2. C = Q
      BY <1>3, <2>3, <2>5
    <3>3. ComesDown(kind, piece, m, S)
      BY <1>3, <1>4, <2>3, <3>2 DEF ComesDown
    <3>4. PICK z : DecodesDown(kind, piece, m, S, z)
      BY <1>3, <3>3, DataDown
    <3>5. PICK A : A = At(DownLen(kind), kind = "tls", 0, z)
      OBVIOUS
    <3>6. /\ z \in Nat /\ m <= z /\ A \in Nat /\ A <= S /\ S - A < (IF kind = "tls" THEN 2 ELSE 1)
          /\ Taken(piece) = Run(m, z)
      BY <2>5, <3>4, <3>5 DEF DecodesDown, Decodes
    <3>7. A = S
      BY <1>3, <2>5, <3>6
    <3>8. gotDown' = Run(0, z)
      BY <2>1, <3>1, <3>6, RunsOn
    <3>9. gotDown' \in Seq(Nat) /\ Len(gotDown') = z
      BY <3>6, <3>8, RunType
    <3>10. cli'.recv_buffer = Slice(DownFlow(kind), A, S) /\ cli'.heard
      BY <1>2, <1>3, <2>3, <3>1, <3>2, <3>7, SliceEmpty
    <3>11. DownTaken(kind, S, cli', z, cut')
      BY <3>5, <3>6, <3>10, HeardAt
    <3>12. gotDown' = Run(0, Len(gotDown')) /\ DownTaken(kind, S, cli', Len(gotDown'), cut')
           /\ cut' \in BOOLEAN /\ FlagsOK(kind, cli', srv, cut') /\ cli' \in Sides
      BY <1>2, <1>3, <3>1, <3>8, <3>9, <3>11
    <3> QED
      BY <1>2, <3>1, <3>9, <3>12, ClientListens
  <2> QED
    BY <2>4, <2>5
<1> QED
  BY <1>6, <1>7

\* The call of client_encode that client_decode asks for.
LEMMA ClientGoesOnInv ==
  ASSUME Inv, NEW Q, NEW D, NEW S, NEW j \in Nat, NEW piece, Hears(Q, D, S, j, piece),
         ClientGoesOn, kind # "http", ~cli.heard, UNCHANGED gotDown,
         cut' = (cut \/ piece # Reply)
  PROVE  kind = "random" \/ piece = Reply => Inv'
<1>0. HAVE kind = "random" \/ piece = Reply
<1>1. ClientFacts(Q, D, S, j, piece)
  BY ClientKnown
<1>2. /\ kind \in Plugins /\ Q \in Nat /\ D \in Nat /\ S \in Nat /\ S = Q + j /\ cut \in BOOLEAN
      /\ cli \in Sides /\ FlagsOK(kind, cli, srv, cut) /\ DownTaken(kind, Q, cli, Len(gotDown), cut)
      /\ cli.sent /\ Len(piece) = j
      /\ srv.sent /\ srv.heard /\ KeptBack(cli, givenUp) /\ gotDown \in Seq(Nat)
      /\ DownSent(kind, S, D, srv, Len(givenDown), down') /\ down' \in Seq(Cells)
  BY <1>1 DEF ClientFacts
<1>3. ~cli.open /\ cli.send_buffer = givenUp
  BY <1>2 DEF FlagsOK, KeptBack
<1>4. cut' \in BOOLEAN /\ (cut => cut')
  BY <1>2
<1>5. PICK n \in Nat : n = Len(givenUp)
  BY Known
<1>6. givenUp = Run(0, n) /\ givenUp \in Seq(1..MaxUp)
  BY <1>5 DEF Inv, UpInv, TypeOK
<1>7. PICK k \in Nat, P \in Nat, T \in Nat :
        /\ UpSent(kind, k, P, T, cli, n, up)
        /\ ~srv.left /\ ~srv.dead => \E C \in Nat : UpTaken(kind, k, P, C, srv, Len(gotUp))
  BY <1>5 DEF Inv, UpInv
<1>8. T = 2 /\ P <= T /\ up = Slice(UpFlow(kind, k), P, T) /\ k = 0
  BY <1>2, <1>3, <1>7 DEF UpSent, Reached
<1>9. PICK c : c = [cli EXCEPT !.heard = TRUE]
  OBVIOUS
<1>10. /\ c \in Sides /\ c.heard /\ c.sent = cli.sent /\ c.open = cli.open /\ c.left = cli.left
       /\ c.dead = cli.dead /\ c.send_buffer = cli.send_buffer /\ c.recv_buffer = cli.recv_buffer
  BY <1>2, <1>9 DEF Sides
<1>11. PICK e, z : e = <<>> /\ z = 0
  OBVIOUS
<1>12. cli' = Encoded(c, e, z)[1] /\ up' = up \o Encoded(c, e, z)[2]
  BY <1>9, <1>11 DEF ClientGoesOn
<1>13. EncodedCases(c, e, z)
  BY <1>2, EncodedIs
<1>14. PICK U : U = At(UpLen(kind), kind = "tls", k, n)
  OBVIOUS
<1>15. U \in Nat /\ UpLen(kind) <= U /\ k <= n /\ k \in Nat
  <2>1. k <= n /\ n <= n
    BY <1>8
  <2> QED
    BY <1>14, <2>1, UpAhead DEF Ahead
<1>16. PICK o \in Nat : o = 0
  OBVIOUS
<1>17. PICK y : y = Encode(givenUp)
  OBVIOUS
<1>18. PICK V : V = At(UpLen(kind), kind = "tls", k, o)
  OBVIOUS
<1>19. V = UpLen(kind) /\ V \in Nat /\ V <= U
  <2>1. V = UpLen(kind)
    BY <1>8, <1>16, <1>18 DEF At, UpLen
  <2>2. UpLen(kind) \in Nat
    BY DEF UpLen
  <2> QED
    BY <1>15, <2>1, <2>2
<1>20. y = Slice(UpFlow(kind, k), V, U)
  <2>1. k <= o /\ o <= n
    BY <1>8, <1>16
  <2>2. EncodesUp(kind, k, o, n, Encode(Run(o, n)))
    BY <1>2, <2>1, EncodeUp
  <2> QED
    BY <1>6, <1>14, <1>16, <1>17, <1>18, <2>2 DEF EncodesUp
<1>21. cli' = [c EXCEPT !.open = TRUE, !.send_buffer = <<>>] /\ Grown(UpFlow(kind, k), P, U, up')
  <2>1. CASE kind = "tls"
    <3>1. PICK x : x = Finish \o y
      OBVIOUS
    <3>2. Encoded(c, e, z) = <<[c EXCEPT !.open = TRUE, !.send_buffer = <<>>], x>>
      BY <1>2, <1>3, <1>10, <1>11, <1>13, <1>17, <2>1, <3>1 DEF EncodedCases
    <3>3. cli' = [c EXCEPT !.open = TRUE, !.send_buffer = <<>>] /\ up' = up \o x
      BY <1>12, <3>2
    <3>4. PICK f : f = Finish
      OBVIOUS
    <3>5. f = Slice(UpFlow(kind, k), T, V)
      BY <1>8, <1>19, <2>1, <3>4, FinishIs DEF UpLen
    <3>6. T <= V
      BY <1>8, <1>19, <2>1 DEF UpLen
    <3>7. SentMore(UpFlow(kind, k), T, V, U, f, y, x)
      BY <1>19, <1>20, <3>1, <3>4, <3>5, <3>6 DEF SentMore
    <3>8. UpFlow(kind, k) \in [Places -> Cells]
      BY <1>2, FlowsType DEF Flows
    <3>9. Grown(UpFlow(kind, k), T, U, x)
      BY <1>15, <1>19, <3>7, <3>8, Extends
    <3>10. PICK v : v = up \o x
      OBVIOUS
    <3>11. SentMore(UpFlow(kind, k), P, T, U, up, x, v)
      BY <1>8, <3>9, <3>10 DEF SentMore, Grown
    <3>12. Grown(UpFlow(kind, k), P, U, v)
      BY <1>15, <3>8, <3>11, Extends
    <3> QED
      BY <3>3, <3>10, <3>12
  <2>2. CASE kind = "random"
    <3>1. givenUp \o e = givenUp
      BY <1>6, <1>11
    <3>2. Encoded(c, e, z) = <<[c EXCEPT !.open = TRUE, !.send_buffer = <<>>], y>>
      BY <1>2, <1>3, <1>10, <1>13, <1>17, <2>2, <3>1 DEF EncodedCases
    <3>3. cli' = [c EXCEPT !.open = TRUE, !.send_buffer = <<>>] /\ up' = up \o y
      BY <1>12, <3>2
    <3>4. T = V
      BY <1>8, <1>19, <2>2 DEF UpLen
    <3>5. UpFlow(kind, k) \in [Places -> Cells]
      BY <1>2, FlowsType DEF Flows
    <3>6. PICK v : v = up \o y
      OBVIOUS
    <3>7. SentMore(UpFlow(kind, k), P, T, U, up, y, v)
      BY <1>8, <1>19, <1>20, <3>4, <3>6 DEF SentMore
    <3>8. Grown(UpFlow(kind, k), P, U, v)
      BY <1>15, <3>5, <3>7, Extends
    <3> QED
      BY <3>3, <3>6, <3>8
  <2> QED
    BY <1>2, <2>1, <2>2 DEF Plugins
<1>22. /\ cli' \in Sides /\ cli'.heard /\ cli'.open /\ cli'.send_buffer = <<>>
       /\ cli'.sent = cli.sent /\ cli'.left = cli.left /\ cli'.dead = cli.dead
       /\ cli'.recv_buffer = cli.recv_buffer
  <2>1. <<>> \in Seq(1..MaxUp)
    OBVIOUS
  <2> QED
    BY <1>10, <1>21, <2>1 DEF Sides
<1>23. FlagsOK(kind, cli', srv, cut')
  BY <1>2, <1>4, <1>22 DEF FlagsOK, Hears
<1>24. UpSent(kind, k, P, U, cli', n, up')
  BY <1>2, <1>8, <1>14, <1>15, <1>21, <1>22 DEF UpSent, Reached, Grown
<1>25. KeptBack(cli', givenUp) /\ cli'.sent /\ up' \in Seq(Cells)
  BY <1>2, <1>21, <1>22 DEF KeptBack, Grown
<1>26. /\ Len(gotDown) = 0 /\ cli.recv_buffer = <<>> /\ Q = 0
  <2>1. DownUnheard(kind, Q, cli, Len(gotDown), cut)
    BY <1>2 DEF DownTaken
  <2>2. Q < 1
    BY <2>1 DEF DownUnheard, Hears
  <2> QED
    BY <1>2, <2>1, <2>2 DEF DownUnheard
<1>27. gotDown' \in Seq(Nat) /\ Len(gotDown') = 0 /\ gotDown' = Run(0, Len(gotDown'))
  BY <1>2, <1>26, NoUnits
<1>28. DownTaken(kind, S, cli', Len(gotDown'), cut')
  <2>1. CASE piece = Reply
    <3>1. S = 2 /\ DownLen(kind) = 2
      <4>1. DownLen(kind) = 2
        BY DEF DownLen
      <4>2. Len(Reply) = DownLen(kind)
        BY <1>2, ReplyIs
      <4>3. j = 2
        BY <1>2, <2>1, <4>1, <4>2
      <4> QED
        BY <1>2, <1>26, <4>1, <4>3
    <3>2. S = At(DownLen(kind), kind = "tls", 0, o)
      BY <1>16, <3>1 DEF At
    <3>3. S <= S /\ S - S < (IF kind = "tls" THEN 2 ELSE 1)
      BY <1>2
    <3>4. cli'.recv_buffer = Slice(DownFlow(kind), S, S)
      BY <1>2, <1>22, <1>26, SliceEmpty
    <3>5. DownTaken(kind, S, cli', o, cut')
      BY <1>2, <1>22, <3>2, <3>3, <3>4, HeardAt
    <3> QED
      BY <1>16, <1>27, <3>5
  <2>2. CASE piece # Reply
    BY <1>0, <1>22, <2>2 DEF DownTaken
  <2> QED
    BY <2>1, <2>2
<1>29. UNCHANGED <<kind, srv, givenUp, gotUp, givenDown>>
  BY DEF Hears
<1>30. UpSent(kind, k, P, U, cli', Len(givenUp), up')
  BY <1>5, <1>24
<1> QED
  BY <1>2, <1>4, <1>7, <1>15, <1>22, <1>23, <1>25, <1>27, <1>28, <1>29, <1>30, ClientTakes

\* The server hello.
LEMMA ClientHelloInv ==
  ASSUME Inv, NEW Q, NEW D, NEW S, NEW j \in Nat, NEW piece, Hears(Q, D, S, j, piece),
         ClientHello(piece)
  PROVE  Inv'
<1>1. ClientFacts(Q, D, S, j, piece)
  BY ClientKnown
<1>2. kind = "tls" /\ ~cli.heard /\ cut' = (cut \/ piece # Reply) /\ UNCHANGED gotDown
  BY DEF ClientHello
<1>3. CASE piece = Reply
  <2>1. ClientGoesOn /\ kind # "http"
    BY <1>2, <1>3 DEF ClientHello
  <2> QED
    BY <1>2, <1>3, <2>1, ClientGoesOnInv
<1>4. CASE piece # Reply
  <2>1. cli' = [cli EXCEPT !.dead = TRUE] /\ UNCHANGED up /\ cut'
    BY <1>2, <1>4 DEF ClientHello
  <2>2. /\ cli' \in Sides /\ cli'.dead /\ cli'.heard = cli.heard /\ cli'.open = cli.open
        /\ cli'.sent = cli.sent /\ cli'.left = cli.left
        /\ cli'.send_buffer = cli.send_buffer /\ cli'.recv_buffer = cli.recv_buffer
    BY <1>1, <2>1 DEF ClientFacts, Sides
  <2>3. cut' \in BOOLEAN
    BY <1>2
  <2>4. FlagsOK(kind, cli', srv, cut')
    BY <1>1, <1>2, <2>1, <2>2 DEF ClientFacts, FlagsOK
  <2>5. DownUnheard(kind, Q, cli, Len(gotDown), cut)
    BY <1>1, <1>2 DEF ClientFacts, DownTaken
  <2>6. DownTaken(kind, S, cli', Len(gotDown'), cut')
    BY <1>2, <2>2, <2>5 DEF DownTaken, DownUnheard
  <2>7. gotDown' \in Seq(Nat) /\ gotDown' = Run(0, Len(gotDown'))
    BY <1>1, <1>2 DEF ClientFacts
  <2> QED
    BY <2>1, <2>2, <2>3, <2>4, <2>6, <2>7, ClientListens
<1> QED
  BY <1>3, <1>4

\* The random head.
LEMMA ClientHeadInv ==
  ASSUME Inv, NEW Q, NEW D, NEW S, NEW j \in Nat, NEW piece, Hears(Q, D, S, j, piece),
         ClientHead(piece)
  PROVE  Inv'
<1>1. kind = "random" /\ kind # "http" /\ ~cli.heard /\ cut' = (cut \/ piece # Reply)
      /\ UNCHANGED gotDown /\ ClientGoesOn
  BY DEF ClientHead
<1> QED
  BY <1>1, ClientGoesOnInv

\* Where the empty line is in the stream of an HTTP server.
LineAt(F, p) == (F[p].part = "cr" <=> p = 2) /\ (F[p].part = "lf" <=> p = 3)

LEMMA EmptyLine ==
  ASSUME NEW kd, kd = "http", NEW p \in Places
  PROVE  LineAt(DownFlow(kd), p)
<1>0. PICK k \in Nat : k = 0
  OBVIOUS
<1>1. PICK q : q = <<"status", "cr", "lf">>
  OBVIOUS
<1>2. PICK H : H = Message(q)
  OBVIOUS
<1>3. q \in Seq(Parts) /\ Len(q) = 3 /\ q[1] = "status" /\ q[2] = "cr" /\ q[3] = "lf"
  BY <1>1, ListsType DEF Lists
<1>4. MessageIs(q, 3, H)
  BY <1>2, <1>3, MessageType
<1>5. Len(H) = 3 /\ \A i \in 1..3 : H[i] = Cell(q[i], <<>>)
  BY <1>4 DEF MessageIs
<1>6. /\ Cell("status", <<>>).part = "status" /\ Cell("cr", <<>>).part = "cr"
      /\ Cell("lf", <<>>).part = "lf"
  BY DEF Cell
<1>7. H[1].part = "status" /\ H[2].part = "cr" /\ H[3].part = "lf"
  <2>1. 1 \in 1..3 /\ 2 \in 1..3 /\ 3 \in 1..3
    OBVIOUS
  <2> QED
    BY <1>3, <1>5, <1>6, <2>1
<1>8. PICK F : F = DownFlow(kd)
  OBVIOUS
<1>9. DownHand(kd) = H
  BY <1>1, <1>2 DEF DownHand
<1>10. F[p] = IF p <= 3 THEN H[p] ELSE Datum(kd = "tls", 0, p - 3)
  BY <1>5, <1>8, <1>9 DEF DownFlow, Endless
<1>11. CASE p <= 3
  <2>1. p = 1 \/ p = 2 \/ p = 3
    BY <1>11 DEF Places
  <2>2. F[p] = H[p]
    BY <1>10, <1>11
  <2> QED
    BY <1>7, <1>8, <2>1, <2>2 DEF LineAt
<1>12. CASE ~(p <= 3)
  <2>1. PICK d : d = <<0 + (p - 3)>>
    OBVIOUS
  <2>2. F[p] = Cell("raw", d)
    BY <1>10, <1>12, <2>1 DEF Datum
  <2>3. Cell("raw", d).part = "raw"
    BY DEF Cell
  <2>4. p # 2 /\ p # 3
    BY <1>12
  <2> QED
    BY <1>8, <2>2, <2>3, <2>4 DEF LineAt
<1> QED
  BY <1>11, <1>12

\* The header of the HTTP reply.
LEMMA ClientHeaderInv ==
  ASSUME Inv, NEW Q, NEW D, NEW S, NEW j \in Nat, NEW piece, Hears(Q, D, S, j, piece),
         ClientHeader(piece), j # 0
  PROVE  Inv'
<1>1. ClientFacts(Q, D, S, j, piece)
  BY ClientKnown
<1>2. kind = "http" /\ ~cli.heard /\ UNCHANGED up
  BY DEF ClientHeader
<1>3. PICK F : F = DownFlow(kind)
  OBVIOUS
<1>4. /\ kind \in Plugins /\ Q \in Nat /\ S \in Nat /\ S = Q + j /\ S - Q = j
      /\ cli \in Sides /\ cut \in BOOLEAN
      /\ piece = Slice(F, Q, S) /\ FlagsOK(kind, cli, srv, cut) /\ F \in [Places -> Cells]
      /\ Len(piece) = j /\ gotDown \in Seq(Nat) /\ srv.sent /\ cli.sent
      /\ DownTaken(kind, Q, cli, Len(gotDown), cut)
  BY <1>1, <1>3 DEF ClientFacts
<1>5. Q <= S
  BY <1>4
<1>6. \A i \in 1..j : piece[i] = F[Q + i] /\ Q + i \in Places
  <2>1. Sliced(Cells, F, Q, S, piece)
    BY <1>4, <1>5, SliceIsSeq
  <2>2. \A i \in 1..j : Q + i \in Places
    BY <1>4 DEF Places
  <2> QED
    BY <1>4, <2>1, <2>2 DEF Sliced
<1>7. ASSUME NEW i \in 1..j
      PROVE  (piece[i].part = "cr" <=> Q + i = 2) /\ (piece[i].part = "lf" <=> Q + i = 3)
  <2>1. PICK p \in Places : p = Q + i
    BY <1>6
  <2>2. LineAt(F, p)
    BY <1>2, <1>3, EmptyLine
  <2> QED
    BY <1>6, <2>1, <2>2 DEF LineAt
<1>8. /\ Len(gotDown) = 0 /\ cli.recv_buffer = <<>> /\ (cut \/ Q < 2)
  <2>1. DownUnheard(kind, Q, cli, Len(gotDown), cut)
    BY <1>2, <1>4 DEF DownTaken
  <2> QED
    BY <1>2, <2>1 DEF DownUnheard, Hears
<1>9. gotDown = <<>>
  BY <1>4, <1>8
<1>10. PICK ends : ends = {i \in 2..j : piece[i - 1].part = "cr" /\ piece[i].part = "lf"}
  OBVIOUS
<1>11. AfterHeader(piece) = {SubSeq(piece, i + 1, Len(piece)) : i \in ends}
  BY <1>4, <1>10 DEF AfterHeader
<1>12. CASE AfterHeader(piece) = {}
  <2>1. cut' = (cut \/ piece[Len(piece)].part = "cr") /\ cli' = cli /\ gotDown' = gotDown
    BY <1>12 DEF ClientHeader
  <2>2. cut' \in BOOLEAN /\ (cut => cut')
    BY <2>1
  <2>3. ends = {}
    BY <1>11, <1>12
  <2>4. cut' \/ S < 2
    <3>1. ASSUME ~cut, S >= 2 PROVE piece[j].part = "cr"
      <4>2. j \in 1..j /\ Q + j = S
        BY <1>4
      <4>3. CASE S = 2
        BY <1>7, <4>2, <4>3
      <4>4. CASE S # 2
        <5>1. PICK i : i = 3 - Q
          OBVIOUS
        <5>2. Q < 2
          BY <1>8, <3>1
        <5>3. i \in 2..j /\ i \in 1..j /\ i - 1 \in 1..j /\ Q + i = 3 /\ Q + (i - 1) = 2
          BY <1>4, <3>1, <4>4, <5>1, <5>2
        <5>4. piece[i - 1].part = "cr" /\ piece[i].part = "lf"
          BY <1>7, <5>3
        <5>5. i \in ends
          BY <1>10, <5>3, <5>4
        <5> QED
          BY <2>3, <5>5
      <4> QED
        BY <4>3, <4>4
    <3>2. S >= 2 \/ S < 2
      BY <1>4
    <3>3. cut' = (cut \/ piece[j].part = "cr")
      BY <1>4, <2>1
    <3> QED
      BY <3>1, <3>2, <3>3
  <2>5. DownTaken(kind, S, cli', Len(gotDown'), cut')
    BY <1>2, <1>8, <2>1, <2>4 DEF DownTaken, DownUnheard
  <2>6. FlagsOK(kind, cli', srv, cut')
    BY <1>4, <2>1, <2>2 DEF FlagsOK
  <2>7. gotDown' \in Seq(Nat) /\ gotDown' = Run(0, Len(gotDown')) /\ cli' \in Sides
    BY <1>4, <1>8, <1>9, <2>1, NoUnits
  <2> QED
    BY <1>2, <2>1, <2>2, <2>5, <2>6, <2>7, ClientListens
<1>13. CASE AfterHeader(piece) # {}
  <2>1. PICK rest \in AfterHeader(piece) : gotDown' = gotDown \o Taken(rest)
    BY <1>13 DEF ClientHeader
  <2>2. cli' = [cli EXCEPT !.heard = TRUE] /\ UNCHANGED cut
    BY <1>13 DEF ClientHeader
  <2>3. PICK i \in ends : rest = SubSeq(piece, i + 1, Len(piece))
    BY <1>11, <2>1
  <2>4. i \in 1..j /\ i \in Nat /\ piece[i].part = "lf"
    BY <1>10
  <2>5. Q + i = 3
    BY <1>7, <2>4
  <2>6. PICK x \in Nat : x = 3
    OBVIOUS
  <2>7. i <= S - Q /\ x <= S /\ Q + i = x
    BY <1>4, <2>4, <2>5, <2>6
  <2>8. CutAt(F, Q, S, i)
    BY <1>4, <1>5, <2>4, <2>7, SliceCut
  <2>9. rest = Slice(F, x, S)
    BY <1>4, <2>3, <2>7, <2>8 DEF CutAt
  <2>10. PICK m \in Nat : m = 0
    OBVIOUS
  <2>11. x = At(DownLen(kind), kind = "tls", 0, m)
    BY <1>2, <2>6, <2>10 DEF At, DownLen
  <2>12. ComesDown(kind, rest, m, S)
    BY <1>3, <2>7, <2>9, <2>11 DEF ComesDown
  <2>13. PICK z : DecodesDown(kind, rest, m, S, z)
    BY <1>4, <2>12, DataDown
  <2>14. PICK A : A = At(DownLen(kind), kind = "tls", 0, z)
    OBVIOUS
  <2>15. /\ z \in Nat /\ m <= z /\ A \in Nat /\ A <= S /\ S - A < (IF kind = "tls" THEN 2 ELSE 1)
         /\ Taken(rest) = Run(m, z)
    BY <1>2, <2>13, <2>14 DEF DecodesDown, Decodes
  <2>16. A = S
    BY <1>2, <1>4, <2>15
  <2>17. gotDown' = Run(0, z)
    <3>1. gotDown = Run(0, m)
      BY <1>9, <2>10, NoUnits
    <3> QED
      BY <2>1, <2>15, <3>1, RunsOn
  <2>18. gotDown' \in Seq(Nat) /\ Len(gotDown') = z
    BY <2>15, <2>17, RunType
  <2>19. /\ cli' \in Sides /\ cli'.heard /\ cli'.sent = cli.sent
         /\ cli'.open = cli.open /\ cli'.left = cli.left /\ cli'.dead = cli.dead
         /\ cli'.send_buffer = cli.send_buffer /\ cli'.recv_buffer = cli.recv_buffer
    BY <1>4, <2>2 DEF Sides
  <2>20. cli'.recv_buffer = Slice(DownFlow(kind), A, S)
    BY <1>4, <1>8, <2>16, <2>19, SliceEmpty
  <2>21. DownTaken(kind, S, cli', z, cut')
    BY <2>14, <2>15, <2>19, <2>20, HeardAt
  <2>22. FlagsOK(kind, cli', srv, cut')
    BY <1>2, <1>4, <2>2, <2>19 DEF FlagsOK, Hears
  <2>23. gotDown' = Run(0, Len(gotDown')) /\ DownTaken(kind, S, cli', Len(gotDown'), cut')
         /\ cut' \in BOOLEAN
    BY <1>4, <2>2, <2>17, <2>18, <2>21
  <2> QED
    BY <1>2, <2>18, <2>19, <2>22, <2>23, ClientListens
<1> QED
  BY <1>12, <1>13

\* client_decode.
LEMMA ClientReceiveInv ==
  ASSUME Inv, NEW j \in 1..Len(down), ClientReceive(j)
  PROVE  Inv'
<1>1. PICK Q, D, S : Reaches(Q, D, S, j)
  BY Arrives
<1>2. /\ ~cli.dead /\ down' = SubSeq(down, j + 1, Len(down))
      /\ UNCHANGED <<kind, srv, givenUp, gotUp, givenDown>>
  BY DEF ClientReceive
<1>3. PICK piece : piece = SubSeq(down, 1, j)
  OBVIOUS
<1>4. Hears(Q, D, S, j, piece) /\ j \in Nat /\ j # 0
  BY <1>1, <1>2, <1>3 DEF Hears
<1>5. CASE ClientData(piece)
  BY <1>4, <1>5, ClientDataInv
<1>6. CASE ClientHeader(piece)
  BY <1>4, <1>6, ClientHeaderInv
<1>7. CASE ClientHello(piece)
  BY <1>4, <1>7, ClientHelloInv
<1>8. CASE ClientHead(piece)
  BY <1>4, <1>8, ClientHeadInv
<1> QED
  BY <1>3, <1>5, <1>6, <1>7, <1>8 DEF ClientReceive

-----------------------------------------------------------------------------
(* The theorems.                                                             *)

LEMMA NextInv == Inv /\ [Next]_vars => Inv'
<1> SUFFICES ASSUME Inv, [Next]_vars PROVE Inv'
  OBVIOUS
<1>1. ASSUME NEW n \in 1..MaxWrite, ClientSend(n) PROVE Inv'
  <2>1. n \in Nat \ {0}
    BY ObfsAssumption
  <2> QED
    BY <1>1, <2>1, ClientSendInv
<1>2. ASSUME NEW n \in 1..MaxWrite, ServerSend(n) PROVE Inv'
  <2>1. n \in Nat \ {0}
    BY ObfsAssumption
  <2> QED
    BY <1>2, <2>1, ServerSendInv
<1>3. ASSUME NEW n \in 1..Len(up), ServerReceive(n) PROVE Inv'
  BY <1>3, ServerReceiveInv
<1>4. ASSUME NEW n \in 1..Len(down), ClientReceive(n) PROVE Inv'
  BY <1>4, ClientReceiveInv
<1>5. CASE UNCHANGED vars
  BY <1>5 DEF vars, Inv, TypeOK, FlagsInv, UpInv, DownInv
<1> QED
  BY <1>1, <1>2, <1>3, <1>4, <1>5 DEF Next

LEMMA Invariant == Spec => []Inv
BY InitInv, NextInv, PTL DEF Spec

\* Places and the units before them.
LEMMA AtOrder ==
  ASSUME NEW L \in Nat, NEW tls \in BOOLEAN, NEW k \in Nat, NEW a \in Nat, NEW b \in Nat,
         At(L, tls, k, a) <= At(L, tls, k, b)
  PROVE  /\ a <= b
         /\ At(L, tls, k, b) - At(L, tls, k, a) < (IF tls THEN 2 ELSE 1) => a = b
<1>1. CASE tls
  BY <1>1 DEF At
<1>2. CASE ~tls
  BY <1>2 DEF At
<1> QED
  BY <1>1, <1>2

\* Nothing is handed on that was not handed over: to the server's side,
LEMMA UpBounded ==
  ASSUME Inv
  PROVE  Len(gotUp) <= Len(givenUp)
<1>1. PICK m \in Nat, n \in Nat : m = Len(gotUp) /\ n = Len(givenUp)
  BY Known
<1>2. CASE srv.left \/ srv.dead
  <2>1. m = 0
    BY <1>1, <1>2 DEF Inv, FlagsInv
  <2> QED
    BY <1>1, <2>1
<1>3. CASE ~srv.left /\ ~srv.dead
  <2>1. PICK k \in Nat, P \in Nat, T \in Nat, C \in Nat :
          UpSent(kind, k, P, T, cli, n, up) /\ UpTaken(kind, k, P, C, srv, m)
    BY <1>1, <1>3 DEF Inv, UpInv
  <2>2. CASE ~srv.open
    <3>1. m = 0
      BY <2>1, <2>2 DEF UpTaken
    <3> QED
      BY <1>1, <3>1
  <2>3. CASE srv.open
    <3>1. srv.heard /\ cli.sent /\ (kind = "http" => cli.open)
      BY <2>3 DEF Inv, FlagsInv, FlagsOK
    <3>2. C = At(UpLen(kind), kind = "tls", k, m) /\ C <= P /\ k <= m /\ P <= T
      BY <2>1, <2>3, <3>1 DEF UpTaken, UpSent, Reached
    <3>3. C <= T
      BY <3>2
    <3>4. PICK L \in Nat, t \in BOOLEAN : L = UpLen(kind) /\ t = (kind = "tls")
      BY DEF UpLen
    <3>5. CASE cli.open
      <4>1. T = At(UpLen(kind), kind = "tls", k, n)
        BY <2>1, <3>1, <3>5 DEF UpSent, Reached
      <4>2. At(L, t, k, m) <= At(L, t, k, n)
        BY <3>2, <3>3, <3>4, <4>1
      <4>3. m <= n
        BY <4>2, AtOrder
      <4> QED
        BY <1>1, <4>3
    <3>6. CASE ~cli.open
      <4>1. T = 2 /\ kind # "http" /\ k = 0
        BY <2>1, <3>1, <3>6 DEF UpSent, Reached
      <4>2. kind # "tls" => m = 0
        BY <3>2, <3>3, <4>1 DEF At, UpLen
      <4>3. kind # "tls"
        BY <3>2, <3>3, <4>1 DEF At, UpLen
      <4> QED
        BY <1>1, <4>2, <4>3
    <3> QED
      BY <3>5, <3>6
  <2> QED
    BY <2>2, <2>3
<1> QED
  BY <1>2, <1>3

\* and to the client's.
LEMMA DownBounded ==
  ASSUME Inv
  PROVE  (kind = "random" /\ cut) \/ Len(gotDown) <= Len(givenDown)
<1>1. PICK m \in Nat, n \in Nat : m = Len(gotDown) /\ n = Len(givenDown)
  BY Known
<1>2. PICK Q \in Nat, D \in Nat : DownSent(kind, Q, D, srv, n, down) /\ DownTaken(kind, Q, cli, m, cut)
  BY <1>1 DEF Inv, DownInv
<1>3. CASE ~cli.heard
  <2>1. m = 0
    BY <1>2, <1>3 DEF DownTaken, DownUnheard
  <2> QED
    BY <1>1, <2>1
<1>4. CASE cli.heard /\ ~(kind = "random" /\ cut)
  <2>1. PICK C \in Nat : DownHeard(kind, Q, C, cli, m)
    BY <1>2, <1>4 DEF DownTaken
  <2>2. srv.sent
    BY <1>4 DEF Inv, FlagsInv, FlagsOK
  <2>3. /\ C = At(DownLen(kind), kind = "tls", 0, m) /\ C <= Q
        /\ D = At(DownLen(kind), kind = "tls", 0, n) /\ Q <= D
    BY <1>2, <2>1, <2>2 DEF DownHeard, DownSent
  <2>4. PICK L \in Nat, z \in Nat : L = DownLen(kind) /\ z = 0
    BY DEF DownLen
  <2>5. PICK t \in BOOLEAN : t = (kind = "tls")
    OBVIOUS
  <2>6. C <= D
    BY <2>3
  <2>7. At(L, t, z, m) <= At(L, t, z, n)
    BY <2>3, <2>4, <2>5, <2>6
  <2>8. m <= n
    BY <2>7, AtOrder
  <2> QED
    BY <1>1, <2>8
<1> QED
  BY <1>3, <1>4

\* When nothing is in flight, all cells that were sent have come.
LEMMA NothingInFlight ==
  ASSUME NEW F \in [Places -> Cells], NEW a \in Nat, NEW b \in Nat, a <= b,
         Slice(F, a, b) = <<>>
  PROVE  a = b
<1>1. PICK t : t = Slice(F, a, b)
  OBVIOUS
<1>2. Sliced(Cells, F, a, b, t)
  BY <1>1, SliceIsSeq
<1>3. Len(t) = b - a
  BY <1>2 DEF Sliced
<1>4. Len(t) = 0
  BY <1>1
<1> QED
  BY <1>3, <1>4

\* Then both sides have got everything.
LEMMA AllThrough ==
  ASSUME Inv, ~cut, ~srv.left, up = <<>>, down = <<>>
  PROVE  Len(gotUp) = Len(givenUp) /\ Len(gotDown) = Len(givenDown)
<1>1. PICK m \in Nat, n \in Nat, p \in Nat, q \in Nat :
        m = Len(gotUp) /\ n = Len(givenUp) /\ p = Len(gotDown) /\ q = Len(givenDown)
  BY Known
<1>2. kind \in Plugins /\ FlagsOK(kind, cli, srv, cut) /\ (~cli.sent => n = 0) /\ (~srv.sent => q = 0)
  BY <1>1, Known DEF Inv, FlagsInv
<1>3. ~srv.dead /\ ~cli.dead
  BY <1>2 DEF FlagsOK
<1>4. m <= n
  BY <1>1, UpBounded
<1>04. p <= q
  BY <1>1, DownBounded
<1>5. PICK k \in Nat, P \in Nat, T \in Nat, C \in Nat :
        UpSent(kind, k, P, T, cli, n, up) /\ UpTaken(kind, k, P, C, srv, m)
  BY <1>1, <1>3 DEF Inv, UpInv
<1>6. P = T
  <2>1. P <= T /\ Slice(UpFlow(kind, k), P, T) = <<>>
    BY <1>5 DEF UpSent
  <2>2. UpFlow(kind, k) \in [Places -> Cells]
    BY <1>2, FlowsType DEF Flows
  <2> QED
    BY <2>1, <2>2, NothingInFlight
<1>7. PICK Q \in Nat, D \in Nat : DownSent(kind, Q, D, srv, q, down) /\ DownTaken(kind, Q, cli, p, cut)
  BY <1>1 DEF Inv, DownInv
<1>8. Q = D
  <2>1. Q <= D /\ Slice(DownFlow(kind), Q, D) = <<>>
    BY <1>7 DEF DownSent
  <2> QED
    BY <1>2, <2>1, DownType, NothingInFlight
<1>9. ASSUME srv.sent PROVE cli.heard /\ p = q
  <2>1. D = At(DownLen(kind), kind = "tls", 0, q)
    BY <1>7, <1>9 DEF DownSent
  <2>2. q <= q
    OBVIOUS
  <2>3. DownLen(kind) <= D
    BY <2>1, <2>2, DownAhead DEF DownPlaces
  <2>4. cli.heard
    <3>1. SUFFICES ASSUME ~cli.heard PROVE FALSE
      OBVIOUS
    <3>2. Q < (IF kind = "http" THEN 2 ELSE 1)
      BY <1>3, <1>7, <3>1 DEF DownTaken, DownUnheard
    <3> QED
      BY <1>8, <2>3, <3>2 DEF DownLen
  <2>5. PICK A \in Nat : DownHeard(kind, Q, A, cli, p)
    BY <1>7, <2>4 DEF DownTaken
  <2>6. /\ A = At(DownLen(kind), kind = "tls", 0, p) /\ A <= D
        /\ D - A < (IF kind = "tls" THEN 2 ELSE 1)
    BY <1>8, <2>5 DEF DownHeard
  <2>7. PICK L \in Nat, z \in Nat : L = DownLen(kind) /\ z = 0
    BY DEF DownLen
  <2>8. PICK t \in BOOLEAN : t = (kind = "tls")
    OBVIOUS
  <2>9. At(L, t, z, p) <= At(L, t, z, q) /\ At(L, t, z, q) - At(L, t, z, p) < (IF t THEN 2 ELSE 1)
    BY <2>1, <2>6, <2>7, <2>8
  <2>10. p = q
    BY <2>9, AtOrder
  <2> QED
    BY <2>4, <2>10
<1>10. p = q
  <2>1. CASE ~srv.sent
    BY <1>2, <1>04, <2>1
  <2> QED
    BY <1>9, <2>1
<1>11. m = n
  <2>1. CASE ~cli.sent
    BY <1>2, <1>4, <2>1
  <2>2. CASE cli.sent
    <3>1. k <= n /\ n <= n
      BY <1>5, <2>2 DEF UpSent
    <3>2. UpLen(kind) <= At(UpLen(kind), kind = "tls", k, n)
      BY <3>1, UpAhead DEF Ahead
    <3>3. T = 2 \/ T = At(UpLen(kind), kind = "tls", k, n)
      BY <1>5, <2>2 DEF UpSent, Reached
    <3>4. T >= 2
      BY <3>2, <3>3 DEF UpLen
    <3>5. srv.heard
      <4>1. SUFFICES ASSUME ~srv.heard PROVE FALSE
        OBVIOUS
      <4>2. C = 0 /\ P - C < Limit(kind, srv.heard, srv.open)
        BY <1>5, <4>1 DEF UpTaken, Reached
      <4>3. Limit(kind, srv.heard, srv.open) = 1 \/ Limit(kind, srv.heard, srv.open) = 2
        BY <4>1 DEF Limit
      <4> QED
        BY <1>6, <3>4, <4>2, <4>3
    <3>6. cli.open
      <4>1. CASE kind = "http"
        BY <1>2, <2>2, <4>1 DEF FlagsOK
      <4>2. CASE kind # "http"
        <5>1. srv.sent
          BY <1>2, <3>5, <4>2 DEF FlagsOK
        <5>2. cli.heard
          BY <1>9, <5>1
        <5> QED
          BY <1>2, <4>2, <5>2 DEF FlagsOK
      <4> QED
        BY <4>1, <4>2
    <3>7. T = At(UpLen(kind), kind = "tls", k, n)
      BY <1>5, <2>2, <3>6 DEF UpSent, Reached
    <3>8. srv.open
      <4>1. SUFFICES ASSUME ~srv.open PROVE FALSE
        OBVIOUS
      <4>2. kind = "tls"
        BY <1>2, <3>5, <4>1 DEF FlagsOK
      <4>3. C = 2 /\ P - C < 3
        BY <1>5, <3>5, <4>1 DEF UpTaken, Reached, Limit
      <4>4. UpLen(kind) = 5
        BY <4>2 DEF UpLen
      <4>5. T >= 5
        BY <3>2, <3>7, <4>4
      <4> QED
        BY <1>6, <4>3, <4>5
    <3>9. /\ C = At(UpLen(kind), kind = "tls", k, m) /\ C <= T
          /\ T - C < (IF kind = "tls" THEN 2 ELSE 1)
      BY <1>5, <1>6, <3>5, <3>8 DEF UpTaken, Reached, Limit
    <3>10. PICK L \in Nat : L = UpLen(kind)
      BY DEF UpLen
    <3>11. PICK t \in BOOLEAN : t = (kind = "tls")
      OBVIOUS
    <3>12. At(L, t, k, m) <= At(L, t, k, n) /\ At(L, t, k, n) - At(L, t, k, m) < (IF t THEN 2 ELSE 1)
      BY <3>7, <3>9, <3>10, <3>11
    <3> QED
      BY <3>12, AtOrder
  <2> QED
    BY <2>1, <2>2
<1> QED
  BY <1>1, <1>10, <1>11

\* The plugin objects of obfs_tls.py and http_simple.py are only ever in the
\* states of TypeOK: the flags fit together, and data is kept back only between
\* the greeting and the opening.
THEOREM TypeCorrect == Spec => []TypeOK
<1>1. Inv => TypeOK
  BY DEF Inv
<1> QED
  BY <1>1, Invariant, PTL

\* For every cut of the stream and every interleaving of the two sides, what
\* client_decode and server_decode hand on is a prefix of what the other side's
\* encoder was given (of random_head's client_decode this is said where the
\* heads come whole); a server that leaves the protocol has handed on nothing.
THEOREM StreamsInOrder == Spec => []InOrder
<1>1. ASSUME Inv PROVE InOrder
  <2>1. PICK m \in Nat, n \in Nat, p \in Nat, q \in Nat :
          m = Len(gotUp) /\ n = Len(givenUp) /\ p = Len(gotDown) /\ q = Len(givenDown)
    BY <1>1, Known
  <2>2. IsPrefix(gotUp, givenUp)
    <3>1. m <= n
      BY <1>1, <2>1, UpBounded
    <3>2. gotUp = Run(0, m) /\ givenUp = Run(0, n)
      BY <1>1, <2>1 DEF Inv, UpInv
    <3> QED
      BY <3>1, <3>2, RunPrefix
  <2>3. (kind = "random" /\ cut) \/ IsPrefix(gotDown, givenDown)
    <3>1. CASE ~(kind = "random" /\ cut)
      <4>1. p <= q
        BY <1>1, <2>1, <3>1, DownBounded
      <4>2. gotDown = Run(0, p) /\ givenDown = Run(0, q)
        BY <1>1, <2>1, <3>1 DEF Inv, DownInv
      <4> QED
        BY <4>1, <4>2, RunPrefix
    <3> QED
      BY <3>1
  <2>4. srv.left => gotUp = <<>>
    BY <1>1 DEF Inv, FlagsInv, TypeOK
  <2> QED
    BY <2>2, <2>3, <2>4 DEF InOrder
<1> QED
  BY <1>1, Invariant, PTL

\* Unless a message that client_decode or server_decode wants in one piece was
\* cut, nobody fails, and when nothing is in flight everything that was handed
\* over has been handed on, the data kept back during the handshake included.
THEOREM NobodyWaits == Spec => []ComesThrough
<1>1. ASSUME Inv PROVE ComesThrough
  <2>1. ASSUME ~cut, ~srv.left PROVE ~cli.dead /\ ~srv.dead
    BY <1>1, <2>1 DEF Inv, FlagsInv, FlagsOK
  <2>2. ASSUME ~cut, ~srv.left, up = <<>>, down = <<>>
        PROVE  gotUp = givenUp /\ gotDown = givenDown
    <3>1. Len(gotUp) = Len(givenUp) /\ Len(gotDown) = Len(givenDown)
      BY <1>1, <2>2, AllThrough
    <3>2. /\ gotUp = Run(0, Len(gotUp)) /\ givenUp = Run(0, Len(givenUp))
          /\ gotDown = Run(0, Len(gotDown)) /\ givenDown = Run(0, Len(givenDown))
      BY <1>1, <2>2 DEF Inv, UpInv, DownInv
    <3> QED
      BY <3>1, <3>2
  <2> QED
    BY <2>1, <2>2 DEF ComesThrough
<1> QED
  BY <1>1, Invariant, PTL
=============================================================================
