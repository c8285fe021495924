--------------------------- MODULE SequenceLemmas ---------------------------
(* Lemmas about sequences that several proofs rest on: what Del and Touch  *)
(* do to an order without repetitions, and what the parts of a sequence    *)
(* are that is cut and put together again.                                 *)
EXTENDS OrderedKeys, SequencesExt, SequenceTheorems, WellFoundedInduction, TLAPS

\* The place of a key of the order is where the key stands.
LEMMA PlaceOfKey ==
  ASSUME NEW S, NEW order \in Seq(S), NEW k \in Keys(order)
  PROVE  Place(order, k) \in 1..Len(order) /\ order[Place(order, k)] = k
<1>1. \E i \in 1..Len(order) : order[i] = k
  BY DEF Keys
<1> QED
  BY <1>1 DEF Place

\* The oldest key of an order that is not empty is one of its keys
\* (LRUCache.first).
LEMMA HeadIsKey ==
  ASSUME NEW S, NEW order \in Seq(S), Len(order) > 0
  PROVE  Head(order) \in Keys(order) /\ Head(order) \in S
<1>1. Head(order) = order[1] /\ 1 \in 1..Len(order) /\ order[1] \in S
  OBVIOUS
<1> QED
  BY <1>1 DEF Keys

\* Deleting a key leaves a sequence of the other keys, one shorter, in which
\* no key stands twice (LRUCache.__delitem__).
LEMMA DelKey ==
  ASSUME NEW S, NEW order \in Seq(S), Ordered(order), NEW k \in Keys(order)
  PROVE  /\ Del(order, k) \in Seq(S)
         /\ Len(Del(order, k)) = Len(order) - 1
         /\ Ordered(Del(order, k))
         /\ Keys(Del(order, k)) = Keys(order) \ {k}
<1> DEFINE n == Len(order)
           p == Place(order, k)
           d == Del(order, k)
<1>1. p \in 1..n /\ order[p] = k
  BY PlaceOfKey
<1>2. n \in Nat /\ n >= 1
  BY <1>1
<1>3. d = [i \in 1..(n - 1) |-> IF i < p THEN order[i] ELSE order[i + 1]]
  BY DEF Del
<1>4. d \in Seq(S) /\ Len(d) = n - 1
  <2>1. \A i \in 1..n : order[i] \in S
    OBVIOUS
  <2>2. d \in [1..(n - 1) -> S]
    BY <1>1, <1>2, <1>3, <2>1
  <2>3. n - 1 \in Nat
    BY <1>2
  <2> QED
    BY <2>2, <2>3, <1>3
<1> HIDE DEF d
<1>5. \A i \in 1..(n - 1) : d[i] = IF i < p THEN order[i] ELSE order[i + 1]
  BY <1>3
<1>6. Ordered(d)
  <2> SUFFICES ASSUME NEW i \in 1..(n - 1), NEW j \in 1..(n - 1), d[i] = d[j]
               PROVE  i = j
    BY <1>4 DEF Ordered
  <2> DEFINE at(x) == IF x < p THEN x ELSE x + 1
  <2>1. at(i) \in 1..n /\ at(j) \in 1..n
    BY <1>1, <1>2
  <2>2. order[at(i)] = order[at(j)]
    BY <1>5
  <2>3. at(i) = at(j)
    BY <2>1, <2>2 DEF Ordered
  <2> QED
    BY <2>3, <1>1
<1>7. Keys(d) = Keys(order) \ {k}
  <2>1. ASSUME NEW x \in Keys(d) PROVE x \in Keys(order) \ {k}
    <3>1. PICK i \in 1..(n - 1) : x = d[i]
      BY <1>4 DEF Keys
    <3> DEFINE a == IF i < p THEN i ELSE i + 1
    <3>2. a \in 1..n /\ a # p /\ x = order[a]
      BY <3>1, <1>5, <1>1, <1>2
    <3>3. order[a] # k
      BY <3>2, <1>1 DEF Ordered
    <3> QED
      BY <3>2, <3>3 DEF Keys
  <2>2. ASSUME NEW x \in Keys(order) \ {k} PROVE x \in Keys(d)
    <3>1. PICK a \in 1..n : x = order[a]
      BY DEF Keys
    <3> DEFINE i == IF a < p THEN a ELSE a - 1
    <3>2. a # p
      BY <3>1, <1>1
    <3>3. i \in 1..(n - 1) /\ d[i] = order[a]
      BY <3>2, <1>1, <1>2, <1>5
    <3> QED
      BY <3>1, <3>3, <1>4 DEF Keys
  <2> QED
    BY <2>1, <2>2
<1> QED
  BY <1>4, <1>6, <1>7 DEF d

\* Appending a key that is not there keeps the order free of repetitions.
LEMMA AppendKey ==
  ASSUME NEW S, NEW order \in Seq(S), Ordered(order), NEW k \in S,
         k \notin Keys(order)
  PROVE  /\ Append(order, k) \in Seq(S)
         /\ Len(Append(order, k)) = Len(order) + 1
         /\ Ordered(Append(order, k))
         /\ Keys(Append(order, k)) = Keys(order) \cup {k}
<1> DEFINE n == Len(order)
           a == Append(order, k)
<1>1. /\ n \in Nat
      /\ a \in Seq(S)
      /\ Len(a) = n + 1
      /\ \A i \in 1..n : a[i] = order[i]
      /\ a[n + 1] = k
  OBVIOUS
<1>2. \A i \in 1..n : order[i] # k
  BY DEF Keys
<1> HIDE DEF a
<1>3. Ordered(a)
  BY <1>1, <1>2 DEF Ordered
<1>4. \A x : x \in Keys(a) <=> x \in Keys(order) \cup {k}
  <2>1. ASSUME NEW x \in Keys(a) PROVE x \in Keys(order) \cup {k}
    <3>1. PICK i \in 1..(n + 1) : x = a[i]
      BY <1>1 DEF Keys
    <3> QED
      BY <3>1, <1>1 DEF Keys
  <2>2. ASSUME NEW x \in Keys(order) PROVE x \in Keys(a)
    <3>1. PICK i \in 1..n : x = order[i]
      BY DEF Keys
    <3> QED
      BY <3>1, <1>1 DEF Keys
  <2>3. k \in Keys(a)
    BY <1>1 DEF Keys
  <2> QED
    BY <2>1, <2>2, <2>3
<1>5. Keys(a) = Keys(order) \cup {k}
  BY <1>4
<1> QED
  BY <1>1, <1>3, <1>5 DEF a

\* Touching a key of the order moves it and changes nothing else
\* (LRUCache.__getitem__).
LEMMA TouchKey ==
  ASSUME NEW S, NEW order \in Seq(S), Ordered(order), NEW k \in Keys(order)
  PROVE  /\ Touch(order, k) \in Seq(S)
         /\ Len(Touch(order, k)) = Len(order)
         /\ Ordered(Touch(order, k))
         /\ Keys(Touch(order, k)) = Keys(order)
<1>1. k \in S
  BY PlaceOfKey
<1>2. /\ Del(order, k) \in Seq(S)
      /\ Len(Del(order, k)) = Len(order) - 1
      /\ Ordered(Del(order, k))
      /\ Keys(Del(order, k)) = Keys(order) \ {k}
  BY DelKey
<1>3. /\ Touch(order, k) \in Seq(S)
      /\ Len(Touch(order, k)) = Len(Del(order, k)) + 1
      /\ Ordered(Touch(order, k))
      /\ Keys(Touch(order, k)) = Keys(Del(order, k)) \cup {k}
  BY <1>1, <1>2, AppendKey DEF Touch
<1>4. Len(order) \in Nat /\ Len(Touch(order, k)) = Len(order)
  BY <1>2, <1>3
<1> QED
  BY <1>2, <1>3, <1>4

\* Cutting an order in two parts its keys: the older ones leave, the others
\* stay (LRUCache.sweep, LRUCache.clear).
LEMMA CutKeys ==
  ASSUME NEW S, NEW order \in Seq(S), Ordered(order), NEW m \in 0..Len(order)
  PROVE  /\ SubSeq(order, 1, m) \in Seq(S)
         /\ SubSeq(order, m + 1, Len(order)) \in Seq(S)
         /\ Len(SubSeq(order, 1, m)) = m
         /\ Len(SubSeq(order, m + 1, Len(order))) = Len(order) - m
         /\ Ordered(SubSeq(order, m + 1, Len(order)))
         /\ Keys(SubSeq(order, 1, m)) \subseteq Keys(order)
         /\ Keys(SubSeq(order, m + 1, Len(order)))
              = Keys(order) \ Keys(SubSeq(order, 1, m))
<1> DEFINE n == Len(order)
           h == SubSeq(order, 1, m)
           t == SubSeq(order, m + 1, n)
<1>1. n \in Nat /\ m \in Nat /\ m <= n
  OBVIOUS
<1>2. /\ h \in Seq(S) /\ Len(h) = m
      /\ \A i \in 1..m : h[i] = order[i]
  BY <1>1
<1>3. /\ t \in Seq(S) /\ Len(t) = n - m
      /\ \A i \in 1..(n - m) : t[i] = order[i + m]
  BY <1>1
<1> HIDE DEF h, t
<1>4. Ordered(t)
  <2> SUFFICES ASSUME NEW i \in 1..(n - m), NEW j \in 1..(n - m), t[i] = t[j]
               PROVE  i = j
    BY <1>3 DEF Ordered
  <2>1. i + m \in 1..n /\ j + m \in 1..n /\ order[i + m] = order[j + m]
    BY <1>1, <1>3
  <2>2. i + m = j + m
    BY <2>1 DEF Ordered
  <2> QED
    BY <1>1, <2>2
<1>5. Keys(h) \subseteq Keys(order)
  BY <1>1, <1>2 DEF Keys
<1>6. ASSUME NEW x \in Keys(t) PROVE x \in Keys(order) \ Keys(h)
  <2>1. PICK i \in 1..(n - m) : x = t[i]
    BY <1>3 DEF Keys
  <2>2. i + m \in 1..n /\ x = order[i + m]
    BY <1>1, <1>3, <2>1
  <2>3. \A j \in 1..m : h[j] # x
    BY <1>1, <1>2, <2>1, <2>2 DEF Ordered
  <2> QED
    BY <1>2, <2>2, <2>3 DEF Keys
<1>7. ASSUME NEW x \in Keys(order) \ Keys(h) PROVE x \in Keys(t)
  <2>1. PICK i \in 1..n : x = order[i]
    BY DEF Keys
  <2>2. ~(i <= m)
    BY <1>1, <1>2, <2>1 DEF Keys
  <2>3. i - m \in 1..(n - m) /\ t[i - m] = x
    BY <1>1, <1>3, <2>1, <2>2
  <2> QED
    BY <1>3, <2>3 DEF Keys
<1> QED
  BY <1>2, <1>3, <1>4, <1>5, <1>6, <1>7 DEF h, t

-----------------------------------------------------------------------------
\* A set of naturals that is not empty has a least element.
LEMMA Least ==
  ASSUME NEW T, T \subseteq Nat, T # {}
  PROVE  \E x \in T : \A y \in T : x <= y
<1>1. PICK R : R = OpToRel(<, Nat)
  OBVIOUS
<1>2. IsWellFoundedOn(R, Nat)
  BY <1>1, NatLessThanWellFounded
<1>3. \A x, y \in Nat : <<x, y>> \in R <=> x < y
  BY <1>1 DEF OpToRel
<1>4. \E x \in T : \A y \in T : ~ (<<y, x>> \in R)
  BY <1>2, WFMin
<1>5. PICK x \in T : \A y \in T : ~ (<<y, x>> \in R)
  BY <1>4
<1>6. ASSUME NEW y \in T PROVE x <= y
  <2>1. ~ (y < x)
    BY <1>3, <1>5
  <2> QED
    BY <2>1
<1> QED
  BY <1>6

\* Parts that follow one another in g, put together, are the part of g from the
\* first to the last.
Adjoining(parts, o, k, g) ==
  /\ Len(parts) = k /\ (k = 0 => parts = <<>>)
  /\ \A i \in 0..k : o[i] \in 0..Len(g)
  /\ \A i, j \in 0..k : i <= j => o[i] <= o[j]
  /\ \A i \in 1..k : parts[i] = SubSeq(g, o[i - 1] + 1, o[i])

\* FlattenSeq of such parts.
LEMMA Together ==
  ASSUME NEW S, NEW g \in Seq(S), NEW k \in Nat, NEW parts, NEW o,
         Adjoining(parts, o, k, g)
  PROVE  FlattenSeq(parts) = SubSeq(g, o[0] + 1, o[k])
<1> USE DEF Adjoining
<1>1. CASE k = 0
  <2>1. FlattenSeq(parts) = <<>>
    BY <1>1 DEF FlattenSeq
  <2>2. SubSeq(g, o[0] + 1, o[0]) = <<>>
    BY SubSeqEmpty
  <2> QED
    BY <1>1, <2>1, <2>2
<1>2. CASE k > 0
  <2>1. PICK f : f = (CHOOSE h : h = [i \in 1..k |->
                        IF i = 1 THEN parts[i] ELSE h[i - 1] \o parts[i]])
    OBVIOUS
  <2>2. FlattenSeq(parts) = f[k]
    BY <1>2, <2>1 DEF FlattenSeq
  <2>3. \A i \in 2..k : SubSeq(g, o[0] + 1, o[i - 1]) \o parts[i]
                          = SubSeq(g, o[0] + 1, o[i])
    <3> TAKE i \in 2..k
    <3>1. PICK a, c, d : a = o[0] /\ c = o[i - 1] /\ d = o[i]
      OBVIOUS
    <3>2. 0 \in 0..k /\ i - 1 \in 0..k /\ i \in 0..k /\ 0 <= i - 1 /\ i - 1 <= i
      OBVIOUS
    <3>3. /\ a \in 0..Len(g) /\ c \in 0..Len(g) /\ d \in 0..Len(g)
          /\ a <= c /\ c <= d
      BY <3>1, <3>2
    <3>4. /\ a + 1 \in 1..(Len(g) + 1) /\ c \in (a + 1) - 1..Len(g)
          /\ d \in c..Len(g)
      BY <3>3
    <3>5. SubSeq(g, a + 1, c) \o SubSeq(g, c + 1, d) = SubSeq(g, a + 1, d)
      BY <3>4, ConcatAdjacentSubSeq
    <3>6. i \in 1..k /\ parts[i] = SubSeq(g, o[i - 1] + 1, o[i])
      OBVIOUS
    <3> QED
      BY <3>1, <3>5, <3>6
  <2>4. PICK w : w = [i \in 1..k |-> SubSeq(g, o[0] + 1, o[i])]
    OBVIOUS
  <2>5. w = [i \in 1..k |-> IF i = 1 THEN parts[i] ELSE w[i - 1] \o parts[i]]
    <3>1. \A i \in 1..k : w[i] = IF i = 1 THEN parts[i] ELSE w[i - 1] \o parts[i]
      <4> TAKE i \in 1..k
      <4>1. CASE i = 1
        BY <4>1, <2>4
      <4>2. CASE i > 1
        <5>0. i - 1 \in 1..k /\ i \in 2..k /\ i # 1
          BY <4>2
        <5>1. w[i - 1] = SubSeq(g, o[0] + 1, o[i - 1])
          BY <5>0, <2>4
        <5>2. w[i] = w[i - 1] \o parts[i]
          BY <5>0, <5>1, <2>3, <2>4
        <5> QED
          BY <5>0, <5>2
      <4> QED
        BY <4>1, <4>2
    <3>2. DOMAIN w = 1..k /\ w = [i \in DOMAIN w |-> w[i]]
      BY <2>4
    <3> QED
      BY <3>1, <3>2
  <2>6. f = [i \in 1..k |-> IF i = 1 THEN parts[i] ELSE f[i - 1] \o parts[i]]
    BY <2>1, <2>5
  <2>7. \A i \in 1..k : f[i] = SubSeq(g, o[0] + 1, o[i])
    <3> DEFINE Bad == {i \in 1..k : f[i] # SubSeq(g, o[0] + 1, o[i])}
    <3>1. SUFFICES ASSUME Bad # {} PROVE FALSE
      OBVIOUS
    <3>2. Bad \subseteq Nat
      OBVIOUS
    <3>3. PICK x \in Bad : \A y \in Bad : x <= y
      BY <3>1, <3>2, Least
    <3>4. x \in 1..k /\ f[x] = IF x = 1 THEN parts[x] ELSE f[x - 1] \o parts[x]
      BY <2>6
    <3>5. x # 1
      BY <3>4
    <3>6. x - 1 \in 1..k /\ x - 1 \notin Bad
      BY <3>3, <3>4, <3>5
    <3>7. f[x - 1] = SubSeq(g, o[0] + 1, o[x - 1])
      BY <3>6
    <3>8. x \in 2..k
      BY <3>4, <3>5
    <3>9. f[x] = SubSeq(g, o[0] + 1, o[x])
      BY <2>3, <3>4, <3>5, <3>7, <3>8
    <3> QED
      BY <3>9
  <2> QED
    BY <1>2, <2>2, <2>7
<1> QED
  BY <1>1, <1>2

\* A part of s \o t that lies in s.
LEMMA PartLeft ==
  ASSUME NEW S, NEW s \in Seq(S), NEW t \in Seq(S), NEW a \in Nat, NEW b \in Nat,
         b <= Len(s)
  PROVE  SubSeq(s \o t, a + 1, b) = SubSeq(s, a + 1, b)
<1>1. CASE b < a + 1
  BY <1>1, SubSeqEmpty
<1>2. CASE a + 1 <= b
  <2>1. a + 1 \in 1..Len(s) /\ b \in 1..Len(s)
    BY <1>2
  <2> QED
    BY <2>1, SubSeqOfConcat1
<1> QED
  BY <1>1, <1>2

\* A part of s \o t that lies in t.
SamePart(s, t, a, b, l) ==
  SubSeq(s \o t, (l + a) + 1, l + b) = SubSeq(t, a + 1, b)

\* It is that part of t.
LEMMA PartRight ==
  ASSUME NEW S, NEW s \in Seq(S), NEW t \in Seq(S), NEW a \in Nat, NEW b \in Nat,
         b <= Len(t)
  PROVE  SamePart(s, t, a, b, Len(s))
<1> DEFINE l == Len(s)
<1>0. l \in Nat
  OBVIOUS
<1>1. CASE b < a + 1
  <2>1. l + b < (l + a) + 1
    BY <1>0, <1>1
  <2> QED
    BY <1>0, <1>1, <2>1, SubSeqEmpty DEF SamePart
<1>2. CASE a + 1 <= b
  <2>1. PICK m, n : m = (l + a) + 1 /\ n = l + b
    OBVIOUS
  <2>2. m \in Len(s)+1..Len(s)+Len(t) /\ n \in Len(s)+1..Len(s)+Len(t)
    BY <1>0, <1>2, <2>1
  <2>3. SubSeq(s \o t, m, n) = SubSeq(t, m - Len(s), n - Len(s))
    BY <2>2, SubSeqOfConcat2
  <2>4. m - Len(s) = a + 1 /\ n - Len(s) = b
    BY <1>0, <2>1
  <2> QED
    BY <2>1, <2>3, <2>4 DEF SamePart
<1> QED
  BY <1>1, <1>2

\* A part of a sequence is a sequence.
LEMMA PartIsSeq ==
  ASSUME NEW S, NEW s \in Seq(S), NEW a \in Nat, NEW b \in Nat, b <= Len(s)
  PROVE  /\ SubSeq(s, a + 1, b) \in Seq(S)
         /\ Len(SubSeq(s, a + 1, b)) = IF a <= b THEN b - a ELSE 0
         /\ \A i \in 1..(b - a) : SubSeq(s, a + 1, b)[i] = s[a + i]
<1>1. \A i \in (a + 1)..b : s[i] \in S
  OBVIOUS
<1>2. a + 1 \in Int /\ b \in Int
  OBVIOUS
<1>3. /\ SubSeq(s, a + 1, b) \in Seq(S)
      /\ Len(SubSeq(s, a + 1, b)) = IF a + 1 <= b THEN b - (a + 1) + 1 ELSE 0
      /\ \A i \in 1..b - (a + 1) + 1 : SubSeq(s, a + 1, b)[i] = s[a + 1 + i - 1]
  BY <1>1, <1>2, SubSeqProperties
<1>4. /\ (IF a + 1 <= b THEN b - (a + 1) + 1 ELSE 0) = (IF a <= b THEN b - a ELSE 0)
      /\ b - (a + 1) + 1 = b - a
      /\ \A i \in 1..(b - a) : a + 1 + i - 1 = a + i
  OBVIOUS
<1> QED
  BY <1>3, <1>4

\* What is left of a sequence without its first x elements.
Dropped(S, t, s, x, N) ==
  t \in Seq(S) /\ Len(t) = N - x /\ \A i \in 1..(N - x) : t[i] = s[x + i]

\* SubSeq makes it.
LEMMA DropFirst ==
  ASSUME NEW S, NEW s \in Seq(S), NEW x \in Nat, NEW N, N = Len(s), x <= N,
         NEW t, t = SubSeq(s, x + 1, Len(s))
  PROVE  Dropped(S, t, s, x, N)
<1>1. N \in Nat /\ N <= Len(s)
  OBVIOUS
<1>2. /\ SubSeq(s, x + 1, N) \in Seq(S)
      /\ Len(SubSeq(s, x + 1, N)) = IF x <= N THEN N - x ELSE 0
      /\ \A i \in 1..(N - x) : SubSeq(s, x + 1, N)[i] = s[x + i]
  BY <1>1, PartIsSeq
<1> QED
  BY <1>2 DEF Dropped

\* Two sequences, one behind the other.
Joint(S, t, a, b, A, B) ==
  /\ t \in Seq(S) /\ Len(t) = A + B
  /\ \A i \in 1..(A + B) : t[i] = IF i <= A THEN a[i] ELSE b[i - A]

\* \o makes it.
LEMMA Joined ==
  ASSUME NEW S, NEW a \in Seq(S), NEW b \in Seq(S), NEW A, A = Len(a),
         NEW B, B = Len(b), NEW t, t = a \o b
  PROVE  Joint(S, t, a, b, A, B)
BY ConcatProperties DEF Joint

\* Dropping the first x elements of two sequences, the first of which has them.
LEMMA DropLeft ==
  ASSUME NEW S, NEW b \in Seq(S), NEW v \in Seq(S), NEW x \in Nat, x <= Len(b)
  PROVE  SubSeq(b \o v, x + 1, Len(b \o v)) = SubSeq(b, x + 1, Len(b)) \o v
<1>1. PICK B \in Nat, V \in Nat : B = Len(b) /\ V = Len(v)
  OBVIOUS
<1>2. PICK w, s, t, u : /\ w = b \o v /\ s = SubSeq(w, x + 1, Len(w))
                        /\ t = SubSeq(b, x + 1, Len(b)) /\ u = t \o v
  OBVIOUS
<1>3. /\ w \in Seq(S) /\ Len(w) = B + V
      /\ \A i \in 1..(B + V) : w[i] = IF i <= B THEN b[i] ELSE v[i - B]
  BY <1>1, <1>2, ConcatProperties
<1>4. x <= B /\ x <= B + V /\ B <= B /\ B + V <= B + V /\ B + V \in Nat
  BY <1>1
<1>5. /\ s \in Seq(S) /\ Len(s) = (B + V) - x
      /\ \A i \in 1..((B + V) - x) : s[i] = w[x + i]
  <2>1. PICK W : W = B + V
    OBVIOUS
  <2>2. Dropped(S, s, w, x, W)
    BY <1>2, <1>3, <1>4, <2>1, DropFirst
  <2> QED
    BY <2>1, <2>2 DEF Dropped
<1>6. /\ t \in Seq(S) /\ Len(t) = B - x /\ \A i \in 1..(B - x) : t[i] = b[x + i]
  <2>1. Dropped(S, t, b, x, B)
    BY <1>1, <1>2, <1>4, DropFirst
  <2> QED
    BY <2>1 DEF Dropped
<1>7. /\ u \in Seq(S) /\ Len(u) = (B - x) + V
      /\ \A i \in 1..((B - x) + V) : u[i] = IF i <= B - x THEN t[i] ELSE v[i - (B - x)]
  <2>1. PICK T : T = B - x
    OBVIOUS
  <2>2. Joint(S, u, t, v, T, V)
    BY <1>1, <1>2, <1>6, <2>1, Joined
  <2> QED
    BY <2>1, <2>2 DEF Joint
<1>8. (B + V) - x = (B - x) + V
  BY <1>1
<1>9. ASSUME NEW i \in 1..((B + V) - x) PROVE s[i] = u[i]
  <2>1. PICK j : j = x + i
    OBVIOUS
  <2>2. j \in 1..(B + V) /\ i \in 1..((B - x) + V) /\ (i <= B - x <=> j <= B)
        /\ i - (B - x) = j - B
    BY <1>1, <1>4, <2>1
  <2>3. s[i] = w[j]
    BY <1>5, <2>1
  <2>4. CASE j <= B
    <3>1. i \in 1..(B - x)
      BY <2>2, <2>4
    <3>2. s[i] = b[j]
      BY <1>3, <2>2, <2>3, <2>4
    <3>3. u[i] = t[i] /\ t[i] = b[j]
      BY <1>6, <1>7, <2>1, <2>2, <2>4, <3>1
    <3> QED
      BY <3>2, <3>3
  <2>5. CASE ~(j <= B)
    BY <1>3, <1>7, <2>2, <2>3, <2>5
  <2> QED
    BY <2>4, <2>5
<1> QED
  BY <1>2, <1>5, <1>7, <1>8, <1>9, SeqEqual

\* A receiver moves n cells from the network into its buffer.
LEMMA Moved ==
  ASSUME NEW S, NEW a \in Seq(S), NEW w \in Seq(S), NEW n \in 1..Len(w)
  PROVE  (a \o SubSeq(w, 1, n)) \o SubSeq(w, n + 1, Len(w)) = a \o w
<1>1. PICK x, y : x = SubSeq(w, 1, n) /\ y = SubSeq(w, n + 1, Len(w))
  OBVIOUS
<1>2. PICK N \in Nat : N = Len(w)
  OBVIOUS
<1>3. n \in Nat /\ n <= N /\ N <= N /\ 0 \in Nat /\ 0 + 1 = 1
  BY <1>2
<1>4. x \in Seq(S) /\ y \in Seq(S)
  <2>1. SubSeq(w, 0 + 1, n) \in Seq(S)
    BY <1>2, <1>3, PartIsSeq
  <2>2. SubSeq(w, n + 1, Len(w)) \in Seq(S)
    BY <1>2, <1>3, PartIsSeq
  <2> QED
    BY <1>1, <1>3, <2>1, <2>2
<1>5. x \o y = w
  <2>1. 1 \in 1..Len(w) + 1 /\ n \in 1 - 1..Len(w) /\ Len(w) \in n..Len(w)
    BY <1>2
  <2>2. x \o y = SubSeq(w, 1, Len(w))
    BY <1>1, <2>1, ConcatAdjacentSubSeq
  <2> QED
    BY <2>2, SubSeqFull
<1>6. (a \o x) \o y = a \o (x \o y)
  <2>1. PICK x1 \in Seq(S), y1 \in Seq(S) : x1 = x /\ y1 = y
    BY <1>4
  <2>2. (a \o x1) \o y1 = a \o (x1 \o y1)
    BY ConcatAssociative
  <2> QED
    BY <2>1, <2>2
<1> QED
  BY <1>1, <1>5, <1>6

\* Three sequences, one behind the other.
Chained(S, a, b, c) == a \o (b \o c) = (a \o b) \o c /\ a \o b \in Seq(S)

\* Putting together is associative.
LEMMA Behind ==
  ASSUME NEW S, NEW a \in Seq(S), NEW b \in Seq(S), NEW c \in Seq(S)
  PROVE  Chained(S, a, b, c)
BY ConcatAssociative DEF Chained

\* What is handed out becomes longer, and is a part of g.
Grows(a, b, g) == b = a \/ (IsStrictPrefix(a, b) /\ IsPrefix(b, g))

\* A prefix grows to a longer prefix.
LEMMA Longer ==
  ASSUME NEW S, NEW g \in Seq(S), NEW x \in Nat, NEW y \in Nat, x <= y, y <= Len(g)
  PROVE  /\ SubSeq(g, 1, x) \in Seq(S) /\ SubSeq(g, 1, y) \in Seq(S)
         /\ Grows(SubSeq(g, 1, x), SubSeq(g, 1, y), g)
<1>1. PICK a, b : a = SubSeq(g, 1, x) /\ b = SubSeq(g, 1, y)
  OBVIOUS
<1>2. x <= Len(g) /\ 0 + 1 = 1 /\ x - 0 = x /\ y - 0 = y /\ 0 \in Nat /\ 0 <= x /\ 0 <= y
  OBVIOUS
<1>3. /\ a \in Seq(S) /\ Len(a) = x /\ \A i \in 1..x : a[i] = g[i]
      /\ b \in Seq(S) /\ Len(b) = y /\ \A i \in 1..y : b[i] = g[i]
  <2>1. /\ SubSeq(g, 0 + 1, x) \in Seq(S)
        /\ Len(SubSeq(g, 0 + 1, x)) = IF 0 <= x THEN x - 0 ELSE 0
        /\ \A i \in 1..(x - 0) : SubSeq(g, 0 + 1, x)[i] = g[0 + i]
    BY <1>2, PartIsSeq
  <2>2. /\ SubSeq(g, 0 + 1, y) \in Seq(S)
        /\ Len(SubSeq(g, 0 + 1, y)) = IF 0 <= y THEN y - 0 ELSE 0
        /\ \A i \in 1..(y - 0) : SubSeq(g, 0 + 1, y)[i] = g[0 + i]
    BY <1>2, PartIsSeq
  <2>3. \A i \in Nat : 0 + i = i
    OBVIOUS
  <2>4. \A i \in 1..x : g[0 + i] = g[i]
    BY <2>3
  <2>5. \A i \in 1..y : g[0 + i] = g[i]
    BY <2>3
  <2> QED
    BY <1>1, <1>2, <2>1, <2>2, <2>4, <2>5
<1>4. SubSeq(b, 1, y) = SubSeq(g, 1, y)
  BY <1>1, <1>3, SubSeqFull
<1>5. SubSeq(b, 1, x) = a /\ SubSeq(a, 1, x) = a
  <2>1. SubSeq(b, 0 + 1, x) \in Seq(S) /\ Len(SubSeq(b, 0 + 1, x)) = x
        /\ \A i \in 1..x : SubSeq(b, 0 + 1, x)[i] = b[0 + i]
    BY <1>2, <1>3, PartIsSeq
  <2>2. \A i \in 1..x : 0 + i = i /\ b[i] = g[i]
    BY <1>3
  <2>3. \A i \in 1..x : SubSeq(b, 0 + 1, x)[i] = a[i]
    BY <1>3, <2>1, <2>2
  <2>4. SubSeq(b, 0 + 1, x) = a
    BY <1>3, <2>1, <2>3, SeqEqual
  <2>5. SubSeq(a, 1, x) = a
    BY <1>3, SubSeqFull
  <2> QED
    BY <1>2, <2>4, <2>5
<1>6. IsPrefix(b, g) /\ IsPrefix(a, b)
  BY <1>3, <1>4, <1>5 DEF IsPrefix
<1>7. Grows(a, b, g)
  BY <1>6 DEF Grows, IsStrictPrefix
<1> QED
  BY <1>1, <1>3, <1>7

\* The units a side is handed are numbered on.
LEMMA NewUnits ==
  ASSUME NEW M \in Nat, NEW g \in Seq(1..M), NEW n \in Nat \ {0}, Len(g) + n <= M,
         NEW buf, buf = [i \in 1..n |-> Len(g) + i]
  PROVE  /\ buf \in Seq(1..M) /\ buf \in Seq(Nat) /\ Len(buf) = n
         /\ g \in Seq(Nat) /\ g \o buf \in Seq(1..M)
         /\ IsStrictPrefix(g, g \o buf)
<1>1. PICK G \in Nat : G = Len(g)
  OBVIOUS
<1>2. buf \in [1..n -> 1..M]
  BY <1>1
<1>3. buf \in Seq(1..M) /\ Len(buf) = n
  BY <1>2
<1>4. 1..M \subseteq Nat
  OBVIOUS
<1>5. buf \in Seq(Nat) /\ g \in Seq(Nat)
  BY <1>3, <1>4, SeqMonotonic
<1>6. PICK w : w = g \o buf
  OBVIOUS
<1>7. w \in Seq(1..M) /\ Len(w) = G + n
  BY <1>1, <1>3, <1>6, ConcatProperties
<1>8. SubSeq(w, 1, G) = SubSeq(g, 1, G)
  <2>1. SubSeq(g \o buf, 0 + 1, G) = SubSeq(g, 0 + 1, G)
    BY <1>1, <1>3, PartLeft
  <2>2. 0 + 1 = 1
    OBVIOUS
  <2> QED
    BY <1>6, <2>1, <2>2
<1>9. IsStrictPrefix(g, w)
  <2>1. Len(g) <= Len(w) /\ Len(g) # Len(w)
    BY <1>1, <1>7
  <2> QED
    BY <1>1, <1>8, <2>1 DEF IsStrictPrefix, IsPrefix
<1> QED
  BY <1>3, <1>5, <1>6, <1>7, <1>9
=============================================================================
