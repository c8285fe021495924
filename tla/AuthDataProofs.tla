--------------------------- MODULE AuthDataProofs ---------------------------
(***************************************************************************)
(* The properties of AuthData, for every set of clients and of ids and for *)
(* every choice of the window's constants.                                 *)
(***************************************************************************)
EXTENDS AuthData, SequenceLemmas

\* One client's window q and its history: acc counts the acceptances of each
\* id and b is the id that opened the window.  A used id is refused because it
\* is below front or in alloc; an unused one is below front only if it was
\* below the window from the beginning or has dropped out of it.
WindowInv(q, acc, b) ==
  /\ q.front <= q.back
  /\ q.back <= q.front + MaxWindow
  /\ \A x \in q.alloc : q.front < x /\ x < q.back /\ acc[x] = 1
  /\ \A id \in Ids :
       /\ acc[id] <= 1
       /\ acc[id] = 1 => id < q.front \/ id \in q.alloc
       /\ acc[id] = 0 => \/ id < b - Lookback
                         \/ q.front <= id
                         \/ id + MaxWindow < q.back

WindowsInv == \A c \in Clients : WindowInv(queues[c], accepted[c], began[c])

\* A client without a queue has no references: the queue it may get begins
\* without any.
RefsInv ==
  /\ \A c \in Clients : c \in Known \/ queues[c].ref = 0
  /\ RefsCounted

\* An insertion counts a connection in the queue and in the history, or in
\* neither.
BothGrow(ref2, ref1, live2, live1) ==
  \/ ref2 = ref1 /\ live2 = live1
  \/ ref2 = ref1 + 1 /\ live2 = live1 + 1

Inv == TypeOK /\ RefsInv /\ WindowsInv

-----------------------------------------------------------------------------
\* client_queue(id): a window that has just been opened, before its first id
\* is inserted, satisfies the invariant with an empty history.
LEMMA NewWindow ==
  ASSUME NEW id \in Int
  PROVE  /\ NewQueue(id) \in Queues(Ids) /\ NewQueue(id).ref = 0
         /\ NeverUsed \in [Ids -> Nat]
         /\ WindowInv(NewQueue(id), NeverUsed, id)
BY WindowAssumption, AuthAssumption
DEF NewQueue, Queues, NeverUsed, WindowInv

\* The age and the references of a queue are no part of its window.
LEMMA SameWindow ==
  ASSUME NEW q, NEW r,
         r.front = q.front, r.back = q.back, r.alloc = q.alloc
  PROVE  \A acc, b : WindowInv(q, acc, b) => WindowInv(r, acc, b)
BY DEF WindowInv

\* update
LEMMA AgedWindow ==
  ASSUME NEW q \in Queues(Ids), NEW a \in 0..ActiveTime
  PROVE  /\ [q EXCEPT !.age = a] \in Queues(Ids)
         /\ [q EXCEPT !.age = a].ref = q.ref
         /\ \A acc, b :
              WindowInv(q, acc, b) => WindowInv([q EXCEPT !.age = a], acc, b)
<1> DEFINE r == [q EXCEPT !.age = a]
<1>1. /\ r \in Queues(Ids) /\ r.ref = q.ref
      /\ r.front = q.front /\ r.back = q.back /\ r.alloc = q.alloc
  BY DEF Queues
<1> HIDE DEF r
<1>2. \A acc, b : WindowInv(q, acc, b) => WindowInv(r, acc, b)
  BY <1>1, SameWindow
<1> QED
  BY <1>1, <1>2 DEF r

\* addref
LEMMA AddRefWindow ==
  ASSUME NEW q \in Queues(Ids)
  PROVE  /\ AddRef(q) \in Queues(Ids)
         /\ AddRef(q).ref = IF class = "chain" THEN q.ref + 1 ELSE q.ref
         /\ \A acc, b : WindowInv(q, acc, b) => WindowInv(AddRef(q), acc, b)
<1> DEFINE r == AddRef(q)
<1>1. /\ r \in Queues(Ids) /\ r.ref = IF class = "chain" THEN q.ref + 1 ELSE q.ref
      /\ r.front = q.front /\ r.back = q.back /\ r.alloc = q.alloc
  BY DEF Queues, AddRef
<1> HIDE DEF r
<1>2. \A acc, b : WindowInv(q, acc, b) => WindowInv(r, acc, b)
  BY <1>1, SameWindow
<1> QED
  BY <1>1, <1>2 DEF r

\* delref
LEMMA DelRefWindow ==
  ASSUME NEW q \in Queues(Ids)
  PROVE  /\ DelRef(q) \in Queues(Ids)
         /\ DelRef(q).ref = IF q.ref > 0 THEN q.ref - 1 ELSE 0
         /\ \A acc, b : WindowInv(q, acc, b) => WindowInv(DelRef(q), acc, b)
<1> DEFINE r == DelRef(q)
<1>1. /\ r \in Queues(Ids) /\ r.ref = IF q.ref > 0 THEN q.ref - 1 ELSE 0
      /\ r.front = q.front /\ r.back = q.back /\ r.alloc = q.alloc
  BY DEF Queues, DelRef
<1> HIDE DEF r
<1>2. \A acc, b : WindowInv(q, acc, b) => WindowInv(r, acc, b)
  BY <1>1, SameWindow
<1> QED
  BY <1>1, <1>2 DEF r

\* re_enable
LEMMA ReopenedWindow ==
  ASSUME NEW q \in Queues(Ids), NEW id \in Int
  PROVE  /\ Reopened(q, id) \in Queues(Ids)
         /\ Reopened(q, id).ref = q.ref
         /\ WindowInv(Reopened(q, id), NeverUsed, id)
<1> DEFINE n == NewQueue(id)
           r == Reopened(q, id)
<1>1. n \in Queues(Ids) /\ WindowInv(n, NeverUsed, id)
  BY NewWindow
<1>2. r = [n EXCEPT !.ref = q.ref]
  BY DEF Reopened
<1> HIDE DEF n, r
<1>3. /\ r \in Queues(Ids) /\ r.ref = q.ref
      /\ r.front = n.front /\ r.back = n.back /\ r.alloc = n.alloc
  BY <1>1, <1>2 DEF Queues
<1>4. WindowInv(r, NeverUsed, id)
  BY <1>1, <1>3, SameWindow
<1> QED
  BY <1>3, <1>4 DEF r

\* client_queue.insert keeps the window invariant when it accepts an id.
LEMMA InsertedWindow ==
  ASSUME NEW q \in Queues(Ids), NEW acc \in [Ids -> Nat], NEW b \in Int,
         WindowInv(q, acc, b),
         NEW id \in Ids, Accepts(q, id), NEW r \in Inserted(q, id)
  PROVE  /\ r \in Queues(Ids) /\ r.ref = q.ref
         /\ WindowInv(r, [acc EXCEPT ![id] = @ + 1], b)
<1> DEFINE back  == IF q.back <= id THEN id + 1 ELSE q.back
           alloc == q.alloc \cup {id}
           acc2  == [acc EXCEPT ![id] = @ + 1]
<1>1. PICK f \in q.front..back :
        /\ ~MovesOver(f, alloc, back)
        /\ \A h \in q.front..(f - 1) : MovesOver(h, alloc, back)
        /\ r = [front |-> f, back |-> back, age |-> q.age, ref |-> q.ref,
                alloc |-> {x \in alloc : x >= f}]
  BY DEF Inserted
<1>2. /\ q.front \in Int /\ q.back \in Int /\ q.alloc \subseteq Ids
      /\ q.age \in 0..ActiveTime /\ q.ref \in Nat
  BY DEF Queues
<1>3. id \in Int /\ Ids \subseteq Int /\ back \in Int /\ f \in Int
  BY <1>2, AuthAssumption
<1>4. r \in Queues(Ids) /\ r.ref = q.ref
  BY <1>1, <1>2, <1>3 DEF Queues
<1>5. /\ r.front = f /\ r.back = back
      /\ r.alloc = {x \in alloc : x >= f}
      /\ f \notin alloc /\ f + MaxWindow >= back
      /\ q.front <= f /\ f <= back /\ q.back <= back /\ id < back
  BY <1>1, <1>2, <1>3, WindowAssumption DEF MovesOver
<1>6. acc[id] = 0
  BY AuthAssumption DEF WindowInv, Accepts, Queues
<1>7. acc2 \in [Ids -> Nat] /\ acc2[id] = 1
      /\ \A x \in Ids : x # id => acc2[x] = acc[x]
  BY <1>6
<1>8. \A x \in r.alloc : r.front < x /\ x < r.back /\ acc2[x] = 1
  <2> SUFFICES ASSUME NEW x \in alloc, x >= f
               PROVE  f < x /\ x < back /\ acc2[x] = 1
    BY <1>5
  <2>1. x \in Ids /\ x \in Int /\ x # f
    BY <1>2, <1>3, <1>5
  <2>2. x = id \/ (x \in q.alloc /\ x # id)
    OBVIOUS
  <2>3. CASE x = id
    BY <2>1, <2>3, <1>3, <1>5, <1>7
  <2>4. CASE x \in q.alloc /\ x # id
    <3>1. x < q.back /\ acc[x] = 1
      BY <2>4 DEF WindowInv
    <3> QED
      BY <2>1, <2>4, <3>1, <1>2, <1>3, <1>5, <1>7
  <2> QED
    BY <2>2, <2>3, <2>4
<1>9. ASSUME NEW x \in Ids
      PROVE  /\ acc2[x] <= 1
             /\ acc2[x] = 1 => x < r.front \/ x \in r.alloc
             /\ acc2[x] = 0 => \/ x < b - Lookback
                               \/ r.front <= x
                               \/ x + MaxWindow < r.back
  <2>1. acc2[x] <= 1
    BY <1>6, <1>7 DEF WindowInv
  <2>2. acc2[x] = 1 => x < r.front \/ x \in r.alloc
    <3>1. acc2[x] = 1 => x < q.front \/ x \in alloc
      BY <1>7 DEF WindowInv
    <3> QED
      BY <3>1, <1>2, <1>3, <1>5
  <2>3. acc2[x] = 0 => \/ x < b - Lookback
                       \/ r.front <= x
                       \/ x + MaxWindow < r.back
    <3> SUFFICES ASSUME acc2[x] = 0, b - Lookback <= x, x < f
                 PROVE  x + MaxWindow < back
      BY <1>3, <1>5, WindowAssumption
    <3>1. x # id /\ acc[x] = 0
      BY <1>7
    <3>2. CASE x < q.front
      BY <3>1, <3>2, <1>2, <1>3, <1>5, WindowAssumption DEF WindowInv
    <3>3. CASE q.front <= x
      <4>1. x \in q.front..(f - 1)
        BY <3>3, <1>2, <1>3
      <4>2. x \notin alloc
        BY <3>1 DEF WindowInv
      <4> QED
        BY <4>1, <4>2, <1>1 DEF MovesOver
    <3> QED
      BY <3>2, <3>3, <1>2, <1>3
  <2> QED
    BY <2>1, <2>2, <2>3
<1>10. WindowInv(r, acc2, b)
  BY <1>5, <1>8, <1>9 DEF WindowInv
<1> QED
  BY <1>4, <1>10
-----------------------------------------------------------------------------
\* The windows and references of all clients after InsertInto, given those
\* before it.
LEMMA InsertIntoWindows ==
  ASSUME NEW qs \in [Clients -> Queues(Ids)],
         NEW acc \in [Clients -> [Ids -> Nat]],
         NEW start \in [Clients -> Int],
         live \in [Clients -> Nat],
         NEW c \in Clients, NEW id \in Ids, NEW q \in Queues(Ids),
         \A x \in Clients : x # c => WindowInv(qs[x], acc[x], start[x]),
         WindowInv(q, acc[c], start[c]),
         InsertInto(q, c, id, qs, acc, start)
  PROVE  /\ queues' \in [Clients -> Queues(Ids)]
         /\ accepted' \in [Clients -> [Ids -> Nat]]
         /\ began' \in [Clients -> Int]
         /\ live' \in [Clients -> Nat]
         /\ WindowsInv'
         /\ \A x \in Clients :
              x # c => queues'[x].ref = qs[x].ref /\ live'[x] = live[x]
         /\ class = "chain" => BothGrow(queues'[c].ref, q.ref, live'[c], live[c])
<1>1. CASE Accepts(q, id)
  <2>1. PICK p \in Inserted(q, id) :
          /\ queues' = [qs EXCEPT ![c] = AddRef(p)]
          /\ accepted' = [acc EXCEPT ![c][id] = @ + 1]
          /\ live' = IF class = "chain" THEN [live EXCEPT ![c] = @ + 1] ELSE live
          /\ began' = start
    BY <1>1 DEF InsertInto
  <2> DEFINE h == [acc[c] EXCEPT ![id] = @ + 1]
             r == AddRef(p)
  <2>2. p \in Queues(Ids) /\ p.ref = q.ref /\ WindowInv(p, h, start[c])
    BY <1>1, InsertedWindow
  <2>3. /\ r \in Queues(Ids) /\ WindowInv(r, h, start[c])
        /\ r.ref = IF class = "chain" THEN q.ref + 1 ELSE q.ref
    BY <2>2, AddRefWindow
  <2>4. h \in [Ids -> Nat]
    OBVIOUS
  <2>5. accepted' = [acc EXCEPT ![c] = h] /\ queues' = [qs EXCEPT ![c] = r]
    BY <2>1
  <2> HIDE DEF h, r
  <2>6. /\ queues'[c] = r /\ accepted'[c] = h
        /\ \A x \in Clients : x # c => queues'[x] = qs[x] /\ accepted'[x] = acc[x]
    BY <2>5
  <2>7. WindowsInv'
    <3>1. \A x \in Clients : WindowInv(queues'[x], accepted'[x], began'[x])
      BY <2>1, <2>3, <2>6
    <3> QED
      BY <3>1 DEF WindowsInv
  <2>8. /\ live' \in [Clients -> Nat]
        /\ \A x \in Clients : x # c => live'[x] = live[x]
        /\ class = "chain" => live'[c] = live[c] + 1
    BY <2>1
  <2>9. class = "chain" => BothGrow(queues'[c].ref, q.ref, live'[c], live[c])
    BY <2>3, <2>6, <2>8 DEF BothGrow
  <2> QED
    BY <2>1, <2>3, <2>4, <2>5, <2>6, <2>7, <2>8, <2>9
<1>2. CASE ~Accepts(q, id)
  <2>1. /\ queues' = [qs EXCEPT ![c] = q]
        /\ accepted' = acc
        /\ live' = live
        /\ began' = start
    BY <1>2 DEF InsertInto
  <2>2. queues'[c] = q /\ \A x \in Clients : x # c => queues'[x] = qs[x]
    BY <2>1
  <2>3. WindowsInv'
    <3>1. \A x \in Clients : WindowInv(queues'[x], accepted'[x], began'[x])
      BY <2>1, <2>2
    <3> QED
      BY <3>1 DEF WindowsInv
  <2> QED
    BY <2>1, <2>2, <2>3 DEF BothGrow
<1> QED
  BY <1>1, <1>2

\* The same for a client whose window is opened with q.
LEMMA OpenForWindows ==
  ASSUME NEW qs \in [Clients -> Queues(Ids)],
         NEW acc \in [Clients -> [Ids -> Nat]],
         NEW start \in [Clients -> Int],
         live \in [Clients -> Nat],
         NEW c \in Clients, NEW id \in Ids, NEW q \in Queues(Ids),
         WindowInv(q, NeverUsed, id),
         \A x \in Clients : x # c => WindowInv(qs[x], acc[x], start[x]),
         OpenFor(q, c, id, qs, acc, start)
  PROVE  /\ queues' \in [Clients -> Queues(Ids)]
         /\ accepted' \in [Clients -> [Ids -> Nat]]
         /\ began' \in [Clients -> Int]
         /\ live' \in [Clients -> Nat]
         /\ WindowsInv'
         /\ \A x \in Clients :
              x # c => queues'[x].ref = qs[x].ref /\ live'[x] = live[x]
         /\ class = "chain" => BothGrow(queues'[c].ref, q.ref, live'[c], live[c])
<1> DEFINE acc2  == [acc EXCEPT ![c] = NeverUsed]
           start2 == [start EXCEPT ![c] = id]
<1>1. id \in Int
  BY AuthAssumption
<1>2. NeverUsed \in [Ids -> Nat]
  BY <1>1, NewWindow
<1>3. /\ acc2 \in [Clients -> [Ids -> Nat]]
      /\ start2 \in [Clients -> Int]
      /\ acc2[c] = NeverUsed /\ start2[c] = id
      /\ \A x \in Clients : x # c => acc2[x] = acc[x] /\ start2[x] = start[x]
  BY <1>1, <1>2
<1>4. InsertInto(q, c, id, qs, acc2, start2)
  BY DEF OpenFor
<1> HIDE DEF acc2, start2
<1>5. /\ \A x \in Clients : x # c => WindowInv(qs[x], acc2[x], start2[x])
      /\ WindowInv(q, acc2[c], start2[c])
  BY <1>3
<1>6. acc2 \in [Clients -> [Ids -> Nat]] /\ start2 \in [Clients -> Int]
  BY <1>3
<1> QED
  BY <1>4, <1>5, <1>6, InsertIntoWindows

-----------------------------------------------------------------------------
\* The empty table satisfies the invariant.
LEMMA InitInv == Init => Inv
<1> SUFFICES ASSUME Init PROVE Inv
  OBVIOUS
<1>1. /\ NewQueue(0) \in Queues(Ids) /\ NewQueue(0).ref = 0
      /\ NeverUsed \in [Ids -> Nat]
      /\ WindowInv(NewQueue(0), NeverUsed, 0)
  BY NewWindow
<1>2. TypeOK
  BY <1>1, AuthAssumption DEF Init, TypeOK, TableBounded
<1>3. RefsInv
  BY <1>1 DEF Init, RefsInv, RefsCounted
<1>4. WindowsInv
  BY <1>1 DEF Init, WindowsInv
<1> QED
  BY <1>2, <1>3, <1>4 DEF Inv

\* Every handler, and the passing of time, keeps the invariant.
LEMMA NextInv == Inv /\ [Next]_vars => Inv'
<1> SUFFICES ASSUME Inv, [Next]_vars PROVE Inv'
  OBVIOUS
<1>1. /\ order \in Seq(Clients) /\ Ordered(order) /\ Len(order) <= MaxClient
      /\ Len(order) \in Nat /\ MaxClient \in Nat \ {0}
      /\ queues \in [Clients -> Queues(Ids)]
      /\ accepted \in [Clients -> [Ids -> Nat]]
      /\ began \in [Clients -> Int]
      /\ live \in [Clients -> Nat] /\ strays \subseteq Clients
      /\ class \in {"auth", "chain"}
      /\ WindowsInv
  BY AuthAssumption DEF Inv, TypeOK, TableBounded, Ordered
<1>r. /\ \A x \in Clients : x \in Keys(order) \/ queues[x].ref = 0
      /\ class = "chain" => \A x \in Clients :
           /\ queues[x].ref <= live[x]
           /\ x \notin strays => queues[x].ref = live[x]
      /\ \A x \in Clients : queues[x].ref \in Nat /\ live[x] \in Nat
  BY <1>1 DEF Inv, RefsInv, RefsCounted, Known, Queues
<1>2. ASSUME /\ order' \in Seq(Clients) /\ Ordered(order')
             /\ Len(order') <= MaxClient
             /\ queues' \in [Clients -> Queues(Ids)]
             /\ accepted' \in [Clients -> [Ids -> Nat]]
             /\ began' \in [Clients -> Int]
             /\ live' \in [Clients -> Nat] /\ strays' \subseteq Clients
             /\ UNCHANGED class
             /\ WindowsInv'
             /\ \A x \in Clients : x \in Keys(order') \/ queues'[x].ref = 0
             /\ class = "chain" => \A x \in Clients :
                  /\ queues'[x].ref <= live'[x]
                  /\ x \notin strays' => queues'[x].ref = live'[x]
      PROVE  Inv'
  <2>1. TypeOK'
    BY <1>1, <1>2 DEF TypeOK, TableBounded, Ordered
  <2>2. RefsInv'
    BY <1>2 DEF RefsInv, RefsCounted, Known
  <2> QED
    BY <1>2, <2>1, <2>2 DEF Inv
\* What an insertion for c into q does to the references of c.
<1>3. ASSUME NEW c \in Clients, NEW q \in Queues(Ids),
             BothGrow(queues'[c].ref, q.ref, live'[c], live[c]),
             q.ref <= live[c],
             c \notin strays' => q.ref = live[c]
      PROVE  /\ queues'[c].ref <= live'[c]
             /\ c \notin strays' => queues'[c].ref = live'[c]
  <2>1. q.ref \in Nat /\ live[c] \in Nat
    BY <1>1 DEF Queues
  <2> QED
    BY <1>3, <2>1 DEF BothGrow
<1>4. ASSUME NEW c \in Clients, NEW id \in Ids, InsertKnown(c, id),
             UNCHANGED class
      PROVE  Inv'
  <2>1. /\ order' \in Seq(Clients) /\ Ordered(order')
        /\ Len(order') <= MaxClient
        /\ Keys(order') = Keys(order) \cup {c}
        /\ UNCHANGED strays
    BY <1>1, <1>4, TouchKey DEF InsertKnown, Known
  <2>2. \A x \in Clients : WindowInv(queues[x], accepted[x], began[x])
    BY <1>1 DEF WindowsInv
  <2>3. queues[c] \in Queues(Ids) /\ 0 \in 0..ActiveTime /\ id \in Int
    BY <1>1, WindowAssumption, AuthAssumption
  <2>4. CASE IsActive(queues[c])
    <3> DEFINE q == [queues[c] EXCEPT !.age = 0]
    <3>1. InsertInto(q, c, id, queues, accepted, began)
      BY <1>4, <2>4 DEF InsertKnown
    <3>2. /\ q \in Queues(Ids) /\ q.ref = queues[c].ref
          /\ WindowInv(q, accepted[c], began[c])
      BY <2>2, <2>3, AgedWindow
    <3> HIDE DEF q
    <3>3. /\ queues' \in [Clients -> Queues(Ids)]
          /\ accepted' \in [Clients -> [Ids -> Nat]]
          /\ began' \in [Clients -> Int]
          /\ live' \in [Clients -> Nat]
          /\ WindowsInv'
          /\ \A x \in Clients :
               x # c => queues'[x].ref = queues[x].ref /\ live'[x] = live[x]
          /\ class = "chain" => BothGrow(queues'[c].ref, q.ref, live'[c], live[c])
      BY <1>1, <2>2, <3>1, <3>2, InsertIntoWindows
    <3>4. /\ \A x \in Clients : x \in Keys(order') \/ queues'[x].ref = 0
          /\ class = "chain" => \A x \in Clients :
               /\ queues'[x].ref <= live'[x]
               /\ x \notin strays' => queues'[x].ref = live'[x]
      <4>1. ASSUME class = "chain"
            PROVE  /\ queues'[c].ref <= live'[c]
                   /\ c \notin strays' => queues'[c].ref = live'[c]
        BY <1>r, <1>3, <2>1, <3>2, <3>3, <4>1
      <4> QED
        BY <1>r, <2>1, <3>3, <4>1
    <3> QED
      BY <1>1, <1>2, <1>4, <2>1, <3>3, <3>4
  <2>5. CASE ~IsActive(queues[c])
    <3> DEFINE q == Reopened(queues[c], id)
    <3>1. OpenFor(q, c, id, queues, accepted, began)
      BY <1>4, <2>5 DEF InsertKnown
    <3>2. /\ q \in Queues(Ids) /\ q.ref = queues[c].ref
          /\ WindowInv(q, NeverUsed, id)
      BY <2>3, ReopenedWindow
    <3> HIDE DEF q
    <3>3. /\ queues' \in [Clients -> Queues(Ids)]
          /\ accepted' \in [Clients -> [Ids -> Nat]]
          /\ began' \in [Clients -> Int]
          /\ live' \in [Clients -> Nat]
          /\ WindowsInv'
          /\ \A x \in Clients :
               x # c => queues'[x].ref = queues[x].ref /\ live'[x] = live[x]
          /\ class = "chain" => BothGrow(queues'[c].ref, q.ref, live'[c], live[c])
      BY <1>1, <2>2, <3>1, <3>2, OpenForWindows
    <3>4. /\ \A x \in Clients : x \in Keys(order') \/ queues'[x].ref = 0
          /\ class = "chain" => \A x \in Clients :
               /\ queues'[x].ref <= live'[x]
               /\ x \notin strays' => queues'[x].ref = live'[x]
      <4>1. ASSUME class = "chain"
            PROVE  /\ queues'[c].ref <= live'[c]
                   /\ c \notin strays' => queues'[c].ref = live'[c]
        BY <1>r, <1>3, <2>1, <3>2, <3>3, <4>1
      <4> QED
        BY <1>r, <2>1, <3>3, <4>1
    <3> QED
      BY <1>1, <1>2, <1>4, <2>1, <3>3, <3>4
  <2> QED
    BY <2>4, <2>5
<1>5. ASSUME NEW c \in Clients, NEW id \in Ids, InsertNew(c, id),
             UNCHANGED class
      PROVE  Inv'
  <2>1. /\ order' \in Seq(Clients) /\ Ordered(order')
        /\ Len(order') <= MaxClient
        /\ c \notin Keys(order)
        /\ Keys(order') = Keys(order) \cup {c}
        /\ UNCHANGED strays
    BY <1>1, <1>5, AppendKey DEF InsertNew, Known
  <2> DEFINE q == NewQueue(id)
  <2>2. OpenFor(q, c, id, queues, accepted, began)
    BY <1>5 DEF InsertNew
  <2>3. q \in Queues(Ids) /\ q.ref = 0 /\ WindowInv(q, NeverUsed, id)
    BY AuthAssumption, NewWindow
  <2> HIDE DEF q
  <2>4. /\ queues' \in [Clients -> Queues(Ids)]
        /\ accepted' \in [Clients -> [Ids -> Nat]]
        /\ began' \in [Clients -> Int]
        /\ live' \in [Clients -> Nat]
        /\ WindowsInv'
        /\ \A x \in Clients :
             x # c => queues'[x].ref = queues[x].ref /\ live'[x] = live[x]
        /\ class = "chain" => BothGrow(queues'[c].ref, q.ref, live'[c], live[c])
    <3>1. \A x \in Clients : WindowInv(queues[x], accepted[x], began[x])
      BY <1>1 DEF WindowsInv
    <3> QED
      BY <1>1, <2>2, <2>3, <3>1, OpenForWindows
  <2>5. /\ queues[c].ref = 0 /\ q.ref <= live[c]
        /\ class = "chain" => (c \notin strays => q.ref = live[c])
    BY <1>r, <2>1, <2>3
  <2>6. /\ \A x \in Clients : x \in Keys(order') \/ queues'[x].ref = 0
        /\ class = "chain" => \A x \in Clients :
             /\ queues'[x].ref <= live'[x]
             /\ x \notin strays' => queues'[x].ref = live'[x]
    <3>1. ASSUME class = "chain"
          PROVE  /\ queues'[c].ref <= live'[c]
                 /\ c \notin strays' => queues'[c].ref = live'[c]
      BY <1>3, <2>1, <2>3, <2>4, <2>5, <3>1
    <3> QED
      BY <1>r, <2>1, <2>4, <3>1
  <2> QED
    BY <1>1, <1>2, <1>5, <2>1, <2>4, <2>6
<1>6. ASSUME Len(order) >= MaxClient
      PROVE  /\ AskedOrder \in Seq(Clients) /\ Ordered(AskedOrder)
             /\ Len(AskedOrder) = Len(order)
             /\ Keys(AskedOrder) = Keys(order)
  <2>1. Head(order) \in Keys(order)
    BY <1>1, <1>6, HeadIsKey
  <2> QED
    BY <1>1, <2>1, TouchKey DEF AskedOrder
<1>7. ASSUME NEW c \in Clients, NEW id \in Ids, InsertEvicting(c, id),
             UNCHANGED class
      PROVE  Inv'
  <2> DEFINE victim == Head(AskedOrder)
             left   == Del(AskedOrder, victim)
             qs     == [queues EXCEPT ![victim] = NewQueue(0)]
             acc    == [accepted EXCEPT ![victim] = NeverUsed]
             start   == [began EXCEPT ![victim] = 0]
             q      == NewQueue(id)
  <2>1. /\ Len(order) >= MaxClient /\ c \notin Keys(order)
        /\ order' = Append(left, c)
        /\ OpenFor(q, c, id, qs, acc, start)
        /\ strays' = IF live[victim] > 0 THEN strays \cup {victim} ELSE strays
    BY <1>7 DEF InsertEvicting, Known
  <2>2. /\ AskedOrder \in Seq(Clients) /\ Ordered(AskedOrder)
        /\ Len(AskedOrder) = Len(order)
        /\ Keys(AskedOrder) = Keys(order)
    BY <1>6, <2>1
  <2>3. victim \in Keys(AskedOrder) /\ victim \in Clients
    BY <1>1, <2>1, <2>2, HeadIsKey
  <2>4. /\ left \in Seq(Clients) /\ Len(left) = Len(order) - 1
        /\ Ordered(left) /\ Keys(left) = Keys(order) \ {victim}
    BY <2>2, <2>3, DelKey
  <2>5. /\ order' \in Seq(Clients) /\ Ordered(order')
        /\ Len(order') = Len(left) + 1
        /\ Keys(order') = (Keys(order) \ {victim}) \cup {c}
    <3> HIDE DEF left
    <3> QED
      BY <2>1, <2>4, AppendKey
  <2>6. Len(order') <= MaxClient
    BY <1>1, <2>4, <2>5
  <2>7. /\ NewQueue(0) \in Queues(Ids) /\ NewQueue(0).ref = 0
        /\ NeverUsed \in [Ids -> Nat]
        /\ WindowInv(NewQueue(0), NeverUsed, 0)
    BY NewWindow
  <2>8. /\ qs \in [Clients -> Queues(Ids)]
        /\ acc \in [Clients -> [Ids -> Nat]]
        /\ start \in [Clients -> Int]
    <3> HIDE DEF victim
    <3>1. qs \in [Clients -> Queues(Ids)]
      BY <1>1, <2>7
    <3>2. acc \in [Clients -> [Ids -> Nat]]
      BY <1>1, <2>7
    <3>3. began \in [Clients -> Int]
      BY <1>1
    <3>4. start = [x \in Clients |-> IF x = victim THEN 0 ELSE began[x]]
      BY <3>3
    <3>5. start \in [Clients -> Int]
      <4>1. \A x \in Clients : (IF x = victim THEN 0 ELSE began[x]) \in Int
        BY <3>3
      <4> HIDE DEF start
      <4> QED
        BY <3>4, <4>1, Zenon
    <3> QED
      BY <3>1, <3>2, <3>5
  <2>9. \A x \in Clients : WindowInv(qs[x], acc[x], start[x])
    BY <1>1, <2>3, <2>7 DEF WindowsInv
  <2>10. q \in Queues(Ids) /\ q.ref = 0 /\ WindowInv(q, NeverUsed, id)
    BY AuthAssumption, NewWindow
  <2>11. /\ qs[victim].ref = 0 /\ victim # c
         /\ \A x \in Clients : x # victim => qs[x] = queues[x]
    BY <1>1, <2>1, <2>2, <2>3, <2>7
  <2> HIDE DEF qs, acc, start, q, victim, left
  <2>12. /\ queues' \in [Clients -> Queues(Ids)]
         /\ accepted' \in [Clients -> [Ids -> Nat]]
         /\ began' \in [Clients -> Int]
         /\ live' \in [Clients -> Nat]
         /\ WindowsInv'
         /\ \A x \in Clients :
              x # c => queues'[x].ref = qs[x].ref /\ live'[x] = live[x]
         /\ class = "chain" => BothGrow(queues'[c].ref, q.ref, live'[c], live[c])
    BY <1>1, <2>1, <2>8, <2>9, <2>10, OpenForWindows, ZenonT(40)
  <2>13. /\ strays' \subseteq Clients
         /\ c \notin strays' => c \notin strays
         /\ \A x \in Clients : x # victim => (x \in strays' <=> x \in strays)
         /\ victim \notin strays' => live[victim] = 0
    BY <1>1, <1>r, <2>1, <2>3, <2>11, SMTT(40)
  <2>14. \A x \in Clients : x \in (Keys(order) \ {victim}) \/ x = c \/ qs[x].ref = 0
    BY <1>r, <2>11
  <2>15. class = "chain" => \A x \in Clients : x # c =>
           /\ qs[x].ref <= live[x]
           /\ x \notin strays' => qs[x].ref = live[x]
    BY <1>r, <2>11, <2>13
  <2>16. class = "chain" =>
           /\ q.ref <= live[c]
           /\ c \notin strays' => q.ref = live[c]
    BY <1>r, <2>1, <2>10, <2>13
  <2>17. /\ \A x \in Clients : x \in Keys(order') \/ queues'[x].ref = 0
         /\ class = "chain" => \A x \in Clients :
              /\ queues'[x].ref <= live'[x]
              /\ x \notin strays' => queues'[x].ref = live'[x]
    <3>1. ASSUME class = "chain"
          PROVE  /\ queues'[c].ref <= live'[c]
                 /\ c \notin strays' => queues'[c].ref = live'[c]
      BY <1>3, <2>10, <2>12, <2>16, <3>1
    <3> QED
      BY <2>5, <2>12, <2>14, <2>15, <3>1
  <2> QED
    BY <1>2, <1>7, <2>5, <2>6, <2>12, <2>13, <2>17
<1>8. ASSUME NEW c \in Clients, NEW id \in Ids, InsertRefused(c, id),
             UNCHANGED class
      PROVE  Inv'
  <2>1. order' = AskedOrder /\ Len(order) >= MaxClient
        /\ UNCHANGED <<queues, accepted, began, live, strays>>
    BY <1>8 DEF InsertRefused
  <2>2. WindowsInv'
    BY <1>1, <2>1 DEF WindowsInv
  <2> QED
    BY <1>1, <1>r, <1>2, <1>6, <1>8, <2>1, <2>2
\* A step that changes the queue of c to one with the same window.
<1>9. ASSUME NEW c \in Clients, NEW q \in Queues(Ids),
             queues' = [queues EXCEPT ![c] = q],
             \A a, b : WindowInv(queues[c], a, b) => WindowInv(q, a, b),
             UNCHANGED <<accepted, began>>
      PROVE  /\ queues' \in [Clients -> Queues(Ids)] /\ WindowsInv'
             /\ queues'[c] = q
             /\ \A x \in Clients : x # c => queues'[x] = queues[x]
  <2>1. /\ queues' \in [Clients -> Queues(Ids)] /\ queues'[c] = q
        /\ \A x \in Clients : x # c => queues'[x] = queues[x]
    BY <1>1, <1>9
  <2>2. \A x \in Clients : WindowInv(queues'[x], accepted[x], began[x])
    BY <1>1, <1>9, <2>1 DEF WindowsInv
  <2> QED
    BY <1>9, <2>1, <2>2 DEF WindowsInv
<1>10. ASSUME NEW c \in Clients, Update(c)
       PROVE  Inv'
  <2>1. /\ order' \in Seq(Clients) /\ Ordered(order')
        /\ Len(order') <= MaxClient /\ Keys(order') = Keys(order)
    BY <1>1, <1>10, TouchKey DEF Update, Known
  <2>2. /\ queues' = [queues EXCEPT ![c].age = 0]
        /\ UNCHANGED <<class, accepted, began, live, strays>>
    BY <1>10 DEF Update
  <2> DEFINE q == [queues[c] EXCEPT !.age = 0]
  <2>3. /\ q \in Queues(Ids) /\ q.ref = queues[c].ref
        /\ \A a, b : WindowInv(queues[c], a, b) => WindowInv(q, a, b)
    <3>1. queues[c] \in Queues(Ids) /\ 0 \in 0..ActiveTime
      BY <1>1, WindowAssumption
    <3> QED
      BY <3>1, AgedWindow
  <2>4. queues' = [queues EXCEPT ![c] = q]
    BY <2>2
  <2> HIDE DEF q
  <2>5. /\ queues' \in [Clients -> Queues(Ids)] /\ WindowsInv'
        /\ queues'[c] = q
        /\ \A x \in Clients : x # c => queues'[x] = queues[x]
    BY <1>9, <2>2, <2>3, <2>4
  <2>6. \A x \in Clients : queues'[x].ref = queues[x].ref
    BY <2>3, <2>5
  <2> QED
    BY <1>1, <1>r, <1>2, <2>1, <2>2, <2>5, <2>6
<1>11. ASSUME NEW c \in Clients, Dispose(c)
       PROVE  Inv'
  <2>1. /\ class = "chain" /\ live[c] > 0
        /\ live' = [live EXCEPT ![c] = @ - 1]
        /\ strays' = IF live[c] = 1 THEN strays \ {c} ELSE strays
        /\ UNCHANGED <<class, accepted, began>>
    BY <1>11 DEF Dispose
  <2>2. /\ live' \in [Clients -> Nat] /\ live'[c] = live[c] - 1
        /\ \A x \in Clients : x # c => live'[x] = live[x]
        /\ strays' \subseteq Clients
        /\ \A x \in Clients : x # c => (x \in strays' <=> x \in strays)
        /\ c \notin strays' => c \notin strays \/ live[c] = 1
    BY <1>1, <2>1
  <2>3. CASE c \in Keys(order)
    <3> DEFINE q == DelRef(queues[c])
    <3>1. order' = Touch(order, c) /\ queues' = [queues EXCEPT ![c] = q]
      BY <1>11, <2>3 DEF Dispose, Known
    <3>2. /\ order' \in Seq(Clients) /\ Ordered(order')
          /\ Len(order') <= MaxClient /\ Keys(order') = Keys(order)
      BY <1>1, <2>3, <3>1, TouchKey
    <3>3. /\ q \in Queues(Ids)
          /\ q.ref = IF queues[c].ref > 0 THEN queues[c].ref - 1 ELSE 0
          /\ \A a, b : WindowInv(queues[c], a, b) => WindowInv(q, a, b)
      BY <1>1, DelRefWindow
    <3> HIDE DEF q
    <3>4. /\ queues' \in [Clients -> Queues(Ids)] /\ WindowsInv'
          /\ queues'[c] = q
          /\ \A x \in Clients : x # c => queues'[x] = queues[x]
      BY <1>9, <2>1, <3>1, <3>3
    <3>5. \A x \in Clients : x \in Keys(order') \/ queues'[x].ref = 0
      BY <1>r, <2>3, <3>2, <3>4
    <3>6. ASSUME NEW x \in Clients
          PROVE  /\ queues'[x].ref <= live'[x]
                 /\ x \notin strays' => queues'[x].ref = live'[x]
      <4>1. CASE x # c
        BY <1>r, <2>1, <2>2, <3>4, <4>1
      <4>2. CASE x = c
        <5>1. /\ queues[c].ref \in Nat /\ live[c] \in Nat
              /\ queues[c].ref <= live[c]
              /\ c \notin strays => queues[c].ref = live[c]
          BY <1>r, <2>1
        <5> QED
          BY <2>1, <2>2, <3>3, <3>4, <4>2, <5>1
      <4> QED
        BY <4>1, <4>2
    <3> QED
      BY <1>1, <1>2, <2>1, <2>2, <3>2, <3>4, <3>5, <3>6
  <2>4. CASE c \notin Keys(order)
    <3>1. UNCHANGED <<order, queues>>
      BY <1>11, <2>4 DEF Dispose, Known
    <3>2. WindowsInv'
      BY <1>1, <2>1, <3>1 DEF WindowsInv
    <3>3. ASSUME NEW x \in Clients
          PROVE  /\ queues'[x].ref <= live'[x]
                 /\ x \notin strays' => queues'[x].ref = live'[x]
      <4>1. CASE x # c
        BY <1>r, <2>1, <2>2, <3>1, <4>1
      <4>2. CASE x = c
        <5>1. /\ queues[c].ref = 0 /\ live[c] \in Nat
              /\ c \notin strays => queues[c].ref = live[c]
          BY <1>r, <2>1, <2>4
        <5> QED
          BY <2>1, <2>2, <3>1, <4>2, <5>1
      <4> QED
        BY <4>1, <4>2
    <3> QED
      BY <1>1, <1>r, <1>2, <2>1, <2>2, <3>1, <3>2, <3>3
  <2> QED
    BY <2>3, <2>4
<1>12. CASE Tick
  <2>1. /\ queues' = [c \in Clients |->
                        IF c \in Known /\ queues[c].age < ActiveTime
                        THEN [queues[c] EXCEPT !.age = @ + 1]
                        ELSE queues[c]]
        /\ UNCHANGED <<class, order, accepted, began, live, strays>>
    BY <1>12 DEF Tick
  <2>2. ASSUME NEW c \in Clients
        PROVE  /\ queues'[c] \in Queues(Ids) /\ queues'[c].ref = queues[c].ref
               /\ WindowInv(queues'[c], accepted[c], began[c])
    <3>1. queues[c] \in Queues(Ids)
          /\ WindowInv(queues[c], accepted[c], began[c])
      BY <1>1 DEF WindowsInv
    <3>2. CASE c \in Known /\ queues[c].age < ActiveTime
      <4>1. queues'[c] = [queues[c] EXCEPT !.age = queues[c].age + 1]
        BY <2>1, <3>2
      <4>2. queues[c].age + 1 \in 0..ActiveTime
        BY <3>1, <3>2, WindowAssumption DEF Queues
      <4> QED
        BY <3>1, <4>1, <4>2, AgedWindow
    <3>3. CASE ~(c \in Known /\ queues[c].age < ActiveTime)
      BY <2>1, <3>1, <3>3
    <3> QED
      BY <3>2, <3>3
  <2>3. queues' \in [Clients -> Queues(Ids)]
    BY <2>1, <2>2
  <2>4. WindowsInv'
    BY <2>1, <2>2 DEF WindowsInv
  <2>5. \A x \in Clients : queues'[x].ref = queues[x].ref
    BY <2>2
  <2> QED
    BY <1>1, <1>r, <1>2, <2>1, <2>3, <2>4, <2>5
<1>13. CASE UNCHANGED vars
  BY <1>1, <1>r, <1>2, <1>13 DEF vars, WindowsInv
<1> QED
  BY <1>4, <1>5, <1>7, <1>8, <1>10, <1>11, <1>12, <1>13 DEF Next, Insert

-----------------------------------------------------------------------------
\* The inductive invariant holds of every reachable table.
THEOREM InvHolds == Spec => []Inv
BY InitInv, NextInv, PTL DEF Spec

\* The state of the table always has its type: the ages stay within the bound
\* that stands for the clock, and the table never outgrows MaxClient and never
\* holds a client twice, whatever is evicted, refused or moved.
THEOREM TypeCorrect == Spec => []TypeOK
<1>1. Inv => TypeOK
  BY DEF Inv
<1> QED
  BY <1>1, InvHolds, PTL

\* No connection id is accepted twice in one window, for every window size
\* and any number of clients (client_queue.insert).
THEOREM NoReplayHolds == Spec => []NoReplay
<1>1. Inv => NoReplay
  BY DEF Inv, WindowsInv, WindowInv, NoReplay
<1> QED
  BY <1>1, InvHolds, PTL

\* A queue remembers at most MaxWindow ids (client_queue.insert).
THEOREM WindowBoundedHolds == Spec => []WindowBounded
<1>1. Inv => WindowBounded
  BY DEF Inv, WindowsInv, WindowInv, WindowBounded
<1> QED
  BY <1>1, InvHolds, PTL

\* Unused ids within the promised distance are always welcome, the next new
\* id among them (client_queue.insert).
THEOREM LateIdsWelcomeHolds == Spec => []LateIdsWelcome
<1>1. Inv => LateIdsWelcome
  <2> SUFFICES ASSUME Inv, NEW c \in Known, NEW id \in Ids,
                      accepted[c][id] = 0,
                      began[c] - Lookback <= id,
                      queues[c].back - MaxWindow <= id,
                      id <= queues[c].back
               PROVE  Accepts(queues[c], id)
    BY DEF LateIdsWelcome
  <2>1. c \in Clients
    BY DEF Inv, TypeOK, Known, Keys
  <2>2. queues[c] \in Queues(Ids) /\ began[c] \in Int /\ id \in Int
    BY <2>1, AuthAssumption DEF Inv, TypeOK
  <2>3. WindowInv(queues[c], accepted[c], began[c])
    BY <2>1 DEF Inv, WindowsInv
  <2>4. queues[c].front <= id
    BY <2>2, <2>3, WindowAssumption DEF WindowInv, Queues
  <2>5. id <= queues[c].front + MaxJump
    BY <2>2, <2>3, WindowAssumption DEF WindowInv, Queues
  <2>6. id \notin queues[c].alloc
    BY <2>3 DEF WindowInv
  <2> QED
    BY <2>4, <2>5, <2>6 DEF Accepts
<1> QED
  BY <1>1, InvHolds, PTL

\* The references of auth_chain's queues are the live connections, or fewer
\* after an eviction (client_queue.addref and delref, remove): a client whose
\* connections have all ended is inactive, for any number of clients.
THEOREM RefsCountedHolds == Spec => []RefsCounted
<1>1. Inv => RefsCounted
  BY DEF Inv, RefsInv
<1> QED
  BY <1>1, InvHolds, PTL
=============================================================================
