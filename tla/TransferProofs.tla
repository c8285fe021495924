--------------------------- MODULE TransferProofs ---------------------------
(* Theorems about Transfer: its invariants hold for every set of ports,    *)
(* every quota and every bound.                                            *)
EXTENDS Transfer, TLAPS

Count(p) == own[p].count + muCount[p]

\* The counters: what a round has read is never more than what the servers
\* have counted, and at the point where servers are stopped nothing is left
\* over from the stops of an earlier round.
CountersInv ==
  /\ pc = "update" => pullOk
  /\ \A p \in Ports :
       /\ ~own[p].up => own[p].count = 0
       /\ pc = "update" => Amount(curr[p]) <= Count(p)
       /\ pc \in {"pull", "stop"} => p \notin force /\ lastGet[p] <= Count(p)
       /\ ~pullOk => p \notin force /\ lastGet[p] = Absent /\ ~rows[p].row

\* The charges: there is enough traffic for what has been added to the row
\* together with what the next update can add.
ChargedInv ==
  \A p \in Ports \ forgot : ~doubt =>
    /\ total[p] <= used[p]
    /\ total[p] + Count(p) <= used[p] + Amount(lastUpd[p])
    /\ p \in force => total[p] + own[p].count <= used[p]
    /\ p \in force /\ lastGet[p] # Absent /\ lastUpd[p] # Absent =>
         total[p] + own[p].count + lastGet[p] <= used[p] + lastUpd[p]

\* The table, and the copies of the file: no amount without a row, and none
\* above what was added.
Fits(r, most) == r.billed <= most /\ (~r.row => r.billed = 0)
RowsInv ==
  \A p \in Ports : /\ Fits(db[p], total[p]) /\ Fits(copy[p], total[p])
                   /\ Fits(tool.rows[p], total[p])

\* A clean port: its row, which is there from the start of the server on, also
\* in the copy that is about to be written, shows all that was billed.
Clean(p) ==
  /\ muCount[p] = 0 /\ p \notin force /\ p \notin restart
  /\ db[p].billed = total[p] /\ total[p] = Amount(lastUpd[p])
  /\ used[p] = own[p].count
  /\ own[p].up \/ rows[p].row => db[p].row
  /\ pc = "update" /\ config.backEnd = "json" =>
       /\ copy[p].billed = total[p]
       /\ own[p].up \/ rows[p].row => copy[p].row
CleanInv == \A p \in clean : Clean(p)

\* The servers: who has one had a row in the round before, and at the end of
\* the round is entitled to it.
ServersInv ==
  \A p \in Ports :
    /\ pc # "start" /\ own[p].up => p \in lastRows
    /\ pc # "stop" /\ own[p].up => Allowed(p) /\ own[p].version = rows[p].version
    /\ p \in restart => pc = "start" /\ Allowed(p)

Inv ==
  /\ TypeOK /\ CountersInv /\ ChargedInv /\ RowsInv /\ CleanInv /\ ServersInv

-----------------------------------------------------------------------------
\* The row of a user who has none, and of one just added, by mujson_mgr or SQL.
LEMMA RowTypes ==
  /\ NoRow \in RowType /\ NewRow \in RowType
  /\ NoRow.row = FALSE /\ NoRow.billed = 0
  /\ NewRow.row = TRUE /\ NewRow.billed = 0
  /\ NoRows \in [Ports -> RowType]
  /\ \A p \in Ports : NoRows[p] = NoRow
<1>1. NoRow \in RowType
  BY DEF NoRow, RowType
<1>2. NewRow \in RowType
  BY DEF NewRow, RowType
<1>3. NoRow.row = FALSE /\ NoRow.billed = 0
  BY DEF NoRow
<1>4. NewRow.row = TRUE /\ NewRow.billed = 0
  BY DEF NewRow
<1> QED
  BY <1>1, <1>2, <1>3, <1>4 DEF NoRows

\* A changed row is a row.
LEMMA RowChanges ==
  ASSUME NEW r \in RowType
  PROVE  /\ \A b \in Int : [r EXCEPT !.billed = b] \in RowType
         /\ \A b \in BOOLEAN : [r EXCEPT !.enabled = b] \in RowType
         /\ [r EXCEPT !.enabled = ~@] \in RowType
         /\ [r EXCEPT !.version = 1 - @] \in RowType
<1>1. \A b \in Int : [r EXCEPT !.billed = b] \in RowType
  BY DEF RowType
<1>2. \A b \in BOOLEAN : [r EXCEPT !.enabled = b] \in RowType
  BY DEF RowType
<1>3. [r EXCEPT !.enabled = ~@] \in RowType
  BY DEF RowType
<1>4. [r EXCEPT !.version = 1 - @] \in RowType
  BY DEF RowType
<1> QED
  BY <1>1, <1>2, <1>3, <1>4

\* So is a changed multi-user server.
LEMMA MuChanges ==
  ASSUME NEW m \in [up : BOOLEAN, version : {0, 1}, users : SUBSET Ports],
         NEW v \in {0, 1}, NEW U \in SUBSET Ports
  PROVE  /\ m.version \in {0, 1}
         /\ [m EXCEPT !.users = U]
               \in [up : BOOLEAN, version : {0, 1}, users : SUBSET Ports]
         /\ \A b \in BOOLEAN : [up |-> b, version |-> v, users |-> U]
               \in [up : BOOLEAN, version : {0, 1}, users : SUBSET Ports]
<1>1. m.version \in {0, 1}
  OBVIOUS
<1>2. [m EXCEPT !.users = U]
        \in [up : BOOLEAN, version : {0, 1}, users : SUBSET Ports]
  OBVIOUS
<1>3. \A b \in BOOLEAN : [up |-> b, version |-> v, users |-> U]
        \in [up : BOOLEAN, version : {0, 1}, users : SUBSET Ports]
  OBVIOUS
<1> QED
  BY <1>1, <1>2, <1>3

\* What dt_transfer can hold.
LEMMA IncrementTypes ==
  ASSUME TypeOK, NEW p \in Ports
  PROVE  /\ Increment(p) \in Int /\ Amount(curr[p]) \in Nat
         /\ Amount(lastUpd[p]) \in Nat
         /\ Current(p) \in Nat \cup {Absent}
BY DEF TypeOK, AmountTypes, ServerTypes, Increment, Amount, Absent, Current

\* The first round starts with an empty memory.
LEMMA InitInv == Init => Inv
<1> SUFFICES ASSUME Init PROVE Inv
  OBVIOUS
<1> USE TransferAssumption
<1>1. TypeOK
  <2>1. TableTypes
    <3>1. [NewRow EXCEPT !.enabled = FALSE] \in RowType
      BY RowTypes, RowChanges
    <3>2. db \in [Ports -> RowType]
      BY <3>1, RowTypes DEF Init
    <3> QED
      BY <3>2, RowTypes DEF Init, TableTypes, Idle
  <2>2. ServerTypes
    BY DEF Init, ServerTypes, NoServers, Stopped, NoMu, Zero
  <2>3. AmountTypes
    BY DEF Init, AmountTypes, Zero, Empty
  <2>4. ThreadTypes
    BY DEF Init, ThreadTypes
  <2> QED
    BY <2>1, <2>2, <2>3, <2>4 DEF TypeOK
<1>2. CountersInv
  BY DEF Init, CountersInv, NoServers, Stopped, Empty, NoRows, NoRow
<1>3. ChargedInv
  BY DEF Init, ChargedInv, Count, Zero, NoServers, Stopped, Empty, Amount
<1>4. RowsInv
  <2>1. ASSUME NEW p \in Ports PROVE db[p].billed = 0
    BY RowTypes DEF Init, NewRow
  <2>2. ASSUME NEW p \in Ports
        PROVE  total[p] = 0 /\ copy[p] = NoRow /\ tool.rows[p] = NoRow
    BY RowTypes DEF Init, Zero, Idle
  <2>3. ASSUME NEW p \in Ports
        PROVE  /\ Fits(db[p], total[p]) /\ Fits(copy[p], total[p])
               /\ Fits(tool.rows[p], total[p])
    <3>1. Fits(NoRow, 0) /\ Fits(db[p], 0)
      BY <2>1, RowTypes DEF Fits
    <3> QED
      BY <2>2, <3>1
  <2> QED
    BY <2>3 DEF RowsInv
<1>5. CleanInv
  <2>1. ASSUME NEW p \in Ports PROVE db[p].billed = 0 /\ rows[p].row = FALSE
    BY RowTypes DEF Init, NewRow
  <2> QED
    BY <2>1 DEF Init, CleanInv, Clean, Zero, NoServers, Stopped, Empty, Amount
<1>6. ServersInv
  BY DEF Init, ServersInv, NoServers, Stopped
<1> QED
  BY <1>1, <1>2, <1>3, <1>4, <1>5, <1>6 DEF Inv

\* Every step keeps the types.
LEMMA TypeNext == TypeOK /\ [Next]_vars => TypeOK'
<1> SUFFICES ASSUME TypeOK, [Next]_vars PROVE TypeOK'
  OBVIOUS
<1> USE TransferAssumption DEF Absent
<1>0. TypeOK /\ TableTypes /\ ServerTypes /\ AmountTypes /\ ThreadTypes
  BY DEF TypeOK
<1>1. CASE PushNothing
  <2>1. TableTypes'
    BY <1>0, <1>1 DEF TableTypes, PushNothing, pushing, pool, tables, world, history
  <2>2. ServerTypes'
    BY <1>0, <1>1 DEF ServerTypes, PushNothing, pushing, pool, tables, world,
           history
  <2>3. AmountTypes'
    BY <1>0, <1>1 DEF AmountTypes, PushNothing, pushing, pool, tables, world,
           history
  <2>4. ThreadTypes'
    BY <1>0, <1>1 DEF ThreadTypes, PushNothing, pushing, pool, tables, world,
           history
  <2> QED
    BY <2>1, <2>2, <2>3, <2>4 DEF TypeOK
<1>2. CASE PushStart
  <2>1. TableTypes'
    BY <1>0, <1>2, RowTypes DEF TableTypes, PushStart, world
  <2>2. ServerTypes'
    BY <1>0, <1>2 DEF ServerTypes, PushStart, Current, pool, tables, world, history,
           NoRows, NoRow
  <2>3. AmountTypes'
    BY <1>0, <1>2, IncrementTypes DEF AmountTypes, PushStart, tables, history
  <2>4. ThreadTypes'
    BY <1>0, <1>2 DEF ThreadTypes, PushStart, Current, pool, tables, world, history,
           NoRows, NoRow
  <2> QED
    BY <2>1, <2>2, <2>3, <2>4 DEF TypeOK
<1>3. CASE PushDone
  <2>1. TableTypes'
    <3>1. \A p \in Ports : Increment(p) \in Int
      BY IncrementTypes
    <3>2. db' \in [Ports -> RowType]
      <4> DEFINE base == IF config.backEnd = "json" /\ \E p \in Ports : copy[p].row
                         THEN copy ELSE db
      <4>1. base \in [Ports -> RowType]
        BY <1>0 DEF TableTypes
      <4>2. ASSUME NEW p \in Ports
            PROVE  [base[p] EXCEPT !.billed = @ + Increment(p)] \in RowType
        <5>1. base[p] \in RowType /\ base[p].billed + Increment(p) \in Int
          BY <4>1, <3>1 DEF RowType
        <5> QED
          BY <5>1, RowChanges
      <4>3. \A p \in Ports : db'[p] \in RowType
        BY <1>3, <4>1, <4>2 DEF PushDone, Bill
      <4> QED
        BY <1>3, <4>3 DEF PushDone, Bill
    <3> QED
      BY <1>0, <1>3, <3>2, RowTypes DEF TableTypes, PushDone, AfterPush
  <2>2. ServerTypes'
    BY <1>0, <1>3 DEF ServerTypes, PushDone, AfterPush, Forgetting, Bill, Passed,
           Record, Sent, HasIncrement, Increment, Amount, Empty, NoRows,
           NoRow, pool
  <2>3. AmountTypes'
    BY <1>0, <1>3 DEF AmountTypes, PushDone, AfterPush, Forgetting, Bill, Passed,
           Record, Sent, HasIncrement, Increment, Amount, Empty, NoRows,
           NoRow, pool
  <2>4. ThreadTypes'
    BY <1>0, <1>3 DEF ThreadTypes, PushDone, AfterPush, Forgetting, Bill, Passed,
           Record, Sent, HasIncrement, Increment, Amount, Empty, NoRows,
           NoRow, pool
  <2> QED
    BY <2>1, <2>2, <2>3, <2>4 DEF TypeOK
<1>4. CASE PushFailed
  <2>1. TableTypes'
    BY <1>0, <1>4, RowTypes DEF TableTypes, PushFailed, AfterPush
  <2>2. ServerTypes'
    BY <1>0, <1>4 DEF ServerTypes, PushFailed, AfterPush, Forgetting, Passed,
           Record, Sent, HasIncrement, Increment, Amount, Empty, NoRows,
           NoRow, pool
  <2>3. AmountTypes'
    BY <1>0, <1>4 DEF AmountTypes, PushFailed, AfterPush, Forgetting, Passed,
           Record, Sent, HasIncrement, Increment, Amount, Empty, NoRows,
           NoRow, pool
  <2>4. ThreadTypes'
    BY <1>0, <1>4 DEF ThreadTypes, PushFailed, AfterPush, Forgetting, Passed,
           Record, Sent, HasIncrement, Increment, Amount, Empty, NoRows,
           NoRow, pool
  <2> QED
    BY <2>1, <2>2, <2>3, <2>4 DEF TypeOK
<1>5. CASE PushInDoubt
  <2>1. TableTypes'
    <3>1. \A p \in Ports : Increment(p) \in Int
      BY IncrementTypes
    <3>2. db' \in [Ports -> RowType]
      <4> DEFINE base == IF config.backEnd = "json" /\ \E p \in Ports : copy[p].row
                         THEN copy ELSE db
      <4>1. base \in [Ports -> RowType]
        BY <1>0 DEF TableTypes
      <4>2. ASSUME NEW p \in Ports
            PROVE  [base[p] EXCEPT !.billed = @ + Increment(p)] \in RowType
        <5>1. base[p] \in RowType /\ base[p].billed + Increment(p) \in Int
          BY <4>1, <3>1 DEF RowType
        <5> QED
          BY <5>1, RowChanges
      <4>3. \A p \in Ports : db'[p] \in RowType
        BY <1>5, <4>1, <4>2 DEF PushInDoubt, Bill
      <4> QED
        BY <1>5, <4>3 DEF PushInDoubt, Bill
    <3> QED
      BY <1>0, <1>5, <3>2, RowTypes DEF TableTypes, PushInDoubt, AfterPush
  <2>2. ServerTypes'
    BY <1>0, <1>5 DEF ServerTypes, PushInDoubt, AfterPush, Forgetting, Bill, Passed,
           Record, Sent, HasIncrement, Increment, Amount, Empty, NoRows,
           NoRow, pool
  <2>3. AmountTypes'
    BY <1>0, <1>5 DEF AmountTypes, PushInDoubt, AfterPush, Forgetting, Bill, Passed,
           Record, Sent, HasIncrement, Increment, Amount, Empty, NoRows,
           NoRow, pool
  <2>4. ThreadTypes'
    BY <1>0, <1>5 DEF ThreadTypes, PushInDoubt, AfterPush, Forgetting, Bill, Passed,
           Record, Sent, HasIncrement, Increment, Amount, Empty, NoRows,
           NoRow, pool
  <2> QED
    BY <2>1, <2>2, <2>3, <2>4 DEF TypeOK
<1>6. CASE PushRaises
  <2>1. TableTypes'
    BY <1>0, <1>6, RowTypes DEF TableTypes, PushRaises, world
  <2>2. ServerTypes'
    BY <1>0, <1>6 DEF ServerTypes, PushRaises, Passed, Empty, NoRows, NoRow, pool,
           world, history
  <2>3. AmountTypes'
    BY <1>0, <1>6 DEF AmountTypes, PushRaises, Passed, Empty, NoRows, NoRow, pool,
           world, history
  <2>4. ThreadTypes'
    BY <1>0, <1>6 DEF ThreadTypes, PushRaises, Passed, Empty, NoRows, NoRow, pool,
           world, history
  <2> QED
    BY <2>1, <2>2, <2>3, <2>4 DEF TypeOK
<1>7. CASE PullDone
  <2>1. TableTypes'
    BY <1>0, <1>7 DEF TableTypes, PullDone, pushing, pool, world, history
  <2>2. ServerTypes'
    BY <1>0, <1>7 DEF ServerTypes, PullDone, pushing, pool, world, history
  <2>3. AmountTypes'
    BY <1>0, <1>7 DEF AmountTypes, PullDone, pushing, pool, world, history
  <2>4. ThreadTypes'
    BY <1>0, <1>7 DEF ThreadTypes, PullDone, pushing, pool, world, history
  <2> QED
    BY <2>1, <2>2, <2>3, <2>4 DEF TypeOK
<1>8. CASE PullFailed
  <2>1. TableTypes'
    BY <1>0, <1>8, RowTypes DEF TableTypes, PullFailed, pushing, world
  <2>2. ServerTypes'
    BY <1>0, <1>8 DEF ServerTypes, PullFailed, NoRows, NoRow, pushing, pool, tables,
           world, history
  <2>3. AmountTypes'
    BY <1>0, <1>8 DEF AmountTypes, PullFailed, NoRows, NoRow, pushing, pool, tables,
           world, history
  <2>4. ThreadTypes'
    BY <1>0, <1>8 DEF ThreadTypes, PullFailed, NoRows, NoRow, pushing, pool, tables,
           world, history
  <2> QED
    BY <2>1, <2>2, <2>3, <2>4 DEF TypeOK
<1>9. CASE StopServers
  <2>1. TableTypes'
    BY <1>0, <1>9 DEF TableTypes, StopServers, ToStop, ToRestart, ToStart, Started,
           Stopped, Dropped, Forgetting, pushing, world
  <2>2. ServerTypes'
    <3>1. PICK failed \in SUBSET ToStart :
            own' = [p \in Ports |->
                      IF p \in ToStop \cup Dropped THEN Stopped
                      ELSE IF p \in ToStart \ failed THEN Started(p) ELSE own[p]]
      BY <1>9 DEF StopServers
    <3>2. \A p \in Ports : rows[p].version \in {0, 1}
      BY <1>0 DEF TableTypes, RowType
    <3>3. own' \in [Ports -> [up : BOOLEAN, count : Nat, version : {0, 1}]]
      BY <1>0, <3>1, <3>2 DEF ServerTypes, Stopped, Started
    <3>4. \/ mu' = [up |-> FALSE, version |-> mu.version, users |-> {}]
          \/ mu' = [up |-> TRUE, version |-> muConfig, users |-> {}]
          \/ mu' = mu
      BY <1>9, Zenon DEF StopServers
    <3>a. /\ mu \in [up : BOOLEAN, version : {0, 1}, users : SUBSET Ports]
          /\ muConfig \in {0, 1} /\ {} \in SUBSET Ports
      BY <1>0 DEF ServerTypes
    <3>b. /\ mu.version \in {0, 1}
          /\ [up |-> TRUE, version |-> muConfig, users |-> {}]
               \in [up : BOOLEAN, version : {0, 1}, users : SUBSET Ports]
      BY <3>a, MuChanges
    <3>c. [up |-> FALSE, version |-> mu.version, users |-> {}]
               \in [up : BOOLEAN, version : {0, 1}, users : SUBSET Ports]
      BY <3>a, <3>b, MuChanges
    <3>5. mu' \in [up : BOOLEAN, version : {0, 1}, users : SUBSET Ports]
      BY <3>a, <3>b, <3>c, <3>4
    <3> QED
      BY <1>0, <1>9, <3>3, <3>5 DEF ServerTypes, StopServers, world
  <2>3. AmountTypes'
    <3>1. ToStop \subseteq Ports /\ Dropped \subseteq Ports
      BY <1>0 DEF ToStop, Dropped, ThreadTypes
    <3>2. forgot' \subseteq Ports
      BY <1>0, <1>9, <3>1 DEF AmountTypes, StopServers, Forgetting
    <3>3. force' \subseteq Ports /\ clean' \subseteq Ports
      BY <1>0, <1>9, <3>1 DEF AmountTypes, StopServers
    <3>4. /\ lastGet' \in [Ports -> Nat \cup {Absent}]
          /\ lastUpd' \in [Ports -> Nat \cup {Absent}]
      BY <1>0, <1>9 DEF AmountTypes, StopServers
    <3> QED
      BY <1>0, <1>9, <3>2, <3>3, <3>4 DEF AmountTypes, StopServers, pushing
  <2>4. ThreadTypes'
    BY <1>0, <1>9 DEF ThreadTypes, StopServers, ToStop, ToRestart, ToStart, Started,
           Stopped, Dropped, Forgetting, pushing, world
  <2> QED
    BY <2>1, <2>2, <2>3, <2>4 DEF TypeOK
<1>10. CASE StartServers
  <2>1. TableTypes'
    BY <1>0, <1>10 DEF TableTypes, StartServers, Started, pushing, tables, world,
           history
  <2>2. ServerTypes'
    <3>1. PICK failed \in SUBSET restart :
            own' = [p \in Ports |->
                      IF p \in restart \ failed THEN Started(p) ELSE own[p]]
      BY <1>10 DEF StartServers
    <3>2. \A p \in Ports : rows[p].version \in {0, 1}
      BY <1>0 DEF TableTypes, RowType
    <3>3. own' \in [Ports -> [up : BOOLEAN, count : Nat, version : {0, 1}]]
      BY <1>0, <3>1, <3>2 DEF ServerTypes, Started
    <3>4. \/ mu' = [up |-> TRUE, version |-> muConfig,
                     users |-> {p \in Ports : Allowed(p)}]
          \/ mu' = [mu EXCEPT !.users = {p \in Ports : Allowed(p)}]
          \/ mu' = mu
      BY <1>10, Zenon DEF StartServers
    <3>a. /\ mu \in [up : BOOLEAN, version : {0, 1}, users : SUBSET Ports]
          /\ muConfig \in {0, 1} /\ {p \in Ports : Allowed(p)} \in SUBSET Ports
      BY <1>0 DEF ServerTypes
    <3>b. /\ [up |-> TRUE, version |-> muConfig,
              users |-> {p \in Ports : Allowed(p)}]
               \in [up : BOOLEAN, version : {0, 1}, users : SUBSET Ports]
          /\ [mu EXCEPT !.users = {p \in Ports : Allowed(p)}]
               \in [up : BOOLEAN, version : {0, 1}, users : SUBSET Ports]
      BY <3>a, MuChanges
    <3>5. mu' \in [up : BOOLEAN, version : {0, 1}, users : SUBSET Ports]
      BY <3>a, <3>b, <3>4
    <3> QED
      BY <1>0, <1>10, <3>3, <3>5 DEF ServerTypes, StartServers, world
  <2>3. AmountTypes'
    BY <1>0, <1>10 DEF AmountTypes, StartServers, Started, pushing, tables, world,
           history
  <2>4. ThreadTypes'
    BY <1>0, <1>10 DEF ThreadTypes, StartServers, Started, pushing, tables, world,
           history
  <2> QED
    BY <2>1, <2>2, <2>3, <2>4 DEF TypeOK
<1>11. ASSUME NEW p \in Ports, UseOwn(p) PROVE TypeOK'
  <2>1. TableTypes'
    BY <1>0, <1>11 DEF TableTypes, UseOwn, tables, thread, world
  <2>2. ServerTypes'
    BY <1>0, <1>11 DEF ServerTypes, UseOwn, tables, thread, world
  <2>3. AmountTypes'
    BY <1>0, <1>11 DEF AmountTypes, UseOwn, tables, thread, world
  <2>4. ThreadTypes'
    BY <1>0, <1>11 DEF ThreadTypes, UseOwn, tables, thread, world
  <2> QED
    BY <2>1, <2>2, <2>3, <2>4 DEF TypeOK
<1>12. ASSUME NEW p \in Ports, UseMu(p) PROVE TypeOK'
  <2>1. TableTypes'
    BY <1>0, <1>12 DEF TableTypes, UseMu, tables, thread, world
  <2>2. ServerTypes'
    BY <1>0, <1>12 DEF ServerTypes, UseMu, tables, thread, world
  <2>3. AmountTypes'
    BY <1>0, <1>12 DEF AmountTypes, UseMu, tables, thread, world
  <2>4. ThreadTypes'
    BY <1>0, <1>12 DEF ThreadTypes, UseMu, tables, thread, world
  <2> QED
    BY <2>1, <2>2, <2>3, <2>4 DEF TypeOK
<1>13. ASSUME NEW p \in Ports, Change(p) PROVE TypeOK'
  <2>1. TableTypes'
    <3>1. /\ [db[p] EXCEPT !.enabled = ~@] \in RowType
          /\ [db[p] EXCEPT !.version = 1 - @] \in RowType
      BY <1>0, RowChanges DEF TableTypes
    <3>2. db' \in [Ports -> RowType]
      BY <1>0, <1>13, <3>1, RowTypes DEF TableTypes, Change
    <3> QED
      BY <1>0, <1>13, <3>2 DEF TableTypes, Change, thread
  <2>2. ServerTypes'
    BY <1>0, <1>13 DEF ServerTypes, Change, NewRow, NoRow, pool, tables, thread
  <2>3. AmountTypes'
    BY <1>0, <1>13 DEF AmountTypes, Change, NewRow, NoRow, pool, tables, thread
  <2>4. ThreadTypes'
    BY <1>0, <1>13 DEF ThreadTypes, Change, NewRow, NoRow, pool, tables, thread
  <2> QED
    BY <2>1, <2>2, <2>3, <2>4 DEF TypeOK
<1>14. ASSUME NEW p \in Ports, ToolLoad(p) PROVE TypeOK'
  <2>1. TableTypes'
    <3>0. db[p] \in RowType /\ 0 \in Int
      BY <1>0 DEF TableTypes
    <3>1. /\ [db[p] EXCEPT !.billed = 0] \in RowType
          /\ [db[p] EXCEPT !.version = 1 - @] \in RowType
      BY <3>0, RowChanges
    <3>2. {Add(p), Edit(p), Delete(p), ClearUd(p)} \subseteq [Ports -> RowType]
      BY <1>0, <3>1, RowTypes DEF TableTypes, Add, Edit, Delete, ClearUd
    <3>3. PICK new \in [Ports -> RowType] : tool' = Loaded(new)
      BY <1>14, <3>2 DEF ToolLoad
    <3>4. tool' \in [open : BOOLEAN, rows : [Ports -> RowType]]
      BY <3>3 DEF Loaded
    <3> QED
      BY <1>0, <1>14, <3>4 DEF TableTypes, ToolLoad, thread
  <2>2. ServerTypes'
    BY <1>0, <1>14 DEF ServerTypes, ToolLoad, Loaded, Add, Edit, Delete, ClearUd,
           NewRow, NoRow, pool, tables, thread, history
  <2>3. AmountTypes'
    BY <1>0, <1>14 DEF AmountTypes, ToolLoad, Loaded, Add, Edit, Delete, ClearUd,
           NewRow, NoRow, pool, tables, thread, history
  <2>4. ThreadTypes'
    BY <1>0, <1>14 DEF ThreadTypes, ToolLoad, Loaded, Add, Edit, Delete, ClearUd,
           NewRow, NoRow, pool, tables, thread, history
  <2> QED
    BY <2>1, <2>2, <2>3, <2>4 DEF TypeOK
<1>15. CASE ToolSave
  <2>1. TableTypes'
    BY <1>0, <1>15, RowTypes DEF TableTypes, ToolSave, Idle, thread
  <2>2. ServerTypes'
    BY <1>0, <1>15 DEF ServerTypes, ToolSave, Idle, NoRows, NoRow, pool, tables,
           thread
  <2>3. AmountTypes'
    BY <1>0, <1>15 DEF AmountTypes, ToolSave, Idle, NoRows, NoRow, pool, tables,
           thread
  <2>4. ThreadTypes'
    BY <1>0, <1>15 DEF ThreadTypes, ToolSave, Idle, NoRows, NoRow, pool, tables,
           thread
  <2> QED
    BY <2>1, <2>2, <2>3, <2>4 DEF TypeOK
<1>16. CASE ChangeMu
  <2>1. TableTypes'
    BY <1>0, <1>16 DEF TableTypes, ChangeMu, pool, tables, thread, history
  <2>2. ServerTypes'
    BY <1>0, <1>16 DEF ServerTypes, ChangeMu, pool, tables, thread, history
  <2>3. AmountTypes'
    BY <1>0, <1>16 DEF AmountTypes, ChangeMu, pool, tables, thread, history
  <2>4. ThreadTypes'
    BY <1>0, <1>16 DEF ThreadTypes, ChangeMu, pool, tables, thread, history
  <2> QED
    BY <2>1, <2>2, <2>3, <2>4 DEF TypeOK
<1>17. CASE ProcessRestart
  <2>1. TableTypes'
    BY <1>0, <1>17, RowTypes DEF TableTypes, ProcessRestart
  <2>2. ServerTypes'
    BY <1>0, <1>17 DEF ServerTypes, ProcessRestart, NoServers, Stopped, NoMu, Zero,
           Empty, NoRows, NoRow
  <2>3. AmountTypes'
    BY <1>0, <1>17 DEF AmountTypes, ProcessRestart, NoServers, Stopped, NoMu, Zero,
           Empty, NoRows, NoRow
  <2>4. ThreadTypes'
    BY <1>0, <1>17 DEF ThreadTypes, ProcessRestart, NoServers, Stopped, NoMu, Zero,
           Empty, NoRows, NoRow
  <2> QED
    BY <2>1, <2>2, <2>3, <2>4 DEF TypeOK
<1>18. CASE UNCHANGED vars
  BY <1>18 DEF vars, TypeOK, TableTypes, ServerTypes, AmountTypes, ThreadTypes
<1> QED
  BY <1>1, <1>2, <1>3, <1>4, <1>5, <1>6, <1>7, <1>8, <1>9, <1>10, <1>11,
         <1>12, <1>13, <1>14, <1>15, <1>16, <1>17, <1>18 DEF Next, Push

\* The counters survive every step: a count only grows while its server is up,
\* and the end of push_db_all_user empties force_update_transfer before the
\* next servers are stopped.
LEMMA CountersNext ==
  ASSUME TypeOK, TypeOK', CountersInv, [Next]_vars
  PROVE  CountersInv'
<1> USE TransferAssumption DEF Absent
<1>t. /\ \A p \in Ports : /\ own[p].count \in Nat /\ muCount[p] \in Nat
                          /\ own[p].up \in BOOLEAN
                          /\ lastGet[p] \in Nat \cup {Absent}
                          /\ curr[p] \in Nat \cup {Absent}
      /\ pc \in {"push", "update", "pull", "stop", "start"}
  BY DEF TypeOK, ServerTypes, AmountTypes, ThreadTypes
<1>1. CASE PushNothing
  BY <1>t, <1>1 DEF CountersInv, PushNothing, Count, pool, tables, pushing
<1>2. CASE PushStart
  BY <1>t, <1>2 DEF CountersInv, PushStart, Current, Count, Amount, pool, tables
<1>3. CASE AfterPush /\ (\E S : Record(S))
  BY <1>t, <1>3 DEF CountersInv, AfterPush, Record, Count, Amount, Empty, pool
<1>4. CASE PushRaises
  BY <1>t, <1>4 DEF CountersInv, PushRaises, Count, pool
<1>5. CASE PullDone
  BY <1>t, <1>5 DEF CountersInv, PullDone, Count, pool, pushing
<1>6. CASE PullFailed
  BY <1>t, <1>6, RowTypes DEF CountersInv, PullFailed, Count, pool, pushing, tables
<1>7. CASE StopServers
  <2>1. PICK failed \in SUBSET ToStart :
          own' = [p \in Ports |->
                    IF p \in ToStop \cup Dropped THEN Stopped
                    ELSE IF p \in ToStart \ failed THEN Started(p) ELSE own[p]]
    BY <1>7 DEF StopServers
  <2>2. \A p \in Ports : ~own'[p].up => own'[p].count = 0
    BY <2>1, <1>t DEF CountersInv, Stopped, Started
  <2>3. ASSUME ~pullOk PROVE ToStop = {}
    BY <2>3 DEF ToStop, CountersInv
  <2> QED
    BY <1>7, <2>2, <2>3 DEF CountersInv, StopServers, pushing
<1>8. CASE StartServers
  <2>1. PICK failed \in SUBSET restart :
          own' = [p \in Ports |->
                    IF p \in restart \ failed THEN Started(p) ELSE own[p]]
    BY <1>8 DEF StartServers
  <2>2. \A p \in Ports : ~own'[p].up => own'[p].count = 0
    BY <2>1, <1>t DEF CountersInv, Stopped, Started
  <2> QED
    BY <1>8, <2>2 DEF CountersInv, StartServers, pushing, tables
<1>9. ASSUME NEW p \in Ports, UseOwn(p) PROVE CountersInv'
  <2>1. \A q \in Ports : /\ own'[q].up = own[q].up
                         /\ Count(q) <= Count(q)'
                         /\ ~own[q].up => own'[q].count = own[q].count
    BY <1>t, <1>9 DEF UseOwn, Count, TypeOK, ServerTypes
  <2> QED
    BY <1>t, <1>9, <2>1 DEF CountersInv, UseOwn, thread, tables, Count, Amount
<1>10. ASSUME NEW p \in Ports, UseMu(p) PROVE CountersInv'
  <2>1. \A q \in Ports : Count(q) <= Count(q)' 
    BY <1>t, <1>10 DEF UseMu, Count, TypeOK, ServerTypes
  <2> QED
    BY <1>t, <1>10, <2>1 DEF CountersInv, UseMu, thread, tables, Count, Amount
<1>11. ASSUME UNCHANGED <<pool, tables, thread>> PROVE CountersInv'
  BY <1>11 DEF CountersInv, Count, Amount, pool, tables, thread
<1>12. CASE ProcessRestart
  BY <1>12, RowTypes
     DEF CountersInv, ProcessRestart, Count, NoServers, Stopped, Zero, Empty
<1>13. \/ PushDone \/ PushFailed \/ PushInDoubt
       => AfterPush /\ (\E S : Record(S))
  BY Zenon DEF PushDone, PushFailed, PushInDoubt
<1>14. \/ (\E p \in Ports : Change(p) \/ ToolLoad(p))
       \/ ToolSave \/ ChangeMu \/ UNCHANGED vars
       => UNCHANGED <<pool, tables, thread>>
  BY DEF Change, ToolLoad, ToolSave, ChangeMu, vars, pool, tables, thread
<1> QED
  BY <1>1, <1>2, <1>3, <1>4, <1>5, <1>6, <1>7, <1>8, <1>9, <1>10, <1>11,
     <1>12, <1>13, <1>14 DEF Next, Push

\* What the end of push_db_all_user does to one user's amounts.
LEMMA RecordOne ==
  ASSUME TypeOK, CountersInv, ChargedInv, pc = "update", ~doubt,
         NEW S \in SUBSET Ports, Record(S), Forgetting(force),
         UNCHANGED <<pool, used>>,
         NEW p \in Ports \ forgot',
         S = Sent \/ (S = {} /\ total'[p] = total[p]),
         \/ total'[p] = total[p]
         \/ p \in Sent /\ Increment(p) > 0 /\ total'[p] = total[p] + Increment(p)
  PROVE  /\ total'[p] <= used'[p]
         /\ total'[p] + Count(p)' <= used'[p] + Amount(lastUpd[p])'
         /\ p \notin force'
<1> USE DEF Absent
<1>1. /\ own[p].count \in Nat /\ muCount[p] \in Nat /\ used[p] \in Nat
      /\ total[p] \in Nat /\ lastUpd[p] \in Nat \cup {Absent}
      /\ lastGet[p] \in Nat \cup {Absent} /\ curr[p] \in Nat \cup {Absent}
  BY DEF TypeOK, ServerTypes, AmountTypes
<1>2. /\ p \in Ports /\ p \notin forgot
      /\ p \in force => muCount[p] = 0 \/ lastUpd[p] = Absent
  BY <1>1 DEF Forgetting
<1>3. /\ total[p] <= used[p]
      /\ total[p] + Count(p) <= used[p] + Amount(lastUpd[p])
      /\ p \in force => total[p] + own[p].count <= used[p]
      /\ p \in force /\ lastGet[p] # Absent /\ lastUpd[p] # Absent =>
           total[p] + own[p].count + lastGet[p] <= used[p] + lastUpd[p]
      /\ Amount(curr[p]) <= Count(p)
  BY <1>2 DEF ChargedInv, CountersInv
<1>4. Count(p)' = Count(p) /\ used'[p] = used[p] /\ p \notin force'
  BY DEF Count, pool, Record
<1>5. CASE p \in force
  <2>1. lastUpd'[p] = Absent
    BY <1>2, <1>5 DEF Record
  <2>2. \/ total'[p] = total[p]
        \/ /\ lastGet[p] # Absent /\ lastUpd[p] # Absent
           /\ total'[p] = total[p] + lastGet[p] - lastUpd[p]
    BY <1>1, <1>5 DEF Sent, HasIncrement, Increment
  <2> QED
    BY <1>1, <1>2, <1>3, <1>4, <1>5, <2>1, <2>2 DEF Amount, Count
<1>6. CASE p \notin force /\ p \in S
  <2>1. lastUpd'[p] = Amount(lastUpd[p]) + Increment(p)
    BY <1>2, <1>6 DEF Record
  <2>2. /\ Increment(p) = Amount(curr[p]) - Amount(lastUpd[p])
        /\ Increment(p) > 0
    BY <1>6 DEF Sent, HasIncrement, Increment
  <2>3. total'[p] <= total[p] + Increment(p)
    BY <1>1, <2>2 DEF Amount
  <2> QED
    BY <1>1, <1>3, <1>4, <2>1, <2>2, <2>3 DEF Amount, Count
<1>7. CASE p \notin force /\ p \notin S
  <2>1. lastUpd'[p] = lastUpd[p]
    BY <1>2, <1>7 DEF Record
  <2>2. total'[p] = total[p]
    BY <1>7
  <2> QED
    BY <1>1, <1>3, <1>4, <2>1, <2>2 DEF Amount, Count
<1> QED
  BY <1>5, <1>6, <1>7

\* The charges survive every step: stopping a server keeps what the last round
\* had read of its count, and forgets the count itself.
LEMMA ChargedNext ==
  ASSUME TypeOK, TypeOK', CountersInv, ChargedInv, [Next]_vars
  PROVE  ChargedInv'
<1> SUFFICES ASSUME NEW p \in Ports \ forgot', ~doubt'
             PROVE  (/\ total[p] <= used[p]
                     /\ total[p] + Count(p) <= used[p] + Amount(lastUpd[p])
                     /\ p \in force => total[p] + own[p].count <= used[p]
                     /\ p \in force /\ lastGet[p] # Absent /\ lastUpd[p] # Absent
                          => total[p] + own[p].count + lastGet[p]
                               <= used[p] + lastUpd[p])'
  BY DEF ChargedInv
<1> USE TransferAssumption DEF Absent
<1>t. /\ own[p].count \in Nat /\ muCount[p] \in Nat /\ used[p] \in Nat
      /\ total[p] \in Nat /\ lastUpd[p] \in Nat \cup {Absent}
      /\ lastGet[p] \in Nat \cup {Absent} /\ curr[p] \in Nat \cup {Absent}
  BY DEF TypeOK, ServerTypes, AmountTypes
<1>c. ASSUME p \notin forgot, ~doubt
      PROVE  /\ total[p] <= used[p]
             /\ total[p] + Count(p) <= used[p] + Amount(lastUpd[p])
             /\ p \in force => total[p] + own[p].count <= used[p]
             /\ p \in force /\ lastGet[p] # Absent /\ lastUpd[p] # Absent =>
                  total[p] + own[p].count + lastGet[p] <= used[p] + lastUpd[p]
  BY <1>c DEF ChargedInv
<1>1. CASE UNCHANGED <<pool, lastGet, lastUpd, force, used, total, forgot, doubt>>
  BY <1>1, <1>c DEF Count, Amount, pool
<1>2. CASE PushDone
  <2>1. /\ pc = "update" /\ Forgetting(force)
        /\ UNCHANGED <<pool, used>> /\ ~doubt
    BY <1>2 DEF PushDone, AfterPush
  <2>3. PICK S \in SUBSET Ports : S = Sent /\ Record(S)
    BY <1>2 DEF PushDone, Sent
  <2>2. \/ total'[p] = total[p]
        \/ p \in Sent /\ Increment(p) > 0 /\ total'[p] = total[p] + Increment(p)
    BY <1>2 DEF PushDone, Bill
  <2> QED
    BY <2>1, <2>2, <2>3, RecordOne
<1>3. CASE PushFailed
  <2>1. PICK S \in {{}, Sent} : Record(S)
    BY <1>3 DEF PushFailed
  <2>2. /\ pc = "update" /\ Forgetting(force)
        /\ UNCHANGED <<pool, used>> /\ ~doubt /\ S \in SUBSET Ports
        /\ total'[p] = total[p] /\ (S = Sent \/ S = {})
    BY <1>3, <2>1 DEF PushFailed, AfterPush, Sent
  <2> QED
    BY <2>1, <2>2, RecordOne
<1>4. CASE PushInDoubt
  BY <1>4 DEF PushInDoubt
<1>5. CASE StopServers
  <2>1. /\ p \notin force /\ lastGet[p] <= Count(p)
        /\ ~own[p].up => own[p].count = 0
    BY <1>5 DEF StopServers, CountersInv
  <2>2. /\ p \notin forgot /\ ~doubt
        /\ p \in Dropped /\ ~MuStops => muCount[p] = 0 \/ lastUpd[p] = Absent
    BY <1>5, <1>t DEF StopServers, Forgetting
  <2>3. PICK failed \in SUBSET ToStart :
          own' = [q \in Ports |->
                    IF q \in ToStop \cup Dropped THEN Stopped
                    ELSE IF q \in ToStart \ failed THEN Started(q) ELSE own[q]]
    BY <1>5 DEF StopServers
  <2>4. /\ p \in ToStop \cup Dropped => own'[p].count = 0
        /\ p \notin ToStop \cup Dropped => own'[p].count = own[p].count
    BY <2>1, <2>3 DEF Stopped, Started, ToStart
  <2>5. /\ muCount'[p] = IF MuStops THEN 0 ELSE muCount[p]
        /\ lastGet'[p] = IF p \in Dropped THEN Absent ELSE lastGet[p]
        /\ lastUpd'[p] = IF p \in Dropped THEN Absent ELSE lastUpd[p]
        /\ used'[p] = used[p] /\ total'[p] = total[p]
        /\ p \in force' => p \in ToStop
    BY <1>5, <2>1 DEF StopServers
  <2>6. CASE p \in Dropped
    BY <1>t, <1>c, <2>1, <2>2, <2>4, <2>5, <2>6 DEF Count, Amount
  <2>7. CASE p \notin Dropped
    <3>1. Count(p)' <= Count(p)
      BY <1>t, <2>4, <2>5 DEF Count
    <3>2. p \in force' => own'[p].count = 0
      BY <2>4, <2>5
    <3> QED
      BY <1>t, <1>c, <2>1, <2>2, <2>4, <2>5, <2>7, <3>1, <3>2 DEF Count, Amount
  <2> QED
    BY <2>6, <2>7
<1>6. CASE StartServers
  <2>1. PICK failed \in SUBSET restart :
          own' = [q \in Ports |->
                    IF q \in restart \ failed THEN Started(q) ELSE own[q]]
    BY <1>6 DEF StartServers
  <2>2. own'[p].count = 0 \/ own'[p].count = own[p].count
    BY <2>1 DEF Started
  <2>3. /\ muCount'[p] = muCount[p] /\ lastGet'[p] = lastGet[p]
        /\ lastUpd'[p] = lastUpd[p] /\ used'[p] = used[p]
        /\ total'[p] = total[p] /\ force' = force
        /\ p \notin forgot /\ ~doubt
    BY <1>6 DEF StartServers, tables, history
  <2> QED
    BY <1>t, <1>c, <2>2, <2>3 DEF Count, Amount
<1>7. CASE \E q \in Ports : UseOwn(q) \/ UseMu(q)
  <2>1. PICK q \in Ports : UseOwn(q) \/ UseMu(q)
    BY <1>7
  <2>2. /\ total'[p] = total[p] /\ lastUpd'[p] = lastUpd[p]
        /\ lastGet'[p] = lastGet[p] /\ force' = force
        /\ p \notin forgot /\ ~doubt
    BY <2>1 DEF UseOwn, UseMu, tables
  <2>3. /\ used[p] <= used'[p] /\ used'[p] \in Nat
        /\ Count(p)' - Count(p) <= used'[p] - used[p]
        /\ own'[p].count - own[p].count <= used'[p] - used[p]
        /\ own'[p].count \in Nat /\ muCount'[p] \in Nat
    <3>1. /\ used' = [used EXCEPT ![q] = @ + 1]
          /\ \/ own' = [own EXCEPT ![q].count = @ + 1] /\ muCount' = muCount
             \/ own' = own /\ muCount' = [muCount EXCEPT ![q] = @ + 1]
      BY <2>1 DEF UseOwn, UseMu
    <3>2. /\ used'[p] = IF p = q THEN used[p] + 1 ELSE used[p]
          /\ \/ /\ own'[p].count = IF p = q THEN own[p].count + 1 ELSE own[p].count
                /\ muCount'[p] = muCount[p]
             \/ /\ own'[p].count = own[p].count
                /\ muCount'[p] = IF p = q THEN muCount[p] + 1 ELSE muCount[p]
      BY <3>1 DEF TypeOK, ServerTypes, AmountTypes
    <3> QED
      BY <1>t, <3>2 DEF Count
  <2> QED
    BY <1>t, <1>c, <2>2, <2>3 DEF Count, Amount
<1>8. CASE ProcessRestart
  BY <1>8, <1>t, <1>c
     DEF ProcessRestart, Count, Amount, NoServers, Stopped, Zero, Empty
<1>9. \/ PushNothing \/ PushStart \/ PushRaises \/ PullDone \/ PullFailed
      \/ (\E q \in Ports : Change(q) \/ ToolLoad(q))
      \/ ToolSave \/ ChangeMu \/ UNCHANGED vars
      => UNCHANGED <<pool, lastGet, lastUpd, force, used, total, forgot, doubt>>
  BY DEF PushNothing, PushStart, PushRaises, PullDone, PullFailed, Change,
         ToolLoad, ToolSave, ChangeMu, vars, pool, tables, thread, history
<1> QED
  BY <1>1, <1>2, <1>3, <1>4, <1>5, <1>6, <1>7, <1>8, <1>9 DEF Next, Push

\* A row that fits still does when the amount added to it is counted, and when
\* it is removed, cleared or changed otherwise.
LEMMA FitsChanged ==
  ASSUME NEW r \in RowType, NEW most \in Nat, Fits(r, most)
  PROVE  /\ r.row \in BOOLEAN /\ r.billed \in Int
         /\ Fits(NoRow, most) /\ Fits(NewRow, most)
         /\ Fits([r EXCEPT !.billed = 0], most)
         /\ Fits([r EXCEPT !.version = 1 - @], most)
         /\ Fits([r EXCEPT !.enabled = ~@], most)
         /\ \A more \in Nat : most <= more => Fits(r, more)
         /\ \A x \in Int : r.row =>
              Fits([r EXCEPT !.billed = @ + x], IF x > 0 THEN most + x ELSE most)
<1> USE DEF Fits, RowType
<1>1. Fits(NoRow, most) /\ Fits(NewRow, most)
  BY RowTypes
<1>2. Fits([r EXCEPT !.billed = 0], most)
  OBVIOUS
<1>3. Fits([r EXCEPT !.version = 1 - @], most)
  OBVIOUS
<1>4. Fits([r EXCEPT !.enabled = ~@], most)
  OBVIOUS
<1>5. \A more \in Nat : most <= more => Fits(r, more)
  OBVIOUS
<1>6. \A x \in Int : r.row =>
        Fits([r EXCEPT !.billed = @ + x], IF x > 0 THEN most + x ELSE most)
  OBVIOUS
<1>7. r.row \in BOOLEAN /\ r.billed \in Int
  OBVIOUS
<1> QED
  BY <1>1, <1>2, <1>3, <1>4, <1>5, <1>6, <1>7

\* The rows survive an update.
LEMMA BillRows ==
  ASSUME TypeOK, RowsInv, Bill, copy' = NoRows, tool' = tool
  PROVE  RowsInv'
<1> DEFINE base == IF config.backEnd = "json" /\ \E q \in Ports : copy[q].row
                   THEN copy ELSE db
<1> SUFFICES ASSUME NEW p \in Ports
             PROVE  (/\ Fits(db[p], total[p]) /\ Fits(copy[p], total[p])
                     /\ Fits(tool.rows[p], total[p]))'
  BY DEF RowsInv
<1>1. /\ base[p] \in RowType /\ tool.rows[p] \in RowType /\ total[p] \in Nat
      /\ Increment(p) \in Int
      /\ Fits(base[p], total[p]) /\ Fits(tool.rows[p], total[p])
  BY IncrementTypes DEF TypeOK, TableTypes, AmountTypes, RowsInv
<1>2. \/ /\ base[p].row
         /\ db'[p] = [base[p] EXCEPT !.billed = @ + Increment(p)]
         /\ total'[p] = IF Increment(p) > 0 THEN total[p] + Increment(p)
                        ELSE total[p]
      \/ db'[p] = base[p] /\ total'[p] = total[p]
  BY DEF Bill
<1> HIDE DEF base
<1>3. total'[p] \in Nat /\ total[p] <= total'[p]
  BY <1>1, <1>2
<1>4. Fits(db'[p], total'[p])
  <2>1. CASE db'[p] = base[p] /\ total'[p] = total[p]
    BY <1>1, <2>1
  <2>2. CASE /\ base[p].row
             /\ db'[p] = [base[p] EXCEPT !.billed = @ + Increment(p)]
             /\ total'[p] = IF Increment(p) > 0 THEN total[p] + Increment(p)
                            ELSE total[p]
    BY <1>1, <2>2, FitsChanged
  <2> QED
    BY <1>2, <2>1, <2>2
<1>5. Fits(tool.rows[p], total'[p])
  BY <1>1, <1>3, FitsChanged
<1>6. Fits(copy'[p], total'[p])
  BY <1>3, RowTypes DEF Fits
<1> QED
  BY <1>4, <1>5, <1>6 DEF Fits

\* The rows survive every step: the tool and the server write what they have
\* read, with amounts that were counted.
LEMMA RowsNext ==
  ASSUME TypeOK, TypeOK', RowsInv, [Next]_vars
  PROVE  RowsInv'
<1>t. \A p \in Ports :
        /\ db[p] \in RowType /\ copy[p] \in RowType /\ tool.rows[p] \in RowType
        /\ total[p] \in Nat
        /\ Fits(db[p], total[p]) /\ Fits(copy[p], total[p])
        /\ Fits(tool.rows[p], total[p])
  BY DEF TypeOK, TableTypes, AmountTypes, RowsInv
<1>n. \A p \in Ports : Fits(NoRows[p], total[p])
  BY <1>t, RowTypes, FitsChanged
<1>1. CASE UNCHANGED <<db, copy, tool, total>>
  BY <1>1, <1>t DEF RowsInv
<1>2. CASE copy' \in {db, NoRows} /\ UNCHANGED <<db, tool, total>>
  BY <1>2, <1>t, <1>n DEF RowsInv
<1>3. CASE PushDone \/ PushInDoubt
  BY <1>3, BillRows DEF PushDone, PushInDoubt, AfterPush
<1>4. CASE \E p \in Ports : Change(p)
  <2>1. PICK p \in Ports : Change(p)
    BY <1>4
  <2>2. /\ db'[p] \in {NewRow, NoRow, [db[p] EXCEPT !.enabled = ~@],
                       [db[p] EXCEPT !.version = 1 - @]}
        /\ \A q \in Ports \ {p} : db'[q] = db[q]
    BY <2>1 DEF Change, TypeOK, TableTypes
  <2>3. Fits(db'[p], total[p])
    <3>1. db[p] \in RowType /\ total[p] \in Nat /\ Fits(db[p], total[p])
      BY <1>t
    <3>2. /\ Fits(NoRow, total[p]) /\ Fits(NewRow, total[p])
          /\ Fits([db[p] EXCEPT !.billed = 0], total[p])
          /\ Fits([db[p] EXCEPT !.version = 1 - @], total[p])
          /\ Fits([db[p] EXCEPT !.enabled = ~@], total[p])
      BY <3>1, FitsChanged
    <3> QED
      BY <3>2, <2>2
  <2>4. UNCHANGED <<copy, tool, total>>
    BY <2>1 DEF Change, thread
  <2> QED
    BY <1>t, <2>2, <2>3, <2>4 DEF RowsInv
<1>5. CASE \E p \in Ports : ToolLoad(p)
  <2>1. PICK p \in Ports : ToolLoad(p)
    BY <1>5
  <2>2. PICK new \in {Add(p), Edit(p), Delete(p), ClearUd(p)} :
          tool' = Loaded(new)
    BY <2>1 DEF ToolLoad
  <2>3. /\ new[p] \in {NewRow, NoRow, db[p], [db[p] EXCEPT !.billed = 0],
                       [db[p] EXCEPT !.version = 1 - @]}
        /\ \A q \in Ports \ {p} : new[q] = db[q]
    BY <2>2 DEF TypeOK, TableTypes, Add, Edit, Delete, ClearUd
  <2>4. Fits(new[p], total[p])
    <3>1. db[p] \in RowType /\ total[p] \in Nat /\ Fits(db[p], total[p])
      BY <1>t
    <3>2. /\ Fits(NoRow, total[p]) /\ Fits(NewRow, total[p])
          /\ Fits([db[p] EXCEPT !.billed = 0], total[p])
          /\ Fits([db[p] EXCEPT !.version = 1 - @], total[p])
          /\ Fits([db[p] EXCEPT !.enabled = ~@], total[p])
      BY <3>1, FitsChanged
    <3> QED
      BY <3>1, <3>2, <2>3
  <2>5. tool'.rows = new /\ UNCHANGED <<db, copy, total>>
    BY <2>1, <2>2 DEF ToolLoad, thread, history, Loaded
  <2> QED
    BY <1>t, <2>3, <2>4, <2>5 DEF RowsInv
<1>6. CASE ToolSave
  BY <1>6, <1>t, <1>n DEF ToolSave, RowsInv, Idle, thread
<1>7. \/ PushNothing \/ PullDone \/ PullFailed \/ StopServers \/ StartServers
      \/ (\E q \in Ports : UseOwn(q) \/ UseMu(q)) \/ ChangeMu \/ UNCHANGED vars
      => UNCHANGED <<db, copy, tool, total>>
  BY DEF PushNothing, PullDone, PullFailed, StopServers, StartServers, UseOwn,
         UseMu, ChangeMu, vars, pushing, thread, world, history
<1>8. PushStart \/ PushFailed \/ PushRaises \/ ProcessRestart
      => copy' \in {db, NoRows} /\ UNCHANGED <<db, tool, total>>
  BY DEF PushStart, PushFailed, AfterPush, PushRaises, ProcessRestart, world,
         history
<1> QED
  BY <1>1, <1>2, <1>3, <1>4, <1>5, <1>6, <1>7, <1>8 DEF Next, Push

\* A clean port stays clean, or is taken out: an increment comes from a server
\* that is up, so there is a row to add it to.
LEMMA CleanNext ==
  ASSUME TypeOK, TypeOK', CountersInv, RowsInv, CleanInv, [Next]_vars
  PROVE  CleanInv'
<1> SUFFICES ASSUME NEW p \in clean' PROVE Clean(p)'
  BY DEF CleanInv
<1> USE DEF Absent
<1>t. /\ p \in Ports /\ own[p].count \in Nat /\ own[p].up \in BOOLEAN
      /\ muCount[p] \in Nat /\ used[p] \in Nat
      /\ total[p] \in Nat /\ lastUpd[p] \in Nat \cup {Absent}
      /\ curr[p] \in Nat \cup {Absent}
      /\ db[p] \in RowType /\ copy[p] \in RowType
  BY DEF TypeOK, ServerTypes, AmountTypes, TableTypes
<1>r. /\ db[p].row \in BOOLEAN /\ db[p].billed \in Int
      /\ ~db[p].row => db[p].billed = 0
      /\ ~own[p].up => own[p].count = 0
  BY <1>t DEF RowType, RowsInv, Fits, CountersInv
<1>1. ASSUME p \in clean PROVE Clean(p)
  BY <1>1 DEF CleanInv
<1>2. CASE UNCHANGED <<db, own, muCount, lastUpd, force, restart, total, used,
                       rows, clean, config>>
           /\ (pc' # "update" \/ UNCHANGED <<pc, copy>>)
  BY <1>1, <1>2 DEF Clean, Amount
<1>3. CASE PushStart
  <2>1. /\ p \in clean
        /\ UNCHANGED <<db, own, muCount, lastUpd, force, restart, total, used,
                       rows, config>>
        /\ config.backEnd = "json" => copy' = db
    BY <1>3 DEF PushStart, pool, tables, world, history
  <2> QED
    BY <1>1, <2>1 DEF Clean, Amount
<1>4. CASE PushDone
  <2> DEFINE base == IF config.backEnd = "json" /\ \E q \in Ports : copy[q].row
                     THEN copy ELSE db
  <2>1. /\ p \in clean /\ pc = "update" /\ pc' = "pull" /\ force' = {}
        /\ UNCHANGED <<own, muCount, restart, used, rows>>
    BY <1>4 DEF PushDone, AfterPush, Record, pool
  <2>2. Clean(p)
    BY <1>1, <2>1
  <2>3. /\ base[p] \in RowType /\ base[p].billed = total[p]
        /\ own[p].up \/ rows[p].row => base[p].row
    BY <1>t, <2>1, <2>2 DEF Clean
  <2>4. lastUpd'[p] = IF p \in Sent THEN Amount(lastUpd[p]) + Increment(p)
                      ELSE lastUpd[p]
    BY <1>4, <1>t, <2>2 DEF PushDone, Record, Clean
  <2>5. /\ p \in Sent => Increment(p) \in Nat /\ Increment(p) > 0
        /\ p \in Sent => own[p].up
    <3>1. p \in Sent => /\ Increment(p) = Amount(curr[p]) - Amount(lastUpd[p])
                        /\ Increment(p) > 0
      BY <2>2 DEF Clean, Sent, HasIncrement, Increment
    <3>2. Amount(curr[p]) <= own[p].count
      BY <1>t, <2>1, <2>2 DEF Clean, CountersInv, Count
    <3> QED
      BY <1>t, <1>r, <3>1, <3>2 DEF Amount
  <2>6. /\ p \in Sent /\ base[p].row =>
              /\ db'[p] = [base[p] EXCEPT !.billed = @ + Increment(p)]
              /\ total'[p] = total[p] + Increment(p)
        /\ ~(p \in Sent /\ base[p].row) =>
              db'[p] = base[p] /\ total'[p] = total[p]
    BY <1>4, <1>t, <2>5 DEF PushDone, Bill
  <2> HIDE DEF base
  <2>7. CASE p \in Sent
    <3>1. /\ db'[p].billed = base[p].billed + Increment(p)
          /\ db'[p].row = base[p].row /\ total'[p] = total[p] + Increment(p)
      BY <2>3, <2>5, <2>6, <2>7 DEF RowType
    <3> QED
      BY <1>t, <2>1, <2>2, <2>3, <2>4, <2>5, <2>7, <3>1 DEF Clean, Amount
  <2>8. CASE p \notin Sent
    BY <1>t, <2>1, <2>2, <2>3, <2>4, <2>6, <2>8 DEF Clean, Amount
  <2> QED
    BY <2>7, <2>8
<1>5. CASE PushFailed
  <2>1. /\ p \in clean /\ config.backEnd = "v2"
        /\ pc' = "pull" /\ force' = {} /\ Record({})
        /\ UNCHANGED <<db, own, muCount, restart, used, rows, total, config>>
    BY <1>5 DEF PushFailed, AfterPush, Record, pool
  <2>2. lastUpd'[p] = lastUpd[p]
    BY <1>t, <1>1, <2>1 DEF Record, Clean
  <2> QED
    BY <1>1, <2>1, <2>2 DEF Clean, Amount
<1>6. CASE PushInDoubt \/ ProcessRestart
  BY <1>6 DEF PushInDoubt, ProcessRestart
<1>7. CASE PullDone
  <2>1. /\ p \in clean /\ pc' = "stop" /\ rows' = db
        /\ UNCHANGED <<db, own, muCount, lastUpd, force, restart, total, used,
                       config>>
    BY <1>7 DEF PullDone, pool, world, history
  <2> QED
    BY <1>1, <2>1 DEF Clean, Amount
<1>8. CASE PullFailed
  <2>1. /\ p \in clean /\ pc' # "update" /\ (rows' = rows \/ rows' = NoRows)
        /\ UNCHANGED <<db, own, muCount, lastUpd, force, restart, total, used,
                       config>>
    BY <1>8 DEF PullFailed, pool, tables, world, history
  <2>2. rows'[p].row => rows[p].row
    BY <1>t, <2>1, RowTypes
  <2> QED
    BY <1>1, <2>1, <2>2 DEF Clean, Amount
<1>9. CASE StopServers
  <2>1. /\ p \in clean /\ p \notin ToStop /\ p \notin Dropped
        /\ pc' = "start" /\ force' = force \cup ToStop
        /\ restart' = ToRestart /\ lastUpd'[p] = lastUpd[p]
        /\ muCount'[p] \in {0, muCount[p]}
        /\ UNCHANGED <<db, total, used, rows, config>>
    BY <1>9, <1>t DEF StopServers, world
  <2>2. PICK failed \in SUBSET ToStart :
          own' = [q \in Ports |->
                    IF q \in ToStop \cup Dropped THEN Stopped
                    ELSE IF q \in ToStart \ failed THEN Started(q) ELSE own[q]]
    BY <1>9 DEF StopServers
  <2>3. /\ own'[p].count = own[p].count
        /\ own'[p].up => own[p].up \/ rows[p].row
    BY <1>t, <1>r, <2>1, <2>2 DEF Started, ToStart, Allowed
  <2>4. p \notin ToRestart
    BY <2>1 DEF ToRestart
  <2> QED
    BY <1>1, <2>1, <2>3, <2>4 DEF Clean, Amount
<1>10. CASE StartServers
  <2>1. /\ p \in clean /\ pc' = "push" /\ restart' = {}
        /\ UNCHANGED <<db, muCount, lastUpd, force, total, used, rows, config>>
    BY <1>10 DEF StartServers, tables, world, history
  <2>2. own'[p] = own[p]
    BY <1>10, <1>t, <1>1, <2>1 DEF StartServers, Clean
  <2> QED
    BY <1>1, <2>1, <2>2 DEF Clean, Amount
<1>11. CASE \E q \in Ports : UseOwn(q) \/ UseMu(q)
  <2>1. PICK q \in Ports : UseOwn(q) \/ UseMu(q)
    BY <1>11
  <2>2. /\ p \in clean
        /\ UNCHANGED <<db, lastUpd, force, restart, total, rows, config, pc, copy>>
    BY <2>1 DEF UseOwn, UseMu, tables, thread, world
  <2>3. CASE UseOwn(q)
    <3>1. /\ own'[p].up = own[p].up /\ muCount' = muCount
          /\ used[p] = own[p].count => used'[p] = own'[p].count
      BY <1>t, <2>3 DEF UseOwn, TypeOK, ServerTypes, AmountTypes
    <3> QED
      BY <1>1, <2>2, <3>1 DEF Clean, Amount
  <2>4. CASE UseMu(q)
    <3>1. /\ own' = own /\ muCount'[p] = muCount[p] /\ used'[p] = used[p]
      BY <1>t, <2>4 DEF UseMu, TypeOK, ServerTypes, AmountTypes
    <3> QED
      BY <1>1, <2>2, <3>1 DEF Clean, Amount
  <2> QED
    BY <2>1, <2>3, <2>4
<1>12. CASE \E q \in Ports : Change(q)
  <2>1. PICK q \in Ports : Change(q)
    BY <1>12
  <2>2. /\ p \in clean /\ config.backEnd # "json"
        /\ UNCHANGED <<own, muCount, lastUpd, force, restart, total, used, rows,
                       config>>
    BY <2>1 DEF Change, pool, tables, thread
  <2>3. \/ db'[p] = db[p]
        \/ ~db[p].row /\ db'[p] = NewRow
        \/ db'[p] = [db[p] EXCEPT !.enabled = ~@]
        \/ db'[p] = [db[p] EXCEPT !.version = 1 - @]
    BY <2>1, <1>t DEF Change, TypeOK, TableTypes
  <2>4. /\ db'[p].billed = db[p].billed
        /\ db[p].row => db'[p].row
    BY <1>t, <1>r, <2>3, RowTypes DEF RowType
  <2> QED
    BY <1>1, <2>2, <2>4 DEF Clean, Amount
<1>13. CASE ToolSave
  <2>1. /\ p \in clean
        /\ db'[p].billed = db[p].billed
        /\ db[p].row => db'[p].row
        /\ UNCHANGED <<own, muCount, lastUpd, force, restart, total, used, rows,
                       config, pc, copy>>
    BY <1>13 DEF ToolSave, pool, tables, thread
  <2> QED
    BY <1>1, <2>1 DEF Clean, Amount
<1>14. \/ PushNothing \/ PushRaises \/ (\E q \in Ports : ToolLoad(q))
       \/ ChangeMu \/ UNCHANGED vars
       => /\ UNCHANGED <<db, own, muCount, lastUpd, force, restart, total, used,
                         rows, clean, config>>
          /\ pc' # "update" \/ UNCHANGED <<pc, copy>>
  BY DEF PushNothing, PushRaises, ToolLoad, ChangeMu, vars, pool, tables,
         pushing, thread, world, history
<1> QED
  BY <1>2, <1>3, <1>4, <1>5, <1>6, <1>7, <1>8, <1>9, <1>10, <1>11, <1>12,
     <1>13, <1>14 DEF Next, Push

\* The servers survive every step: what is up at the end of a round was looked
\* at in this round, because it had a row in the round before.
LEMMA ServersNext ==
  ASSUME TypeOK, TypeOK', ServersInv, [Next]_vars
  PROVE  ServersInv'
<1>t. /\ \A p \in Ports : own[p].up \in BOOLEAN
      /\ pc \in {"push", "update", "pull", "stop", "start"}
  BY DEF TypeOK, ServerTypes, ThreadTypes
<1>1. CASE /\ UNCHANGED <<lastRows, rows, restart>>
           /\ \A p \in Ports : /\ own'[p].up = own[p].up
                               /\ own'[p].version = own[p].version
           /\ \/ pc' = pc
              \/ pc \in {"push", "update", "pull"} /\ pc' \in {"push", "update", "pull"}
  BY <1>1, <1>t DEF ServersInv, Allowed
<1>2. CASE PullDone \/ (PullFailed /\ pc' = "stop")
  BY <1>2, <1>t DEF ServersInv, PullDone, PullFailed, pool
<1>3. CASE StopServers
  <2>1. PICK failed \in SUBSET ToStart :
          own' = [q \in Ports |->
                    IF q \in ToStop \cup Dropped THEN Stopped
                    ELSE IF q \in ToStart \ failed THEN Started(q) ELSE own[q]]
    BY <1>3 DEF StopServers
  <2>2. /\ pc = "stop" /\ pc' = "start" /\ restart' = ToRestart
        /\ UNCHANGED <<rows, lastRows>>
    BY <1>3 DEF StopServers
  <2>3. ASSUME NEW p \in Ports, own'[p].up
        PROVE  Allowed(p) /\ own'[p].version = rows[p].version
    <3>1. CASE p \in ToStart \ failed
      BY <2>1, <2>3, <3>1 DEF ToStart, ToStop, Stopped, Started
    <3>2. CASE p \notin ToStart \ failed
      <4>1. own'[p] = own[p] /\ p \notin ToStop /\ p \notin Dropped
        BY <2>1, <2>3, <3>2 DEF Stopped
      <4>2. own[p].up /\ p \in lastRows
        BY <2>2, <2>3, <4>1 DEF ServersInv
      <4> QED
        BY <4>1, <4>2 DEF ToStop, Dropped
    <3> QED
      BY <3>1, <3>2
  <2> QED
    BY <2>2, <2>3 DEF ServersInv, ToRestart, Allowed
<1>4. CASE StartServers
  <2>1. PICK failed \in SUBSET restart :
          own' = [q \in Ports |->
                    IF q \in restart \ failed THEN Started(q) ELSE own[q]]
    BY <1>4 DEF StartServers
  <2>2. /\ pc = "start" /\ pc' = "push" /\ restart' = {} /\ rows' = rows
        /\ lastRows' = {p \in Ports : rows[p].row}
    BY <1>4 DEF StartServers
  <2>3. ASSUME NEW p \in Ports, own'[p].up
        PROVE  Allowed(p) /\ own'[p].version = rows[p].version
    BY <2>1, <2>2, <2>3 DEF ServersInv, Started
  <2> QED
    BY <2>2, <2>3 DEF ServersInv, Allowed
<1>5. CASE ProcessRestart
  BY <1>5 DEF ProcessRestart, ServersInv, NoServers, Stopped
<1>6. CASE \E q \in Ports : UseOwn(q)
  <2>1. PICK q \in Ports : UseOwn(q)
    BY <1>6
  <2>2. \A p \in Ports : /\ own'[p].up = own[p].up
                         /\ own'[p].version = own[p].version
    BY <2>1 DEF UseOwn, TypeOK, ServerTypes
  <2>3. UNCHANGED <<lastRows, rows, restart, pc>>
    BY <2>1 DEF UseOwn, thread
  <2> QED
    BY <1>1, <2>2, <2>3
<1>7. ASSUME \/ PushNothing \/ PushStart \/ PushDone \/ PushFailed \/ PushInDoubt
             \/ PushRaises \/ (PullFailed /\ pc' = "push")
             \/ (\E q \in Ports : UseMu(q) \/ Change(q) \/ ToolLoad(q))
             \/ ToolSave \/ ChangeMu \/ UNCHANGED vars
      PROVE  /\ UNCHANGED <<lastRows, rows, restart, own>>
             /\ \/ pc' = pc
                \/ /\ pc \in {"push", "update", "pull"}
                   /\ pc' \in {"push", "update", "pull"}
  BY <1>7
     DEF PushNothing, PushStart, PushDone, PushFailed, PushInDoubt, AfterPush,
         PushRaises, PullFailed, UseMu, Change, ToolLoad, ToolSave, ChangeMu,
         vars, pool, thread
<1>8. PullFailed => pc' \in {"stop", "push"}
  BY DEF PullFailed
<1> QED
  BY <1>1, <1>2, <1>3, <1>4, <1>5, <1>6, <1>7, <1>8 DEF Next, Push

-----------------------------------------------------------------------------
\* The parts of the invariant hold together in every state.
LEMMA Invariant == Spec => []Inv
<1>1. Inv /\ [Next]_vars => Inv'
  BY TypeNext, CountersNext, ChargedNext, RowsNext, CleanNext, ServersNext DEF Inv
<1> QED
  BY InitInv, <1>1, PTL DEF Spec

\* Every variable keeps its type: no counter of a server or of the tables of
\* db_transfer.py goes below zero, and no amount is taken off one that is
\* not there.
THEOREM TypeCorrect == Spec => []TypeOK
<1>1. Inv => TypeOK
  BY DEF Inv
<1> QED
  BY Invariant, <1>1, PTL

\* push_db_all_user never charges a user for more than his traffic, unless an
\* update was done and reported as failed or clear_cache forgot the amount of
\* a user the multi-user server still counts for; and no row shows more than
\* was added to it.
THEOREM ChargesCovered == Spec => []BilledAtMostUsed
<1>1. Inv => BilledAtMostUsed
  BY DEF Inv, ChargedInv, RowsInv, Fits, BilledAtMostUsed
<1> QED
  BY Invariant, <1>1, PTL

\* What a server that keeps running has counted is, to the byte, billed or
\* still counted as to be billed, over skipped and failed updates and saves of
\* mujson_mgr.
THEOREM NothingUnbilled == Spec => []BilledInFull
<1>1. Inv => BilledInFull
  BY DEF Inv, CleanInv, Clean, BilledInFull
<1> QED
  BY Invariant, <1>1, PTL

\* clear_cache is never called for a port in force_update_transfer, where its
\* del would raise.
THEOREM ClearCacheSafe == Spec => []ClearCacheNeverFails
<1>1. Inv => ClearCacheNeverFails
  BY DEF Inv, TypeOK, ThreadTypes, CountersInv, ClearCacheNeverFails, Dropped
<1> QED
  BY Invariant, <1>1, PTL

\* Between two rounds of del_server_out_of_bound_safe only users with a row,
\* enabled and within their quota have a server, with the row's configuration.
THEOREM ServersEntitled == Spec => []ServersMatchRows
<1>1. Inv => ServersMatchRows
  BY DEF Inv, ServersInv, ServersMatchRows, Allowed
<1> QED
  BY Invariant, <1>1, PTL
=============================================================================
