------------------------------ MODULE Transfer ------------------------------
(***************************************************************************)
(* db_transfer.py (TransferBase and its three back ends) and the transfer  *)
(* side of server_pool.py: how the traffic of the users gets into the      *)
(* database, and how the rows of the database start and stop the servers.  *)
(*                                                                         *)
(* The database thread repeats: push the traffic, pull the rows, stop and  *)
(* start servers, wait, start again the servers whose configuration has    *)
(* changed.  Traffic (the loop thread) and changes of the database (the    *)
(* administrator) happen in between.  Uploads and downloads are added up.  *)
(* The JSON file has no lock: the server and mujson_mgr each read all of   *)
(* it and later write all of it.                                           *)
(*                                                                         *)
(* A user is named by the port of his row.  He is served by a server of    *)
(* his own on that port, and by the multi-user server, which counts the    *)
(* traffic of each user under his port.  A server is the relays of a port  *)
(* in the pools (TCP and UDP, IPv4 and IPv6): it is up when one of its TCP *)
(* relays is there (server_is_run), and its count is their sum.            *)
(*                                                                         *)
(*   db       the table of users: is there a row, u + d, enable, and a     *)
(*            version that stands for the rest of the configuration        *)
(*   own      the user's own server: running, traffic, configuration       *)
(*   mu       the multi-user server, with muCount[p] for each user and the *)
(*            set of users it lets in; muConfig is its wanted version      *)
(*   lastGet, lastUpd, force, pass, pullOk                                 *)
(*            last_get_transfer, last_update_transfer,                     *)
(*            force_update_transfer, user_pass, pull_ok                    *)
(*   pc, curr, copy, rows, lastRows, restart, restartMu                    *)
(*            where the database thread is, its curr_transfer, the rows    *)
(*            MuJsonTransfer has read to add to, the rows it has pulled,   *)
(*            the ports of last_rows, and new_servers                      *)
(*   tool     mujson_mgr: is it between load and save, and its rows        *)
(*   config   the back end, and additional_ports_only                      *)
(*                                                                         *)
(* History: used is the traffic the servers have credited to each port,    *)
(* total what was added to its row (an update can also take something off: *)
(* that is not counted); clean are the ports which nothing but the user's  *)
(* own server has counted for, while this server, the row and the process  *)
(* have been there all the time and mujson_mgr has not written an amount   *)
(* other than the one in the file; forgot are those of which an entry of   *)
(* last_update_transfer was dropped while the multi-user server kept its   *)
(* count; doubt says that an update was done and reported as failed;       *)
(* changes counts what the administrator did.                              *)
(***************************************************************************)
EXTENDS Integers

CONSTANTS Ports,
          Quiet,             \* ports of disabled users, whose rows stay
          BackEnds,          \* of "v2" (DbTransfer), "v3" (Dbv3Transfer),
                             \* "json" (MuJsonTransfer)
          HasMu,             \* is there a multi-user server?
          Quota,             \* transfer_enable of every row
          MinUpdate, Step,   \* less than MinUpdate - pass * Step waits
          MaxUsed, MaxChanges  \* bounds: traffic per user, changes in all

ASSUME TransferAssumption ==
  /\ Quiet \subseteq Ports
  /\ BackEnds \subseteq {"v2", "v3", "json"} /\ HasMu \in BOOLEAN
  /\ {Quota, MinUpdate, Step, MaxUsed, MaxChanges} \subseteq Nat
  /\ Step > 0

VARIABLES db, own, mu, muConfig, muCount, lastGet, lastUpd, force, pass,
          pullOk, pc, curr, copy, rows, lastRows, restart, restartMu, config,
          tool, used, total, clean, forgot, doubt, changes

pool == <<own, mu, muCount>>
tables == <<lastGet, lastUpd, force, pass, pullOk>>
pushing == <<curr, copy>>
thread == <<pc, curr, copy, rows, lastRows, restart, restartMu>>
world == <<db, tool, muConfig, changes>>
history == <<used, total, clean, forgot, doubt>>
vars == <<db, own, mu, muConfig, muCount, lastGet, lastUpd, force, pass,
          pullOk, pc, curr, copy, rows, lastRows, restart, restartMu, config,
          tool, used, total, clean, forgot, doubt, changes>>

Absent == -1                 \* no entry in a dictionary of amounts
Amount(x) == IF x = Absent THEN 0 ELSE x

NoRow == [row |-> FALSE, billed |-> 0, enabled |-> FALSE, version |-> 0]
NewRow == [row |-> TRUE, billed |-> 0, enabled |-> TRUE, version |-> 0]
NoRows == [p \in Ports |-> NoRow]

\* What cb_del_server leaves of a server, however many relays it had.
Stopped == [up |-> FALSE, count |-> 0, version |-> 0]

-----------------------------------------------------------------------------
\* What the process starts with.
NoServers == [p \in Ports |-> Stopped]
NoMu == [up |-> FALSE, version |-> 0, users |-> {}]
Zero == [p \in Ports |-> 0]
Empty == [p \in Ports |-> Absent]
Idle == [open |-> FALSE, rows |-> NoRows]

Init ==
  /\ own = NoServers /\ mu = NoMu /\ muCount = Zero
  /\ lastGet = Empty /\ lastUpd = Empty /\ force = {} /\ pass = Zero
  /\ pullOk = FALSE /\ pc = "push" /\ curr = Empty /\ copy = NoRows
  /\ rows = NoRows /\ lastRows = {} /\ restart = {} /\ restartMu = FALSE
  /\ db \in [Ports -> {NoRow, NewRow, [NewRow EXCEPT !.enabled = FALSE]}]
  /\ \A p \in Ports : db[p].row /\ ~db[p].enabled <=> p \in Quiet
  /\ tool = Idle /\ muConfig = 0
  /\ config \in [backEnd : BackEnds, muOnly : BOOLEAN]
  /\ used = Zero /\ total = Zero
  /\ clean = Ports
  /\ forgot = {} /\ doubt = FALSE /\ changes = 0

\* get_servers_transfer: the servers that run and the users with a count.
Current(p) ==
  IF ~own[p].up /\ muCount[p] = 0 THEN Absent ELSE own[p].count + muCount[p]

\* Mutant: what was billed before is not taken off.
IncrementAll(p) == IF p \in force THEN lastGet[p] - lastUpd[p]
                   ELSE Amount(curr[p])

\* dt_transfer: what is to be billed to p, and whether p has an entry.  For a
\* server that was stopped it is what the last round had read and not billed.
Increment(p) ==
  IF p \in force THEN lastGet[p] - lastUpd[p]
  ELSE Amount(curr[p]) - Amount(lastUpd[p])
HasIncrement(p) ==
  IF p \in force THEN Absent \notin {lastGet[p], lastUpd[p]}
  ELSE Increment(p) > 0

\* update_all_user leaves out what is too little to be worth an update, the
\* less likely the more often it did so before.
Skipped(p) ==
  /\ config.backEnd # "json"
  /\ Increment(p) < MinUpdate - pass[p] * Step
  /\ config.backEnd = "v2" => p \notin force

Sent == {p \in Ports : HasIncrement(p) /\ ~Skipped(p)}

\* Mutant: the skipped rounds are not counted.
PassedUncounted == [p \in Ports |-> IF p \in Sent THEN 0 ELSE pass[p]]

\* user_pass: how often each user was left out.
Passed ==
  [p \in Ports |-> IF p \in Sent THEN 0
                   ELSE IF HasIncrement(p) THEN pass[p] + 1 ELSE pass[p]]

\* UPDATE user SET u = u + ..., d = d + ...; MuJsonTransfer writes the rows it
\* has read with the amounts added, unless there are none.
Bill ==
  LET json == config.backEnd = "json"
      base == IF json /\ \E p \in Ports : copy[p].row THEN copy ELSE db
      billed == {p \in Sent : base[p].row}
  IN /\ db' = [p \in Ports |-> IF p \in billed
                               THEN [base[p] EXCEPT
                                       !.billed = @ + Increment(p)]
                               ELSE base[p]]
     /\ total' = [p \in Ports |-> IF p \in billed /\ Increment(p) > 0
                                  THEN total[p] + Increment(p) ELSE total[p]]

\* Mutant: the set of stopped servers is not emptied.
RecordKeepingForce(reported) ==
  /\ lastUpd' = [p \in Ports |->
                   IF p \in force THEN Absent
                   ELSE IF p \in reported
                        THEN Amount(lastUpd[p]) + Increment(p)
                        ELSE lastUpd[p]]
  /\ lastGet' = [p \in Ports |-> IF p \in force THEN Absent ELSE curr[p]]
  /\ UNCHANGED force
\* Mutant: what was left out counts as billed.
RecordCurrent(reported) ==
  /\ lastUpd' = [p \in Ports |-> IF p \in force THEN Absent ELSE curr[p]]
  /\ lastGet' = [p \in Ports |-> IF p \in force THEN Absent ELSE curr[p]]
  /\ force' = {}

\* The end of push_db_all_user, with what update_all_user reports as done.
Record(reported) ==
  /\ lastUpd' = [p \in Ports |->
                   IF p \in force THEN Absent
                   ELSE IF p \in reported
                        THEN Amount(lastUpd[p]) + Increment(p)
                        ELSE lastUpd[p]]
  /\ lastGet' = [p \in Ports |-> IF p \in force THEN Absent ELSE curr[p]]
  /\ force' = {}

\* The entries of S are dropped (history).
Forgetting(S) ==
  forgot' = forgot \cup {p \in S : muCount[p] > 0 /\ lastUpd[p] # Absent}

AfterPush ==
  /\ pc = "update" /\ pc' = "pull"
  /\ curr' = Empty /\ copy' = NoRows
  /\ Forgetting(force)
  /\ UNCHANGED <<pullOk, rows, lastRows, restart, restartMu, config, used,
                 tool, muConfig, changes, pool>>

\* push_db_all_user before anything was pulled.
PushNothing ==
  /\ pc = "push" /\ ~pullOk
  /\ pc' = "pull"
  /\ UNCHANGED <<pushing, rows, lastRows, restart, restartMu, config, pool,
                 tables, world, history>>

\* push_db_all_user takes the counts; MuJsonTransfer reads the file.
PushStart ==
  /\ pc = "push" /\ pullOk /\ pc' = "update"
  /\ curr' = [p \in Ports |-> Current(p)]
  /\ copy' = IF config.backEnd = "json" THEN db ELSE NoRows
  /\ UNCHANGED <<rows, lastRows, restart, restartMu, config, pool, tables,
                 world, history>>

PushDone ==
  /\ AfterPush
  /\ Bill /\ pass' = Passed /\ Record(Sent)
  /\ UNCHANGED <<clean, doubt>>

\* The statement fails.  DbTransfer reports that nothing was updated,
\* Dbv3Transfer logs the error and reports what it sent.
PushFailed ==
  /\ config.backEnd # "json" /\ Sent # {}
  /\ AfterPush
  /\ pass' = Passed /\ Record(IF config.backEnd = "v2" THEN {} ELSE Sent)
  /\ clean' = IF config.backEnd = "v2" THEN clean ELSE {}
  /\ UNCHANGED <<db, total, doubt>>

\* DbTransfer: the statement is carried out, but the commit raises.  (Bound:
\* once, as the same amount is billed each time.)
PushInDoubt ==
  /\ ~doubt /\ config.backEnd = "v2" /\ Sent # {}
  /\ AfterPush
  /\ Bill /\ pass' = Passed /\ Record({})
  /\ doubt' = TRUE /\ clean' = {}

\* No connection, or no file: the exception ends the round.
PushRaises ==
  /\ pc = "update" /\ pc' = "push"
  /\ curr' = Empty /\ copy' = NoRows
  /\ config.backEnd = "v2" => Sent # {}
  /\ pass' = IF config.backEnd = "v2" THEN Passed ELSE pass
  /\ UNCHANGED <<lastGet, lastUpd, force, pullOk, rows, lastRows, restart,
                 restartMu, config, pool, world, history>>

-----------------------------------------------------------------------------
\* pull_db_all_user
PullDone ==
  /\ pc = "pull" /\ pc' = "stop"
  /\ rows' = db
  /\ pullOk' = (pullOk \/ \E p \in Ports : db[p].row)
  /\ UNCHANGED <<lastGet, lastUpd, force, pass, pushing, lastRows, restart,
                 restartMu, config, pool, world, history>>

\* It fails: Dbv3Transfer logs the error and goes on with no rows; in the
\* others the exception ends the round.
PullFailed ==
  /\ pc = "pull"
  /\ IF config.backEnd = "v3"
     THEN rows' = NoRows /\ pc' = "stop"
     ELSE pc' = "push" /\ UNCHANGED rows
  /\ UNCHANGED <<pushing, lastRows, restart, restartMu, config, pool, tables,
                 world, history>>

Allowed(p) == rows[p].row /\ rows[p].enabled /\ rows[p].billed < Quota

\* Mutant: the quota is only looked at when a server is started.
ToStopDisabled ==
  {p \in Ports : /\ rows[p].row /\ own[p].up
                 /\ \/ config.muOnly \/ ~rows[p].enabled
                    \/ own[p].version # rows[p].version}

\* Servers whose user may not use them (any longer), or not with this
\* configuration.
ToStop ==
  {p \in Ports : /\ rows[p].row /\ own[p].up
                 /\ \/ config.muOnly \/ ~Allowed(p)
                    \/ own[p].version # rows[p].version}
ToRestart ==
  {p \in ToStop : ~config.muOnly /\ Allowed(p)}
ToStart ==
  {p \in Ports : ~own[p].up /\ ~config.muOnly /\ Allowed(p)}
\* Ports that had a row in the round before.
Dropped == {p \in lastRows : ~rows[p].row}

\* The additional port of the multi-user server is in the rows unless there
\* are none.
MuWanted == HasMu /\ \E p \in Ports : rows[p].row
MuKnown == HasMu /\ lastRows # {}
MuStops == mu.up /\ IF MuWanted THEN mu.version # muConfig ELSE MuKnown
MuStarts == ~mu.up /\ MuWanted

\* Mutant: the counter of a new server is not set.
StartedUnset(p) == [up |-> TRUE, count |-> Absent, version |-> rows[p].version]

\* new_server, when a TCP relay of one family can be started; that the UDP
\* relay or the other family failed is never looked at again.
Started(p) == [up |-> TRUE, count |-> 0, version |-> rows[p].version]

\* del_server_out_of_bound_safe up to the wait: cb_del_server, new_server,
\* clear_cache.  A port may still be in use (failed): no relay is started.
StopServers ==
  /\ pc = "stop" /\ pc' = "start"
  /\ \E failed \in SUBSET ToStart :
       own' = [p \in Ports |->
                 IF p \in ToStop \cup Dropped THEN Stopped
                 ELSE IF p \in ToStart \ failed THEN Started(p) ELSE own[p]]
  /\ restart' = ToRestart /\ restartMu' = (MuStops /\ MuWanted)
  /\ mu' \in IF MuStops
             THEN {[up |-> FALSE, version |-> mu.version, users |-> {}]}
             ELSE IF MuStarts
             THEN {[up |-> TRUE, version |-> muConfig, users |-> {}], mu}
             ELSE {mu}
  /\ muCount' = IF MuStops THEN [p \in Ports |-> 0] ELSE muCount
  /\ force' = force \cup ToStop
  /\ lastGet' = [p \in Ports |-> IF p \in Dropped THEN Absent ELSE lastGet[p]]
  /\ lastUpd' = [p \in Ports |-> IF p \in Dropped THEN Absent ELSE lastUpd[p]]
  /\ clean' = clean \ (ToStop \cup Dropped)
  /\ Forgetting(IF MuStops THEN {} ELSE Dropped)
  /\ UNCHANGED <<pass, pullOk, pushing, rows, lastRows, config, used, total,
                 doubt, world>>

\* After the wait: the servers with a new configuration, and the users of the
\* multi-user server (which need not be stopped for that).
StartServers ==
  /\ pc = "start" /\ pc' = "push"
  /\ \E failed \in SUBSET restart :
       own' = [p \in Ports |->
                 IF p \in restart \ failed THEN Started(p) ELSE own[p]]
  /\ LET users == {p \in Ports : Allowed(p)}
         again == [up |-> TRUE, version |-> muConfig, users |-> users]
     IN mu' \in IF restartMu THEN {again, mu}
                ELSE IF mu.up /\ MuWanted THEN {[mu EXCEPT !.users = users]}
                ELSE {mu}
  /\ lastRows' = {p \in Ports : rows[p].row}
  /\ restart' = {} /\ restartMu' = FALSE
  /\ UNCHANGED <<pushing, rows, config, muCount, tables, world, history>>

-----------------------------------------------------------------------------
\* Traffic through the user's own server, and through the multi-user server.
UseOwn(p) ==
  /\ own[p].up /\ used[p] < MaxUsed
  /\ own' = [own EXCEPT ![p].count = @ + 1]
  /\ used' = [used EXCEPT ![p] = @ + 1]
  /\ UNCHANGED <<config, mu, muCount, tables, thread, world, total, clean,
                 forgot, doubt>>

UseMu(p) ==
  /\ mu.up /\ p \in mu.users /\ used[p] < MaxUsed
  /\ muCount' = [muCount EXCEPT ![p] = @ + 1]
  /\ used' = [used EXCEPT ![p] = @ + 1]
  /\ clean' = clean \ {p}
  /\ UNCHANGED <<config, own, mu, tables, thread, world, total, forgot, doubt>>

\* The administrator adds, removes, disables, enables or changes a row with
\* a statement of SQL.
Change(p) ==
  /\ config.backEnd # "json"
  /\ changes < MaxChanges /\ changes' = changes + 1
  /\ \/ /\ ~db[p].row
        /\ db' = [db EXCEPT ![p] = NewRow]
        /\ UNCHANGED clean
     \/ /\ db[p].row
        /\ db' = [db EXCEPT ![p] = NoRow]
        /\ clean' = clean \ {p}
     \/ /\ db[p].row
        /\ \/ db' = [db EXCEPT ![p].enabled = ~@]
           \/ db' = [db EXCEPT ![p].version = 1 - @]
        /\ UNCHANGED clean
  /\ UNCHANGED <<tool, muConfig, config, pool, tables, thread, used, total,
                 forgot, doubt>>

\* mujson_mgr: add (which ends without writing when there is a row), edit,
\* delete and clear_ud (which write the file as it was when there is none).
Add(p) == [db EXCEPT ![p] = NewRow]
Edit(p) == IF db[p].row THEN [db EXCEPT ![p].version = 1 - @] ELSE db
Delete(p) == [db EXCEPT ![p] = NoRow]
ClearUd(p) == [db EXCEPT ![p].billed = 0]
Loaded(new) == [open |-> TRUE, rows |-> new]

\* It loads the file and makes the change in its copy ...
ToolLoad(p) ==
  /\ config.backEnd = "json" /\ ~tool.open
  /\ changes < MaxChanges /\ changes' = changes + 1
  /\ \/ ~db[p].row /\ tool' = Loaded(Add(p))
     \/ \E new \in {Edit(p), Delete(p), ClearUd(p)} : tool' = Loaded(new)
  /\ UNCHANGED <<db, muConfig, config, pool, tables, thread, history>>

\* ... and saves the copy, whatever has been written since.
ToolSave ==
  /\ tool.open /\ tool' = Idle
  /\ db' = tool.rows
  /\ clean' = {p \in clean : /\ tool.rows[p].billed = db[p].billed
                             /\ db[p].row => tool.rows[p].row}
  /\ UNCHANGED <<muConfig, changes, config, pool, tables, thread, used, total,
                 forgot, doubt>>

ChangeMu ==
  /\ HasMu /\ changes < MaxChanges /\ changes' = changes + 1
  /\ muConfig' = 1 - muConfig
  /\ UNCHANGED <<db, tool, config, pool, tables, thread, history>>

\* The process ends, at any point, and is started again.
ProcessRestart ==
  /\ changes < MaxChanges /\ changes' = changes + 1
  /\ own' = NoServers /\ mu' = NoMu /\ muCount' = Zero
  /\ lastGet' = Empty /\ lastUpd' = Empty /\ force' = {} /\ pass' = Zero
  /\ pullOk' = FALSE /\ pc' = "push" /\ curr' = Empty /\ copy' = NoRows
  /\ rows' = NoRows /\ lastRows' = {} /\ restart' = {} /\ restartMu' = FALSE
  /\ clean' = {}
  /\ UNCHANGED <<db, tool, muConfig, config, used, total, forgot, doubt>>

Push ==
  \/ PushNothing \/ PushStart \/ PushDone \/ PushFailed \/ PushInDoubt
  \/ PushRaises

Next ==
  \/ Push \/ PullDone \/ PullFailed \/ StopServers \/ StartServers
  \/ \E p \in Ports \ Quiet : UseOwn(p) \/ UseMu(p) \/ Change(p) \/ ToolLoad(p)
  \/ ToolSave \/ ChangeMu \/ ProcessRestart

\* The database thread goes on; the database is there again and again, and
\* does not refuse forever the updates that concern one user.
Spec ==
  /\ Init /\ [][Next]_vars
  /\ WF_vars(PushNothing) /\ WF_vars(PushStart)
  /\ WF_vars(StopServers) /\ WF_vars(StartServers)
  /\ SF_vars(PullDone) /\ SF_vars(PushDone)
  /\ \A p \in Ports \ Quiet : SF_vars(PushDone /\ p \in Sent)

-----------------------------------------------------------------------------
RowType == [row : BOOLEAN, billed : Int, enabled : BOOLEAN, version : {0, 1}]

TableTypes ==
  /\ db \in [Ports -> RowType] /\ rows \in [Ports -> RowType]
  /\ copy \in [Ports -> RowType]
  /\ tool \in [open : BOOLEAN, rows : [Ports -> RowType]]
  /\ changes \in Nat

ServerTypes ==
  /\ own \in [Ports -> [up : BOOLEAN, count : Nat, version : {0, 1}]]
  /\ mu \in [up : BOOLEAN, version : {0, 1}, users : SUBSET Ports]
  /\ muConfig \in {0, 1} /\ muCount \in [Ports -> Nat]

AmountTypes ==
  /\ lastGet \in [Ports -> Nat \cup {Absent}]
  /\ lastUpd \in [Ports -> Nat \cup {Absent}]
  /\ curr \in [Ports -> Nat \cup {Absent}]
  /\ force \subseteq Ports /\ pass \in [Ports -> Nat]
  /\ used \in [Ports -> Nat] /\ total \in [Ports -> Nat]
  /\ clean \subseteq Ports /\ forgot \subseteq Ports

ThreadTypes ==
  /\ pc \in {"push", "update", "pull", "stop", "start"}
  /\ pullOk \in BOOLEAN /\ restartMu \in BOOLEAN /\ doubt \in BOOLEAN
  /\ lastRows \subseteq Ports /\ restart \subseteq Ports
  /\ config \in [backEnd : BackEnds, muOnly : BOOLEAN]

TypeOK == TableTypes /\ ServerTypes /\ AmountTypes /\ ThreadTypes

\* No user is charged for more than his traffic, through skipped and failed
\* updates, stopped and restarted servers, removed rows and restarts of the
\* process, unless an update was done and reported as failed, or the amount
\* billed was forgotten while the multi-user server kept its count.  His row
\* never shows more than was added to it, whichever of the server and
\* mujson_mgr overwrites what the other has written.
BilledAtMostUsed ==
  \A p \in Ports : /\ ~doubt /\ p \notin forgot => total[p] <= used[p]
                    /\ db[p].billed <= total[p]

\* The traffic of a server that keeps running is billed or still counted as
\* to be billed, to the byte: last_update_transfer is what the row has had
\* and shows, however many updates were skipped or failed and however
\* mujson_mgr was used next to it, unless it saved an older amount.
BilledInFull ==
  \A p \in clean : /\ db[p].billed = total[p]
                    /\ total[p] = Amount(lastUpd[p])
                    /\ used[p] = own[p].count

\* clear_cache deletes its port from force_update_transfer with
\* "del self.force_update_transfer[port]", which a set does not support: it
\* is never called for a port in that set.
ClearCacheNeverFails == pc = "stop" => Dropped \cap force = {}

\* At the end of every round only users with a row, enabled and within their
\* quota have a server, with the configuration of the row.
ServersMatchRows ==
  pc \in {"push", "update", "pull"} =>
    \A p \in Ports :
      own[p].up => /\ rows[p].row /\ rows[p].enabled
                   /\ rows[p].billed < Quota
                   /\ rows[p].version = own[p].version

\* Small amounts are put off, not forgotten: what a running server has
\* counted is billed in the end.
PendingIsBilled ==
  \A p \in Ports :
    (own[p].up /\ own[p].count > Amount(lastUpd[p]))
      ~> (~own[p].up \/ own[p].count <= Amount(lastUpd[p]))

\* "the increment between last time and this time": the comment in
\* push_db_all_user on what is billed.
NeverBilledTwice == \A p \in Ports : total[p] <= used[p]
=============================================================================
