-------------------------------- MODULE Startup --------------------------------
(***************************************************************************)
(* What servers write when they start, next to the requests of Access and  *)
(* to administrators who edit the same rows: initializeDefaults of the     *)
(* config, account, miner and buyback services in the order of             *)
(* src/src/apps/user-api/user-data-initializer.service.ts, onModuleInit of *)
(* the admin API, and createMiner, updateMiner, updateConfig and           *)
(* updateDividendRuleGroup of src/src/admin/admin.service.ts.              *)
(*                                                                         *)
(* A table is filled in one transaction under its advisory lock: look for  *)
(* the defaults by either unique column, insert those that are missing.    *)
(* Requests take no advisory lock, so a row may appear in between; then    *)
(* the insert violates a unique column and the server does not start.      *)
(***************************************************************************)
EXTENDS Access, Sequences

CONSTANTS
  Server,         \* instances of the user API and of the admin API
  Default,        \* [Table -> the default rows: primary key and unique column]
  MinerId, MinerName,   \* what administrators may call a miner
  InitUsername, InitPassword   \* ADMIN_USERNAME, ADMIN_PASSWORD

ASSUME StartupAssumption ==
  /\ Table = {"config", "rule", "account", "miner", "buyback"}
  /\ InitUsername \in Username /\ InitPassword \in Password
  /\ \A t \in Table : \A d, e \in Default[t] :
       d.id = e.id \/ d.name = e.name => d = e
  /\ InitRows = [t \in Table |-> InitRows[t]]
  /\ \A t \in Table : \A row, other \in InitRows[t] :
       row.id = other.id \/ row.name = other.name => row = other

VARIABLES
  server,     \* [Server -> how far it has started]
  edited      \* the rows, by table and key, that were changed since they were written

vars == <<accessVars, server, edited>>

Down == [pc |-> "down"]
Ready == [pc |-> "ready"]

Init == AccessInit /\ server = [s \in Server |-> Down] /\ edited = {}

Stage == <<"config", "account", "miner", "buyback">>
\* The tables of a stage; the dividend rules go with the configuration.
TablesOf(stage) == IF stage = "config" THEN {"config", "rule"} ELSE {stage}

Goto(s, state) == server' = [server EXCEPT ![s] = state]
-----------------------------------------------------------------------------
(***************************************************************************)
(* The user API.                                                           *)
(***************************************************************************)
Start(s) ==
  /\ server[s] = Down
  /\ Goto(s, [pc |-> "find", stage |-> 1])
  /\ UNCHANGED <<accessVars, edited>>

Found(t, d) == \E row \in rows[t] : Collides(row, d.id, d.name)
Missing(t) == {d \in Default[t] : ~Found(t, d)}

NoLock(stage) == TRUE
\* pg_advisory_xact_lock of the stage is free.
LockFree(stage) == \A s \in Server : ~(server[s].pc = "insert" /\ server[s].stage = stage)

FindExisting(s) ==
  /\ server[s].pc = "find" /\ server[s].stage < Len(Stage)
  /\ LockFree(server[s].stage)
  /\ Goto(s, [pc |-> "insert", stage |-> server[s].stage,
              missing |-> [t \in TablesOf(Stage[server[s].stage]) |-> Missing(t)]])
  /\ UNCHANGED <<accessVars, edited>>

RowsOf(missing) ==
  {[id |-> d.id, name |-> d.name, value |-> "default", by |-> "server"] : d \in missing}

Violates(s) ==
  \E t \in DOMAIN server[s].missing : \E d \in server[s].missing[t] : Found(t, d)

InsertMissing(s) ==
  /\ server[s].pc = "insert"
  /\ IF Violates(s)
     THEN Goto(s, Down) /\ UNCHANGED rows
     ELSE /\ rows' = [t \in Table |->
               IF t \in DOMAIN server[s].missing
               THEN rows[t] \cup RowsOf(server[s].missing[t]) ELSE rows[t]]
          /\ Goto(s, [pc |-> "find", stage |-> server[s].stage + 1])
  /\ UNCHANGED <<nonceVars, adminVars, call, calls, edited>>

\* The pool row is upserted; a row that is there keeps all but updatedAt.
UpsertPool(s) ==
  /\ server[s].pc = "find" /\ Stage[server[s].stage] = "buyback"
  /\ rows' = [rows EXCEPT !["buyback"] = @ \cup RowsOf(Missing("buyback"))]
  /\ Goto(s, Ready)
  /\ UNCHANGED <<nonceVars, adminVars, call, calls, edited>>

\* The process ends, whether it started or not; its transaction rolls back.
Stop(s) ==
  /\ server[s] # Down
  /\ Goto(s, Down)
  /\ UNCHANGED <<accessVars, edited>>
-----------------------------------------------------------------------------
(***************************************************************************)
(* The admin API: onModuleInit creates its account unless it is there.     *)
(***************************************************************************)
FindAdmin(s) ==
  /\ server[s] = Down
  /\ Goto(s, IF adminUser[InitUsername] = NoRow THEN [pc |-> "insertAdmin"] ELSE Ready)
  /\ UNCHANGED <<accessVars, edited>>

\* A unique violation means that another server was first.
InsertAdmin(s) ==
  /\ server[s].pc = "insertAdmin"
  /\ IF adminUser[InitUsername] # NoRow THEN UNCHANGED <<adminUser, hashes>>
     ELSE /\ hashes < MaxHash
          /\ hashes' = hashes + 1
          /\ adminUser' = [adminUser EXCEPT ![InitUsername] =
               [enabled |-> TRUE, hash |-> [password |-> InitPassword, salt |-> hashes + 1]]]
  /\ Goto(s, Ready)
  /\ UNCHANGED <<rows, nonceVars, token, call, calls, edited>>
-----------------------------------------------------------------------------
(***************************************************************************)
(* Administrators at work.                                                 *)
(***************************************************************************)
\* Updates of the configuration and of a group of rules change values of rows
\* that exist; trades and top-ups do the same to the pool row.
EditRow(t) ==
  /\ t \in {"config", "rule"} => \E u \in Username : Guarded(u)
  /\ \E row \in rows[t] :
       /\ rows' = [rows EXCEPT ![t] = (@ \ {row}) \cup
            {[id |-> row.id, name |-> row.name, value |-> "edited", by |-> row.by]}]
       /\ edited' = edited \cup {<<t, row.id>>}
  /\ UNCHANGED <<nonceVars, adminVars, call, calls, server>>

CreateMinerRead(r, id, name) ==
  /\ \E u \in Username : Guarded(u)
  /\ ~\E row \in rows["miner"] : Collides(row, id, name)
  /\ Serve(r, [pc |-> "saveMiner",
               entity |-> [id |-> id, name |-> name, value |-> "edited", by |-> "request"]])
  /\ UNCHANGED <<rows, nonceVars, adminVars, server, edited>>

\* The name is taken only if no other miner has it.
UpdateMinerRead(r, id, name) ==
  /\ \E u \in Username : Guarded(u)
  /\ \E row \in rows["miner"] : row.id = id
  /\ ~\E row \in rows["miner"] : row.id # id /\ row.name = name
  /\ Serve(r, [pc |-> "saveMiner",
               entity |-> [id |-> id, name |-> name, value |-> "edited", by |-> "request"]])
  /\ UNCHANGED <<rows, nonceVars, adminVars, server, edited>>

\* Repository.save: an UPDATE if the id is there by now, else an INSERT.
SaveMiner(r) ==
  LET entity == call[r].entity
  IN /\ call[r].pc = "saveMiner"
     /\ ~\E row \in rows["miner"] : row.id # entity.id /\ row.name = entity.name
     /\ rows' = [rows EXCEPT !["miner"] = {row \in @ : row.id # entity.id} \cup {entity}]
     /\ call' = [call EXCEPT ![r] = Done]
     /\ UNCHANGED <<nonceVars, adminVars, calls, server, edited>>
-----------------------------------------------------------------------------
Starting(s) ==
  \/ Start(s) \/ FindExisting(s) \/ InsertMissing(s) \/ UpsertPool(s) \/ Stop(s)
  \/ FindAdmin(s) \/ InsertAdmin(s)

AdminWork ==
  \/ \E t \in {"config", "rule", "buyback"} : EditRow(t)
  \/ \E r \in Request :
       \/ \E id \in MinerId, name \in MinerName :
            CreateMinerRead(r, id, name) \/ UpdateMinerRead(r, id, name)
       \/ SaveMiner(r)

Next ==
  \/ AccessNext /\ UNCHANGED <<server, edited>>
  \/ \E s \in Server : Starting(s)
  \/ AdminWork

Spec == Init /\ [][Next]_vars
-----------------------------------------------------------------------------
(***************************************************************************)
(* Properties.                                                             *)
(***************************************************************************)
\* What keeps a server from starting is never a row another server wrote.
ServersDoNotCollide ==
  \A s \in Server : server[s].pc = "insert" =>
    \A t \in DOMAIN server[s].missing : \A d \in server[s].missing[t] :
      \A row \in rows[t] : Collides(row, d.id, d.name) => row.by = "request"

\* A server past a stage: each default of it is there, or somebody else was
\* given its unique column first (a miner may have been renamed since).
Past(s, i) == server[s].pc \in {"find", "insert"} /\ server[s].stage > i

DefaultsThere ==
  \A s \in Server, i \in 1..Len(Stage) : Past(s, i) =>
    \A t \in TablesOf(Stage[i]) : \A d \in Default[t] :
      \/ \E row \in rows[t] : Collides(row, d.id, d.name)
      \/ t = "miner" /\ \E row \in rows[t] : row.by = "request"

\* No key and no unique value is there twice.
Unique ==
  \A t \in Table : \A row, other \in rows[t] :
    Collides(row, other.id, other.name) => row = other

\* What administrators and trades changed is not set back by a start.
EditsSurvive ==
  \A t \in {"config", "rule", "buyback"} : \A row \in rows[t] :
    <<t, row.id>> \in edited => row.value = "edited"

\* Any number of servers may start, stop and start again at once, next to each
\* other and to the requests: they complete the defaults, keep what is there and
\* do not stand in each other's way.
StartsAreSafe == ServersDoNotCollide /\ DefaultsThere /\ Unique /\ EditsSurvive
=============================================================================
