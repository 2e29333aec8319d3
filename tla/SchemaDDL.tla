----------------------------- MODULE SchemaDDL -----------------------------
(***************************************************************************)
(* CREATE, DROP and CREATE ... AS SELECT of schema_manager.ts and of the   *)
(* handlers in front of it, for databases whose tables are memory tables,  *)
(* together with the writes and transactions that use these tables.        *)
(*                                                                         *)
(* A statement runs synchronously inside query() to its first await.  The  *)
(* memory engine has nothing to wait for, so what follows an await is a    *)
(* microtask: jobs is the queue of those, first in first out.  The SELECT  *)
(* of a CREATE ... AS SELECT may wait for the network and ends at any time.*)
(*                                                                         *)
(* A row is the number of the statement that wrote it and gen is the       *)
(* number of the CREATE TABLE that made a table; numbers only grow.        *)
(***************************************************************************)
EXTENDS Naturals, Sequences, FiniteSets

CONSTANTS
  Session,
  Database,    \* names of databases, in lower case
  BuiltIn,     \* those of them that are _dynamodb or information_schema
  Name,        \* table names as they are spelled in statements
  Lower,       \* toLowerCase() of these names
  Client,      \* what clients may do in a behaviour: records of the databases and the names
               \* that they use, whether they send DROP DATABASE, and BEGIN and COMMIT, and
               \* a bound on their statements
  MaxStmt      \* the largest of these bounds

ASSUME ConstantsAssumption ==
  /\ BuiltIn \subseteq Database
  /\ Lower \in [Name -> Name]
  /\ \A n \in Name : Lower[Lower[n]] = Lower[n]
  /\ MaxStmt \in Nat
  /\ Client \subseteq [databases : SUBSET Database, names : SUBSET Name, drops : BOOLEAN,
                       begins : BOOLEAN, stmts : 0..MaxStmt]

VARIABLES
  client,      \* the clients of this behaviour
  schemaMap,   \* g_schemaMap: database to the object that CREATE DATABASE made
  tables,      \* the tables of these objects, dropped ones included
  tableMap,    \* g_tableMap of the memory engine
  temp,        \* _tempTableMap of each session
  tx,          \* _transaction of each session, with the memory engine's TxMap
  jobs,        \* sessions whose statement continues in a microtask, in order
  stmt,        \* the statement of each session: where it is, what it remembers
  clock,       \* statements so far
  reply        \* how each session's last statement ended

vars == <<client, schemaMap, tables, tableMap, temp, tx, jobs, stmt, clock, reply>>

Id == 1..MaxStmt
Key == Database \X Name
Maps(f, D, R) == DOMAIN f \subseteq D /\ \A x \in DOMAIN f : f[x] \in R
Data == [gen : Id, rows : SUBSET Id]
Entry == [table : Name, gen : Id]
Idle == [at |-> "idle", id |-> 0, d |-> "", n |-> "", sch |-> 0, temp |-> FALSE, as |-> FALSE]
Empty == [x \in {} |-> x]
NoTx == [open |-> FALSE, auto |-> FALSE, data |-> Empty]

\* The types of catalog, storage, sessions and statements.
TypeOK ==
  /\ Maps(schemaMap, Database, DOMAIN tables) /\ DOMAIN tables \subseteq Id
  /\ \A i \in DOMAIN tables : Maps(tables[i], Name, Entry)
  /\ Maps(tableMap, Key, Data)
  /\ \A s \in Session : Maps(temp[s], Key, Data) /\ Maps(tx[s].data, Key, SUBSET Id)
  /\ \A i \in DOMAIN jobs : stmt[jobs[i]].at \notin {"idle", "selecting"}
  /\ \A s \in Session : stmt[s].at \in
       {"idle", "selecting", "creating", "inserted", "dropping", "dropping table of db",
        "installing", "clearing"}
  /\ clock \in 0..MaxStmt
  /\ reply \in [Session -> {"ok", "error"}]

Init ==
  /\ client \in Client
  /\ schemaMap = Empty /\ tables = Empty
  /\ tableMap = Empty
  /\ temp = [s \in Session |-> Empty]
  /\ tx = [s \in Session |-> NoTx]
  /\ jobs = <<>>
  /\ stmt = [s \in Session |-> Idle]
  /\ clock = 0
  /\ reply = [s \in Session |-> "ok"]

-----------------------------------------------------------------------------
With(f, k, v) == [j \in DOMAIN f \cup {k} |-> IF j = k THEN v ELSE f[j]]
Without(f, k) == [j \in DOMAIN f \ {k} |-> f[j]]

LcKey(d, n) == <<d, Lower[n]>>
Listed(d, n) == d \in DOMAIN schemaMap /\ Lower[n] \in DOMAIN tables[schemaMap[d]]

\* getEngine gives the memory engine; otherwise an engine whose functions all throw
HasEngine(s, d, n) == LcKey(d, n) \in DOMAIN temp[s] \/ Listed(d, n)

\* Storage.getTable finds the table, under the spelling of the statement
Stored(s, d, n) == <<d, n>> \in DOMAIN temp[s] \cup DOMAIN tableMap

View(s, d, n) ==
  IF <<d, n>> \in DOMAIN tx[s].data THEN tx[s].data[<<d, n>>]
  ELSE IF <<d, n>> \in DOMAIN temp[s] THEN temp[s][<<d, n>>].rows
  ELSE tableMap[<<d, n>>].rows

\* a client calls query(); the statement gets the next number
Call(s) == stmt[s].at = "idle" /\ clock < client.stmts /\ clock' = clock + 1

Answer(s, how) ==
  /\ reply' = [reply EXCEPT ![s] = how]
  /\ stmt' = [stmt EXCEPT ![s] = Idle]

\* the statement goes on in a microtask behind those that wait already
Await(s, rest, rec) ==
  /\ jobs' = Append(rest, s)
  /\ stmt' = [stmt EXCEPT ![s] = rec]
  /\ UNCHANGED reply

\* the statement whose turn it is
Turn(s, at) == jobs # <<>> /\ Head(jobs) = s /\ stmt[s].at = at

-----------------------------------------------------------------------------
(* Databases *)

CreateDatabase(s, d) ==
  /\ Call(s)
  /\ IF d \in BuiltIn \cup DOMAIN schemaMap
     THEN Answer(s, "error") /\ UNCHANGED <<schemaMap, tables>>
     ELSE /\ schemaMap' = With(schemaMap, d, clock')
          /\ tables' = With(tables, clock', Empty)
          /\ Answer(s, "ok")
  /\ UNCHANGED <<tableMap, temp, tx, jobs>>

\* mutant: only temporary tables are dropped by the engine
EngineDropTempOnly(s, d, n) ==
  /\ temp' = [temp EXCEPT ![s] = Without(@, <<d, n>>)]
  /\ UNCHANGED tableMap

\* dropTable of the memory engine: the session's own table first
EngineDrop(s, d, n) ==
  IF <<d, n>> \in DOMAIN temp[s]
  THEN temp' = [temp EXCEPT ![s] = Without(@, <<d, n>>)] /\ UNCHANGED tableMap
  ELSE tableMap' = Without(tableMap, <<d, n>>) /\ UNCHANGED temp

\* g_schemaMap.delete(database_lc) after the loop
EndDropDatabase(s, d, rest) ==
  /\ schemaMap' = Without(schemaMap, d)
  /\ Answer(s, "ok")
  /\ jobs' = rest

\* one turn of the loop over the tables of the object sch that was looked up at the
\* start, rest being left of the queue: drop the next one, or end
DropNext(s, id, d, sch, left, rest) ==
  IF left = Empty
  THEN EndDropDatabase(s, d, rest) /\ UNCHANGED <<tableMap, temp>>
  ELSE \E lc \in DOMAIN left :
    /\ UNCHANGED schemaMap
    /\ IF HasEngine(s, d, lc)
       THEN /\ EngineDrop(s, d, left[lc].table)
            /\ Await(s, rest, [Idle EXCEPT !.at = "dropping table of db", !.id = id,
                                           !.d = d, !.n = lc, !.sch = sch])
       ELSE /\ Answer(s, "error")
            /\ jobs' = rest
            /\ UNCHANGED <<tableMap, temp>>

\* dropDatabase: the temporary tables of this session go first
DropDatabase(s, d) ==
  /\ client.drops
  /\ Call(s)
  /\ IF d \in BuiltIn \/ d \notin DOMAIN schemaMap
     THEN Answer(s, "error") /\ UNCHANGED <<schemaMap, tableMap, temp, jobs>>
     ELSE LET kept == [temp EXCEPT ![s] = [k \in {j \in DOMAIN @ : j[1] # d} |-> @[k]]]
              all == tables[schemaMap[d]]
          IN \/ /\ all = Empty
                /\ EndDropDatabase(s, d, jobs)
                /\ temp' = kept
                /\ UNCHANGED tableMap
             \/ \E lc \in DOMAIN all :
                /\ temp' = kept
                /\ tableMap' = Without(tableMap, <<d, all[lc].table>>)
                /\ Await(s, jobs, [Idle EXCEPT !.at = "dropping table of db", !.id = clock',
                                               !.d = d, !.n = lc, !.sch = schemaMap[d]])
                /\ UNCHANGED schemaMap
  /\ UNCHANGED <<tables, tx>>

DroppedOfDatabase(s) ==
  LET me == stmt[s]
      left == Without(tables[me.sch], me.n)
  IN /\ Turn(s, "dropping table of db")
     /\ tables' = [tables EXCEPT ![me.sch] = left]
     /\ DropNext(s, me.id, me.d, me.sch, left, Tail(jobs))
     /\ UNCHANGED <<tx, clock>>

-----------------------------------------------------------------------------
(* Tables *)

\* createTable: the checks, then the memory engine, which saves the table under the
\* spelling of the statement, then an await.  pk: the table has a primary key.
Create(s, me, pk, rest) ==
  LET key == <<me.d, me.n>>
      new == [gen |-> me.id, rows |-> {}]
  IN \/ /\ \/ me.d \notin BuiltIn \cup DOMAIN schemaMap
           \/ HasEngine(s, me.d, me.n)
           \/ me.d \in BuiltIn /\ ~me.temp
           \/ ~pk
        /\ Answer(s, "error")
        /\ jobs' = rest
        /\ UNCHANGED <<temp, tableMap>>
     \/ /\ me.d \in BuiltIn \cup DOMAIN schemaMap
        /\ ~HasEngine(s, me.d, me.n)
        /\ me.d \in BuiltIn => me.temp
        /\ pk
        /\ IF me.temp
           THEN temp' = [temp EXCEPT ![s] = With(@, key, new)] /\ UNCHANGED tableMap
           ELSE tableMap' = With(tableMap, key, new) /\ UNCHANGED temp
        /\ Await(s, rest, [me EXCEPT !.at = "creating",
             !.sch = IF me.d \in DOMAIN schemaMap THEN schemaMap[me.d] ELSE 0])

CreateTable(s, d, n, is_temp, pk) ==
  /\ Call(s)
  /\ Create(s, [Idle EXCEPT !.id = clock', !.d = d, !.n = n, !.temp = is_temp], pk, jobs)
  /\ UNCHANGED <<schemaMap, tables, tx>>

\* CREATE ... AS SELECT awaits its rows before anything else
CreateTableAs(s, d, n, is_temp) ==
  /\ Call(s)
  /\ stmt' = [stmt EXCEPT ![s] = [at |-> "selecting", id |-> clock', d |-> d, n |-> n,
                                   sch |-> 0, temp |-> is_temp, as |-> TRUE]]
  /\ UNCHANGED <<schemaMap, tables, tableMap, temp, tx, jobs, reply>>

\* the rows are there (or two of them have one key, and the statement fails)
SelectedAs(s, fine) ==
  /\ stmt[s].at = "selecting"
  /\ Create(s, stmt[s], fine, jobs)
  /\ UNCHANGED <<schemaMap, tables, tx, clock>>

\* mutant: the entry is not written when somebody else's is there
ListAfterIfNew(me) ==
  IF me.temp \/ Lower[me.n] \in DOMAIN tables[me.sch] THEN UNCHANGED tables
  ELSE tables' = [tables EXCEPT ![me.sch] =
         With(@, Lower[me.n], [table |-> me.n, gen |-> me.id])]

\* schema.tables.set after the await, into the object looked up before it
ListAfter(me) ==
  IF me.temp THEN UNCHANGED tables
  ELSE tables' = [tables EXCEPT ![me.sch] =
         With(@, Lower[me.n], [table |-> me.n, gen |-> me.id])]

\* the statement without AS SELECT ends behind its await
Created(s) ==
  /\ Turn(s, "creating") /\ ~stmt[s].as
  /\ ListAfter(stmt[s])
  /\ Answer(s, "ok")
  /\ jobs' = Tail(jobs)
  /\ UNCHANGED <<schemaMap, tableMap, temp, tx, clock>>

\* txSaveData: into the transaction the session has now, nowhere if it has none
TxSave(s, d, n, rows) ==
  tx' = IF tx[s].open THEN [tx EXCEPT ![s].data = With(@, <<d, n>>, rows)] ELSE tx

\* insertRowList right after createTable, outside TransactionManager.run
CreatedAs(s) == \E me \in {stmt[s]} :
  /\ Turn(s, "creating") /\ me.as
  /\ ListAfter(me)
  /\ jobs' = Tail(jobs)
  /\ UNCHANGED <<schemaMap, tableMap, temp, clock>>
  /\ IF HasEngine(s, me.d, me.n)' /\ Stored(s, me.d, me.n)
     THEN /\ TxSave(s, me.d, me.n, View(s, me.d, me.n) \cup {me.id})
          /\ Answer(s, "ok")
     ELSE Answer(s, "error") /\ UNCHANGED tx

\* mutant: the entry goes first, the table after the await
DropTableListFirst(s, d, n) ==
  /\ Call(s)
  /\ IF LcKey(d, n) \notin DOMAIN temp[s] /\ Listed(d, n)
     THEN /\ tables' = [tables EXCEPT ![schemaMap[d]] = Without(@, Lower[n])]
          /\ Await(s, jobs, [Idle EXCEPT !.at = "dropping", !.id = clock', !.d = d, !.n = n,
                                         !.sch = schemaMap[d]])
     ELSE UNCHANGED <<tables, jobs>> /\ Answer(s, "error")
  /\ UNCHANGED <<schemaMap, tableMap, temp, tx>>

\* dropTable.  A temporary table goes at once; for another one the engine drops it,
\* under the spelling of this statement, and the entry follows after an await.
DropTable(s, d, n) ==
  /\ Call(s)
  /\ \/ /\ LcKey(d, n) \in DOMAIN temp[s]
        /\ temp' = [temp EXCEPT ![s] = Without(@, LcKey(d, n))]
        /\ Answer(s, "ok")
        /\ UNCHANGED <<tableMap, jobs>>
     \/ /\ LcKey(d, n) \notin DOMAIN temp[s] /\ Listed(d, n)
        /\ EngineDrop(s, d, n)
        /\ Await(s, jobs, [Idle EXCEPT !.at = "dropping", !.id = clock', !.d = d, !.n = n,
                                       !.sch = schemaMap[d]])
     \/ /\ ~HasEngine(s, d, n)
        /\ Answer(s, "error")
        /\ UNCHANGED <<tableMap, temp, jobs>>
  /\ UNCHANGED <<schemaMap, tables, tx>>

Dropped(s) ==
  LET me == stmt[s] IN
    /\ Turn(s, "dropping")
    /\ tables' = [tables EXCEPT ![me.sch] = Without(@, Lower[me.n])]
    /\ Answer(s, "ok")
    /\ jobs' = Tail(jobs)
    /\ UNCHANGED <<schemaMap, tableMap, temp, tx, clock>>

-----------------------------------------------------------------------------
(* Statements that use the tables; MemoryTx has them in detail *)

Begin(s) ==
  /\ client.begins
  /\ Call(s)
  /\ tx' = [tx EXCEPT ![s] = IF @.open THEN @ ELSE [NoTx EXCEPT !.open = TRUE]]
  /\ Answer(s, "ok")
  /\ UNCHANGED <<schemaMap, tables, tableMap, temp, jobs>>

\* updateTableData of one entry of a TxMap, by name and as a whole
Update(f, s, data, own) ==
  [k \in DOMAIN f |->
     IF k \in DOMAIN data /\ (own <=> k \in DOMAIN temp[s])
     THEN [f[k] EXCEPT !.rows = data[k]] ELSE f[k]]

Install(s) ==
  /\ tableMap' = Update(tableMap, s, tx[s].data, FALSE)
  /\ temp' = [temp EXCEPT ![s] = Update(@, s, tx[s].data, TRUE)]

Commit(s) ==
  /\ client.begins
  /\ Call(s)
  /\ IF tx[s].data = Empty
     THEN /\ tx' = [tx EXCEPT ![s] = NoTx]
          /\ Answer(s, "ok")
          /\ UNCHANGED <<tableMap, temp, jobs>>
     ELSE /\ Install(s)
          /\ Await(s, jobs, [Idle EXCEPT !.at = "clearing", !.id = clock'])
          /\ UNCHANGED tx
  /\ UNCHANGED <<schemaMap, tables>>

\* INSERT: insertRowList runs at once, in the transaction that run() starts or finds
Insert(s, d, n) ==
  LET open == IF tx[s].open THEN tx[s] ELSE [NoTx EXCEPT !.open = TRUE, !.auto = TRUE]
  IN /\ Call(s)
     /\ HasEngine(s, d, n) /\ Stored(s, d, n)
     /\ tx' = [tx EXCEPT ![s] =
          [open EXCEPT !.data = With(@, <<d, n>>, View(s, d, n) \cup {clock'})]]
     /\ IF open.auto
        THEN Await(s, jobs, [Idle EXCEPT !.at = "installing", !.id = clock'])
        ELSE Answer(s, "ok") /\ UNCHANGED jobs
     /\ UNCHANGED <<schemaMap, tables, tableMap, temp>>

Installed(s) ==
  /\ Turn(s, "installing")
  /\ Install(s)
  /\ Await(s, Tail(jobs), [stmt[s] EXCEPT !.at = "clearing"])
  /\ UNCHANGED <<schemaMap, tables, tx, clock>>

Cleared(s) ==
  /\ Turn(s, "clearing")
  /\ tx' = [tx EXCEPT ![s] = NoTx]
  /\ Answer(s, "ok")
  /\ jobs' = Tail(jobs)
  /\ UNCHANGED <<schemaMap, tables, tableMap, temp, clock>>

-----------------------------------------------------------------------------
Issue(s) ==
  \/ \E d \in client.databases : CreateDatabase(s, d) \/ DropDatabase(s, d)
  \/ \E d \in client.databases, n \in client.names, is_temp \in BOOLEAN :
       \/ \E pk \in BOOLEAN : CreateTable(s, d, n, is_temp, pk)
       \/ CreateTableAs(s, d, n, is_temp)
  \/ \E d \in client.databases, n \in client.names : DropTable(s, d, n) \/ Insert(s, d, n)
  \/ Begin(s) \/ Commit(s)

Continue(s) ==
  \/ \E fine \in BOOLEAN : SelectedAs(s, fine)
  \/ DroppedOfDatabase(s) \/ Created(s) \/ CreatedAs(s) \/ Dropped(s)
  \/ Installed(s) \/ Cleared(s)

Next == UNCHANGED client /\ \E s \in Session : Issue(s) \/ Continue(s)

Spec == Init /\ [][Next]_vars

-----------------------------------------------------------------------------
(* What the catalog and the tables promise *)

\* Between statements, every table that the schema manager lists in a database is
\* stored by the engine, under the name in the entry, and is the very table whose
\* CREATE TABLE wrote the entry: statements do not find half of a table.
ListedIsStored ==
  /\ TypeOK
  /\ jobs = <<>> =>
       \A d \in DOMAIN schemaMap : \A lc \in DOMAIN tables[schemaMap[d]] :
         LET entry == tables[schemaMap[d]][lc] IN
           /\ <<d, entry.table>> \in DOMAIN tableMap
           /\ tableMap[<<d, entry.table>>].gen = entry.gen

\* The clients write table names in lower case.  The schema manager lists a table by its
\* lower-case name and the engine stores it by the name in the statement: DROP TABLE T finds
\* the entry of t and not the rows, which stay behind, and may return in the next t.
LowerCase == \A n \in client.names : Lower[n] = n

\* Between statements, no table that is not listed keeps its rows in the engine: where
\* DROP DATABASE runs beside a CREATE TABLE, or names are spelled in two ways, one may.
NothingLeft ==
  jobs = <<>> /\ ~client.drops /\ LowerCase =>
    \A k \in DOMAIN tableMap : k[1] \in DOMAIN schemaMap /\ Listed(k[1], k[2])

\* Outside of BEGIN and COMMIT, a table, stored or temporary, shows no row of a statement
\* that was issued before the CREATE TABLE that made it: rows of a dropped table do not
\* return.  COMMIT may bring them back, for it finds its tables by name; so may an INSERT
\* whose table was dropped under another spelling and made again.
NewTableEmpty ==
  ~client.begins /\ LowerCase =>
    /\ \A k \in DOMAIN tableMap : \A r \in tableMap[k].rows : r >= tableMap[k].gen
    /\ \A s \in Session : \A k \in DOMAIN temp[s] :
         \A r \in temp[s][k].rows : r >= temp[s][k].gen
=============================================================================
