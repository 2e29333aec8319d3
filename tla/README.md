# Formal models of dynamosql

dynamosql is a MySQL-compatible query engine for Node.js that keeps its tables in
DynamoDB (the *raw* engine) or in the process (the *memory* engine).  This directory
holds TLA+ models of its own core logic, the TLC configurations that check them on
small instances, and TLAPS proofs of the theorems that hold for every instance.

All paths below are relative to `apps/dynamosql/src/`.

## 1. The system

One Node.js process, one thread.  A query runs alone from one `await` to the next;
between two awaits of a query any other query may run, of another session or of the
same one, because `Session.query()` starts each query at once (there is no queue per
connection as in node-mysql).  A handler without an await to wait for runs to its end
synchronously inside `query()`; others are spread over microtasks (`_txEach`), over
network answers (DynamoDB) and over statements (an explicit transaction).

| component | state it keeps | operations | talks to |
|---|---|---|---|
| Memory engine: rows and index (`lib/engine/memory/{insert,update,delete,select}.ts`) | per statement: a copy of `row_list` and of `primary_map` | `insertRowList`, `multipleUpdate`, `multipleDelete`, `getRowList` | storage |
| Memory engine: storage (`storage.ts`, `index.ts`, `ddl.ts`) | `g_tableMap`, `_tempTableMap` of a session, the `TxMap` of a transaction | `getTable`, `txSaveData`, `updateTableData`, `commit`, `createTable`, `dropTable` | session, transaction manager |
| Transaction manager (`lib/transaction_manager.ts`) | `Transaction`: autocommit flag, one data object per engine | `startTransaction`, `commit`, `rollback`, `run`, `_txEach` | engines, session |
| Query object, session and pool (`query.ts`, `session.ts`, `pool.ts`) | transaction slot, temporary tables, variables, time of a statement, `_isReleased`; statement list, results, events | `query`, `run`, `release`, `getConnection` | every handler |
| INSERT, UPDATE, DELETE handlers (`lib/*_handler.ts`, `helpers/select_modify.ts`, `engine_groups.ts`) | locals across awaits: selected rows, computed cells | `query` | transaction manager, engines |
| Schema manager and DDL (`lib/schema_manager.ts`, `create_handler.ts`, `drop_handler.ts`, `alter_handler.ts`) | databases and tables by name | CREATE, DROP, ALTER | engines |
| Raw engine: DDL (`lib/engine/raw/ddl.ts`, `lib/dynamodb`) | table cache; everything else is in DynamoDB | requests and polling loops | DynamoDB |
| Raw engine: writes (`lib/engine/raw/{insert,update,delete}.ts`) | per statement: rows read, items sent, counts | PartiQL writes, batches, transactions | DynamoDB |
| Concurrency helpers (`tools/parallel_batch.ts`, `parallel_limit.ts`) | running and waiting items | `parallelBatch`, `parallelLimit` | raw engine |
| Joins (`helpers/join.ts`, `tools/drain_both.ts`) | what each join keeps, rows in flight | async generators | engines |
| SELECT (`lib/select_handler.ts`, `helpers/{group,sort,query_columns}.ts`, ...) | pages, groups, rows to be sorted, described columns | `query`, `internalQuery` | joins, expressions |
| Column references (`helpers/column_ref_helper.ts`) | maps of one statement | `resolveReferences` | handlers |
| WHERE pushdown (`helpers/convert_where`) | none | `convertWhere` | raw engine |
| Expressions, types, dates, JSON (`lib/expression`, `lib/types`, `helpers`) | none | `getValue` and the functions | handlers |
| information_schema, SHOW, SQL parser, server front end | none of their own | views, parsing, wire I/O | |

What is hard in it:

- *Interleaving.*  `session._transaction` is one slot that every query of a session
  reads and clears across awaits; memory tables are shared by all sessions and written
  back as a whole; two CREATE or DROP of a name have awaits between check and effect.
- *Stale state.*  UPDATE and DELETE select first and write after several awaits; the
  table cache of the raw engine can be filled with an answer about a dropped table; the
  columns of a result are described by its first rows; the name of a table outlives it.
- *Partial failure.*  Statements of many rows whose fifth part fails; requests that fail
  after they took effect.
- *Protocol.*  Positions in `primary_map` must follow each removal, key change and
  replacement in `row_list`; events and the callback of a query come in an order.
- *Order of arrival.*  Joins consume two asynchronous sources at once and mark rows as
  sent in objects that other generators hold.
- *Polling* for table and index states.
- *Two evaluators.*  A WHERE clause is said a second time in PartiQL, where types, NULL
  and absent attributes compare differently.
- *Edges of data.*  Ends of months and years, zones, values of several types in one
  column, positions in a JSON document.

What makes each component correct:

- rows and index: the index finds exactly the rows of the list, at every iteration; a
  statement does to the rows what SQL says and returns MySQL's counts, or does nothing;
- storage and transactions: a statement takes effect once and whole; BEGIN holds until
  COMMIT or ROLLBACK; nobody sees what is not committed, except its own session; what is
  rolled back never returns;
- query and session: every event once and in order, the results of all statements, one time
  for the rows of a statement;
- schema and DDL: what is listed is stored, a new table is empty, a dropped one leaves
  nothing; success is reported when it has come true, and every statement is answered;
- raw writes: the counts and the rows left behind are those `RAW_ENGINE.md` promises,
  whatever other clients write between the requests;
- joins and SELECT: exactly the rows of the FROM clause, in whatever order pages come, and
  of these what WHERE, GROUP BY, ORDER BY and LIMIT make; values as they are described;
- WHERE pushdown: no row is lost to the weaker condition at DynamoDB;
- names: each column from the table that SQL gives it to;
- expressions, dates, JSON: what MySQL says of them;
- helpers: at most the given number at a time, no success before the end.

`PROJECT.json` lists the hazards line by line with the properties that cover them.

## 2. The modules

```
KeyedTable   <--implements--  MemoryTable  <--extends-- MemoryTableProofs, MCMemoryTable
     ^ (a table of MemoryTx is a KeyedTable)
TxStore      <--implements--  TxHistory  --extends-->  MemoryTx
                              ^ extended by TxHistoryProofs, MCTx
JoinStream     <--extends-- JoinStreamProofs, MCJoin
ParallelLimit  <--extends-- HelperProofs             (the batches of RawInsert, RawModify)
ColumnRefs     <--extends-- HelperProofs, MCFunctions
SchemaDDL      <--extends-- SchemaDDLProofs, MCSchema
TableCatalog   <--extends-- TableCatalogProofs, MCCatalog
RawInsert      <--extends-- RawModify <--extends-- RawProofs, MCRaw
QuerySession   <--extends-- QuerySessionProofs, MCQuery
Values <-- Expressions <-- Conditions, SelectRows  \
                                       Dates, Json  > <--extends-- MCFunctions
```

### MemoryTable and KeyedTable

`MemoryTable` is one table as the engine stores it and the loops of `insertRowList`,
`multipleUpdate` and `multipleDelete`.

| variable | code |
|---|---|
| `table` | what `Storage.getTable` returns to the session |
| `row_list`, `primary_map` | the copies at the start of each function |
| `pending` | entries of `update_list` or `delete_list` not reached yet |
| `iter`, `affectedRows`, `changedRows` | loop counter and counts |

Each iteration is an action (`InsertRow`, `UpsertRow`, `ReplaceRow`, `IgnoreRow`,
`UpdateRow`, `DeleteRow`, `MissKey`), so that an exception (`Throw`) can hit between any
two of them; `SaveTable` is the end of the loop.  The loops contain no await: other
queries come between statements only.  SET expressions are abstracted to the rows they
can produce, any row with any key.  Keys are the JSON texts the code uses as index keys.

`KeyedTable` is the abstract table: a partial function from keys to cells and the counts
of MySQL.  `Refines` says that list and index implement it.

### MemoryTx, TxHistory and TxStore

`MemoryTx` has sessions, query slots, transactions and storage.  An action is what a query
does between two awaits.

| action | code |
|---|---|
| `Begin`, `Commit`, `Rollback` | `transaction_manager.ts` `query`, `commit`, `rollback` |
| `Issue` | handler up to `TransactionManager.run` and its first await |
| `Insert` | `insertRowList` with `txSaveData` |
| `Select`, `Modify` | `runSelect`, then `multipleUpdate` or `multipleDelete` |
| `Fail` | whatever the function given to `run` throws |
| `Finish` | the end of `run`: commit, rollback or neither |
| `ClearTx` | `setTransaction(null)` after the await in `_txEach` |
| `Release` | `Session.release`, `end`, `destroy` |

A table is the partial function of `KeyedTable`, which `MemoryTable` implements; so one
statement is one step here.  A row is the *set of statements whose effect it shows*: a
lost, doubled or resurrected write shows in it, cell values do not matter.  The number of
awaits on the way of a statement is abstracted to the places where something is read or
written; the engine functions themselves do not wait.

`TxHistory` adds what clients know: which BEGINs were acknowledged, which statements they
count on, which were committed or rolled back.  No action reads these variables.
`OneAtATime` says that each session has one slot, that is, that clients wait for their
answers; instances without it have two slots on one session.

`TxStore` is the promise.  A session asks for a statement (`Ask`: its kind, table, keys and
number), which is then refused and has done nothing (`Refuse`), or acknowledged and has done
to the latest rows what a statement of its kind does, and nothing else (`Effect`): at once
outside a transaction (`Store`), inside one for its session (`Draft`) until `Commit` or
`Rollback`.  A statement that is acknowledged and lost, or that did something it was not asked
for, is no step of `TxStore`.  `ImplementsTxStore` maps `stored` to `tables`, an open explicit
transaction to its TxMap and `asked` to the statements that are not decided (`Undecided`):
those up to their end, and in an explicit transaction up to the saving of their rows.  An
autocommit transaction is invisible until the commit of its data.

### JoinStream

`helpers/join.ts` over `tools/drain_both.ts`: a chain of generators.  Row objects live in
`heap` because the code shares them: a join keeps an object, hands it on, marks it by
adding its own table to the source map, and later copies it.  `chan[j]` is the pending
answer to `next()` of generator j; `pc`, `aDone`, `bDone` are where `drainBoth` is.  The
pages of a table are always ready, or not yet: that a page comes late is the freedom of
`TakeB` to be taken late.  A row of a table is an object in the code and is told from
others by its page and its number there, so that two rows with equal values are two.
`yielded` is a history variable: the objects each generator has yielded, with their source
maps at that moment.

| action | code |
|---|---|
| `Open`, `First` | `drainBoth` to its first callback: `next()` on both, `Promise.all` |
| `Prefetch` | `next()` on those that are not done, after the first yield |
| `TakeA`, `TakeB`, `DoneA`, `DoneB`, `Return` | the race: a batch, a page, one end, both |
| `Callback` (in all of these but `Open`, `Prefetch`, `Return`) | the callback of `_join`: `ByParent`, `ByChild`, `Finalize` |
| `Scan` | `_firstRowIter` |
| `Deliver` | the loop of `formJoin` |

`Meant` is the reference and is not taken from the code: a combination of rows is one of
the FROM clause when each joined row matches what is left of it, or is null where a LEFT
JOIN has no match in its whole table.  `Meaning` is the set of these combinations.

Left out: WHERE, which drops rows after the last join; an ON that raises an error, which
ends the query; a reader that stops early (LIMIT).

### ParallelLimit

`timesLimit` of `tools/parallel_limit.ts`, which sends the batches of a raw statement.
`i`, `running`, `stop` are its locals and `promise` what its caller sees; `flying` are
requests on their way, `good` and `bad` those whose `_done` or `_catch` is still to run,
`applied` what DynamoDB has done.  The callbacks may run in any order; the event loop's
own order is one of them.  The array of results of `parallelBatch` is left out: no caller
reads it.

### SchemaDDL

`schema_manager.ts` with the handlers in front of it and memory tables behind it: CREATE
and DROP DATABASE, CREATE TABLE, CREATE TEMPORARY TABLE, CREATE TABLE ... AS SELECT, DROP
TABLE, and writes and transactions that use the tables.  `jobs` is the queue of
microtasks: what follows an `await` that has nothing to wait for runs in the order in
which it was queued (`Turn`).  Only the SELECT of a CREATE ... AS SELECT may wait for the
network.  A row is the number of the statement that wrote it and `gen` the number of the
CREATE TABLE that made a table, so that a row in a later table than its own shows.
`NothingLeft` and `NewTableEmpty` are stated for clients that write names in lower case
(`LowerCase`): the catalog lists a table by its lower-case name, the engine stores it by
the name in the statement.

### TableCatalog

CREATE TABLE, DROP TABLE, ADD INDEX and DROP INDEX of `engine/raw/ddl.ts` with the loop
`_waitForTable`, and the cache of `lib/dynamodb/index.ts`.  DynamoDB is external: requests
take effect (`Serve`), tables and indexes become ACTIVE or disappear in their own time
(`TableSettles`, `IndexSettles`), answers arrive later (`Requested`, `Altering`, `Polled`,
`Described`, by what was asked), and a request fails before or after its effect (`Fail`).
`was` is a history variable.

### RawInsert and RawModify

One statement with several rows against a table that another client writes between the
requests.  `RawInsert` has INSERT, INSERT IGNORE, REPLACE and the three paths of ON
DUPLICATE KEY UPDATE; `RawModify` has UPDATE and DELETE, as one request first and as a
SELECT with transactions after a refusal (`NoSingleOperationError`).  A request for one
item and a transaction are atomic; the statements of a batch are independent, and each may be
refused for a reason of DynamoDB's own (`Refuse`).  `before` is the table at the start, which
no action reads.  `After` is the reference: the rows of the statement applied to `before` one
by one.

`KeyText` is what `_keyOf` makes of a key, its columns joined by '|'; two keys may have one
text.  Path C finds rows by it, so that `AloneExact` asks there that the keys of the statement
have different texts (`TextsDiffer`).  It is stated for tables whose items lack no attribute
(`Complete`), because path A adds to an absent column as to 0 where MySQL has NULL.

A client of `RawModify` says whether its table has one key column or two: `runSelect` never
puts a key of two columns together, so that the multiple path reads such a table and changes
nothing (`Collected`).  A constant is a number or a text (`c = 1`, `c = 'x'`) because the
single UPDATE compares the old value with the constant as it is in the statement, and only a
text can be equal to it (`ChangedOne`).

### QuerySession

`session.ts`, `pool.ts` and `query.ts`: a query runs synchronously to its first await, the
client attaches its listeners after `query()` has returned, statements follow one another
with their events, results and errors, and the callback may throw.  A statement answers with
a packet (writes, SET), with all its rows at once (SHOW) or with rows in batches (SELECT),
which nobody computes if they are neither collected nor listened to.  An event is the nth of
its statement, so that one that is missing, doubled or moved shows in the log; a collected
result holds the numbers of its rows.  The clock moves between two steps; the time of a
statement is a field of the session, as in the code, which `startStatement` leaves alone while
SET TIMESTAMP has fixed it.

### Values, Expressions, Conditions

`Values` has the JavaScript values and the conversions of `sql_conversion.ts`,
`Expressions` the operators and functions `getValue` dispatches to.  The texts are thirteen
strings which the conversions tell apart.  One of them holds a backslash: a literal is kept
as it is written and the evaluator resolves its escapes (`UnescapeLiteral`), while
`convertWhere` sends it to DynamoDB as written.  `Conditions` has the translation of a WHERE
clause into PartiQL (`convert_where`), DynamoDB's semantics of it (external: it compares
values of one type only), and the second filter.  One row stands for the table, because
no row's fate depends on another.  `Faithful` says of a condition that DynamoDB compares its
operands as the evaluator does, and `Plain` names the clauses that are translated without a
known error; `WhereIsApplied` is stated for these.  The reference, `Truth`, is written from
three-valued logic over the values of a row, not from the code.

### SelectRows

`_iterQuery` over one table: pages come one after the other through the filter, into
groups and aggregates, through ORDER BY and LIMIT; the columns are described after the
first batch with rows, and the cells are cast by that description.  Evaluations are
tabulated once for a row (`sel.values`); the reference works on all rows at once.

### ColumnRefs

`resolveReferences`: one action per reference, in the order of the code's walk, because
what a name means depends on what was resolved before it.  The maps and the columns of a
star are sets and functions, not the code's loops.  `StatementsAssumption` and
`UsingAssumption` say which statements are meant: those the parser makes, over tables that
exist, in which a column of USING is one of a table to the left, as MySQL requires.

### Dates

DATE, DATETIME, TIME and INTERVAL values as instants in hours, one action per function;
calls are chained, so that the type of a result matters to the next call.  The reference,
`RefCall`, counts Julian days and knows no instants; its weeks are MySQL's (in mode 1 those
with at least four days in the year).  `Agreed` leaves out the calls where the code is known
to differ (section 5).

### Json

Documents and paths with `last`, negative ends and ranges; one action per function, and
`trail` keeps the document between the pairs of one call.  The reference speaks of
locations: which part a path leads to (`Matches`), and that the part changed and nothing
around it (`Became`, `Entered`); it does not use the code's recursion or its index
arithmetic.

## 3. The runs

| run | question | bounds | result |
|---|---|---|---|
| `memory_table` | do list and index stay in agreement, and do they implement `KeyedTable`? | 3 keys, 2 values, 3 rows per INSERT | holds |
| `tx_contention` | two sessions on one table: does BEGIN hold, is only what is committed stored and seen, is no autocommit transaction left open? | 1 table, 1 key, 6 kinds, 2 statements each | holds |
| `tx_exclusive` | sessions with tables of their own, one hidden by a temporary one: does each statement do what it was asked for (`ImplementsTxStore`)? | 2 tables, 1 key, 6 kinds, 2 statements each | holds |
| `tx_shared` | do committed INSERTs stay when two sessions insert? | 2 keys, 1 statement each | violated |
| `join` | right rows, right multiplicity, nothing changed afterwards, an end | 2 joins of 18 combinations, 3 tables of 5 page patterns | holds |
| `join_cross_left` | the same as `NothingLost` for a LEFT JOIN behind a join without ON | 1 combination | violated |
| `parallel_limit` | never too many requests, no early success, nothing sent after an error, an end | 7 batches, 3 at a time | holds |
| `schema` | is what is listed stored, a new table empty, a dropped one gone? | 2 sessions, 4 kinds of clients with up to 6 statements | holds |
| `catalog` | is success true, the key schema current, every statement but three loops answered? | 2 sessions, 5 kinds of clients, up to 3 generations of the table | holds |
| `raw` | right results and counts alone; true counts and nobody else's columns beside others | 2 of 3 keys, two with one text; 2 or 3 rows, 2 foreign writes; 1 or 2 key columns | holds |
| `query` | every event once and in order, a result each, one time | 1 session, 2 queries of up to 2 statements, 5 texts, 2 batches of 0 or 2 rows, 1 tick | holds |
| `functions` | WHERE pushdown, logic, SELECT, described values, names, dates, JSON | see below | holds |

Why the bounds are enough to be interesting.

- `memory_table`.  Three keys: a removal from the middle of the list with rows before and
  behind, a key change onto a free key, onto a taken key, onto the key of a row still to
  be updated.  Two values: a change and a no-change.  Three rows per INSERT: the same key
  twice and a third row that fails.
- `tx_*`.  Two sessions with two statements each: one statement that opens an autocommit
  transaction and one inside BEGIN, with a commit of the other session between any two
  awaits.  One key is enough because a row is a set of statements.  `MaxStmt` is the only
  bound on length; BEGIN, COMMIT and ROLLBACK are unlimited.
- `join*`.  The second join has an upstream that is itself a join, which is where objects
  are shared.  Two rows on one page or on two, an empty page, an empty table and three
  rows on two pages with the same value twice cover no match, one match, several matches,
  duplicates and a match that comes after the first callback.
- `parallel_limit`.  Several launches at once at the start, one per answer in the middle,
  none at the end, and a failure in each of the three phases.  The code's limits are 5
  requests of 100 rows; the theorems below hold for all.
- `schema`.  The clients of a behaviour split the space: built-in and user databases; one
  name for a long time; two tables, one of them in two spellings, in a database that is
  dropped beside them; transactions over dropped and recreated tables.
- `catalog`.  A second session that deletes what the first waits for, and creates the table
  again while the first adds an index to it; and a third generation of the table, so that an
  answer can be two tables old.
- `raw`.  Two rows of one key in one statement, a key that is there and one that is not, two
  keys with one joined text, NULL and absent attributes, and a foreign write before each of
  the two phases; UPDATE and DELETE of tables with one and with two key columns.
- `query`.  A failure before the first await, in the rows of a SELECT and in the second
  statement; every kind of statement, batches with and without rows, a fixed time set and
  taken back; collected results and listeners, both, one or none; two queries that overlap or
  not.
- `functions`.  The five parts share no state; exactly one runs in a behaviour (the others
  are `Idle`), so that one configuration checks them.  About 650 WHERE clauses, negated
  and combined in pairs, over 24 rows with absent, NULL and ill-typed attributes; 12
  queries over tables of three rows in all their pagings, an empty first page included; 9
  FROM clauses with self-joins, two databases, USING and NATURAL, with references in every
  clause; 12 days around the edges of months, leap years, ISO weeks, 1970 and 1900, with
  every function, in three zones; 11 documents nested in three levels with 79 paths, every
  function with one pair and the changing ones with two.

`CHECK_DEADLOCK FALSE` stands in every run but `memory_table`: sessions end, statements are
bounded, streams, queries and calls are over at some time.

Fairness.  The memory, transaction, schema, raw write, query and function modules have
safety properties and refinements only and assume none.  `JoinStream` and `ParallelLimit`
assume `WF_vars(Next)`: the event loop runs every continuation that is ready and DynamoDB
answers every request (a failed request ends the query instead, which `JoinStream` leaves
out and `ParallelLimit` has as an answer).  `TableCatalog` assumes weak fairness of the
steps of each query, of the table and of each index: every request is answered and DynamoDB
comes to the end of what it is doing.  No order between generators, answers or sessions is
assumed.

Mutants.  Next to some definitions stands a variant marked `\* mutant:`, a plausible slip
in the code (a missing index shift, a left join without its finalization, a limit that
keeps what it skips).  Nothing refers to it; substituted for the definition it makes the
property it is paired with in `PROJECT.json` fail, which shows that the property can tell.

### What the violations show

- `tx_shared`.  `updateTableData` (`engine/memory/storage.ts:55`) replaces the whole table
  with the copy of the transaction.  Two autocommit INSERTs of different keys in two
  sessions in one tick are both acknowledged and one row is gone.
- `join_cross_left`.  `a, b LEFT JOIN c ON ...`: the copy that the first join makes of a
  parent for its second child (`join.ts:115`) carries the mark that the LEFT JOIN put on
  the original in the meantime, and is not finalized.  It needs the rows of `b` on two
  pages.  `join` covers every other combination of two joins and shows that this is the
  one that goes wrong.

## 4. The proofs

`MemoryTableProofs` proves, for every `Key`, `Val` and every `MaxList` (from
`MaxListAssumption` alone):

- `TypeCorrect`, `IndexAlwaysOK`, `PendingAlwaysIntact`, from the inductive invariant

      IInv == TypeOK /\ IndexOK /\ PendingMode /\ PendingIntact

  `IndexOK` is inductive only with the types; `PendingMode` (only UPDATE and DELETE have
  pending keys) is what keeps the insert loops out of `PendingIntact`.  `IndexOK` speaks
  of both directions, every row is indexed and every entry has a row: with one of them
  only, `UpdateRow` could hand a key to two rows.  The lemmas `IndexedAppend`,
  `IndexedOverwrite`, `IndexedRekey` and `IndexedRemove` are the four things the loops do
  to list and index.
- `ImplementsKeyedTable`: under `IInv` every step is a step of `KeyedTable` or a stutter.
  `MapOfAppend`, `MapOfMove` and `MapOfRemove` say what the four things do to the partial
  function the list stands for.

`TxHistoryProofs` proves, for any number of sessions, slots, tables, keys and statements
and any assignment of tables to sessions, from `ConstantsAssumption`:

- `TypeCorrect` and `NoTransactionLeaks`, also for clients that do not wait, from
  `TInv == HTypeOK /\ NoLeakedTx`: with overlapping queries too, the transaction that
  `run` opened for a statement is committed or rolled back by a query that is under way;
- `BeginAlwaysHolds`, `OnlyCommittedStored`, `OnlyOwnWritesSeen`, under `OneAtATime`, from

      IInv == /\ HTypeOK /\ CommittedOnly
              /\ \A p \in Query : Agrees(p) /\ SelectedOwn(p)
              /\ \A s \in Session : TxAgrees(s) /\ DraftOwn(s)

  `Agrees` ties what a query remembers of its transaction (`auto`) to the transaction the
  session has now and to what its client knows; it is false as soon as two queries of a
  session overlap, which is why `OneAtATime` is needed.  `DraftOwn` says that a TxMap shows
  committed statements and the session's own, `SelectedOwn` the same of rows that were
  selected earlier: they may be stale, and another session may have committed since, but
  they show nothing of a transaction that is not committed, because `done` only grows.
- `TransactionsImplementTxStore`: under `OneAtATime` and `Exclusive` (no two sessions write
  one stored table, as in the run `tx_exclusive`) initial states are mapped to initial
  states and every step to a step or a stutter.  A statement is asked for when it is issued
  and decided where it takes effect or fails; `OneEffect` says that what its rows have become
  is the effect of its kind.  Its invariant `RInv` adds to `IInv` the
  tables that exist (`Domains`, `Names`), that a transaction has data of its session's own
  tables only, and `UnderWay`: what a query between two awaits has selected or changed is
  still what its session would select now.  That is where `Exclusive` is used: an UPDATE
  that takes effect in the abstract store at its end has to find the rows it read at its
  beginning.  `tx_shared` shows that it cannot be dropped.

The first part of `HelperProofs` proves, for every number of batches and every limit above zero
(`ConstantsAssumption`; the callers pass 5): `TypeCorrect`, `AlwaysBounded`,
`SuccessAlwaysWhole`, `NeverSentAfterError`.  The inductive invariant adds to the types
where a batch can be (`Apart`), that until the first failure `running` is the number of
batches that are really active and none is forgotten (`Counted`), and what the state of
the promise says about the locals (`Reported`).  `Counted` stops at the first failure,
because `_catch` and the callbacks behind it leave `running` alone; `Reported` then bounds
what is still on its way.  The proof is an exercise in cardinalities of finite sets, from
the library's theorems about them.

The second part proves `NamesRight`, that is `NamesResolved` of `ColumnRefs` for every set
of statements (any number of tables, aliases, databases, USING and NATURAL joins, clauses
of any length) and any columns of their tables, from `StatementsAssumption` and
`UsingAssumption`.  The inductive invariant is

    NInv == /\ NamesType /\ RefusedRightly
            /\ pc \in {"walk", "done"} => Walking
            /\ pc = "done" => Finished

and what holds before the maps exist.  `Walking` says of every reference resolved so far
where it leads (`FoundRight`), and that `name_cache` is what the qualified references before
it said and nothing else (`CacheRight`).  The property itself is not inductive: the table
of a name without one is that of an earlier reference, so that the proof has to know of
the cache where each entry comes from, and that later references do not change it (`Told`:
the table is named by an earlier reference, or is the first of FROM and none named one).
`TableIs` and `DbIs` say what the maps lead to, `WalkIs` where in the walk the references of
each clause are, and `FilledIs` that the maps of FROM are the same with the databases and
the conditions of USING filled in.  That SELECT * is whole is an argument about the
leftmost table with a column: it is not joined by that column, so it shows it.  What
`FlattenSeq` returns is proved from its definition in the library (`FlattenDef`,
`FlattenHas`, `FlattenLen`), by the same induction on indices as in `RawProofs`.
`NamesResolved` promises the table of a name without one only where the code can know it
(`Evident`): raw tables declare no columns.

`QuerySessionProofs` proves, for any number of sessions and queries, scripts of any
length, any number of batches and clock changes: `TypeCorrect`, `EventsAlwaysInOrder`,
`AlwaysOneResultEach`, `AlwaysOneTime`.  The invariant says of each query, and of that query
alone, what its log and its results are (`QueryOK`: nothing before its start, `UnderWay` at
statement i, `Over` at its end).  The actions change one
query and one session, so that the other queries keep theirs.  Only `OneTime` needs a
relation between queries, `Alone`: without overlap the time of the session is that of the
statement under way.

`TableCatalogProofs` proves, for any finite set of statements and any number of tables that
have had the name: `TypeCorrect`, `AlwaysEffectReported` (an action property) and
`AlwaysCurrentKey`.  `StmtOK` says what the last answer that a statement has received still
means now: a description of "no table" is outdated by a later generation only, one that
says ACTIVE was true of that generation once (`was`).  `cache[s] <= table.gen`, and for
`AlwaysCurrentKey` that the session which is alone has a cache as new as its statement
(`OnlySession`).  `table.gen + Cardinality(Pending) <= client.gens`, the requests for a
table that have not been served included, is what bounds generations by `MaxGen`, and the
reason why the set of statements has to be finite.

`RawProofs` speaks of `AnySpec`, whose behaviours are those of `RawInsert` and of
`RawModify` both, and proves for every table, every list of rows, every key text and every
number of foreign writes: `TypeCorrect`, `AlwaysTrueCounts`, `AlwaysModifyExact`, and the
action properties `AlwaysOnlySetColumns` and `AlwaysModifyTouches`.

    IInv == Base /\ Control /\ LeftOver /\ InRange /\ Counts

`Control` ties the program counter to the path, `LeftOver` what is still to be sent to the
counter, and `Counts` says for each path how `out`, `left` and `count` agree in the middle
of the statement; the counts are cardinalities of sets of rows, and one lemma says that an
outcome changes one of them by one.  `AlwaysTrueCounts` assumes `AddsToValues`: no increment
by 0, or no item without the column.  `ModifyInv` is the invariant of an UPDATE or DELETE:
the batches partition what was found, and while nobody else has written the table is
`Applied(m.written)`.

The second half of `RawProofs` proves `AlwaysAloneExact` for every list of rows: a statement
leaves what its rows applied one by one leave, rows of one key included, and in whatever
order DynamoDB takes the statements of a batch.  `AloneInv` relates the table on each path
to `After`: path A has applied the rows before the first that is `left`; on path B each key
that was hit or inserted is as after the last row, the others as before; on path C what
`Compute` makes of the rows read is what the sequence of rows makes of them, which is where
`TextsDiffer` is needed.  `After`, `AffectedTo` and `StateAfter` are recursive functions on
0..Len(list); facts about them for all rows are proved by induction on the index, in the
form of the lemmas `Least` and `UpTo`, which follow from the library's theorem that every
set has a minimal element. The induction theorems themselves take an operator and cannot be
used here.

`JoinStreamProofs` proves, for every number of joins, every FROM clause and every paging
of the tables, from `ConstantsAssumption`: `TypeCorrect`, `AlwaysNothingWrong`, and
`AlwaysNothingLost` for FROM clauses without a LEFT JOIN behind a join without ON.  The
inductive invariant `IInv` (lemma `Invariance`) says

- who waits for whom (`Control`), and that a join keeps the rows it has read of its table,
  each once (`ChildrenKept`);
- `SentOK(t)`: what generator t has yielded keeps the rows of the tables 0..t, and no two of
  these objects agree on them.  Only these entries of a source map count; those of tables
  further right are marks;
- `Passed`: an object that appears in the history of two generators was taken by every
  join in between, so that nobody marks an object for a join it has not come to;
- `ParentsKept(j)`: what a join keeps is what it has taken, with ON none of it is
  downstream, and a parent that has met its match has the mark;
- `From(j)` and `Whole(j)`: a row that join j yields is a row it took with a child that
  matches, or with null at the end of a LEFT JOIN if none matches; every parent taken was
  joined with every matching child read;
- `MarksOwn(j)`, for a LEFT JOIN with no join without ON on its left: a mark of j is found
  on what j has taken only, and stands for a match.

The last is what `AlwaysNothingLost` needs its hypothesis for: a join without ON copies
objects together with the marks that others put on them, and `join_cross_left` shows that
the theorem is false without it.  `AlwaysNothingWrong` needs no hypothesis, because a wrong
mark loses a row and invents none.

The argument about the callback is one lemma, `Extend`, on the set M of pairs of parent
and child joined so far: an object is as it was or marked with something in M, what is in M
was sent, what was sent is in M, each once (`Joined`).  The four loops extend M pair by
pair (`ByParentIs`, `ByChildIs`, `FinalizeIs`), `CallbackIs` puts them together, and
`CallbackKeeps` is the one lemma behind the actions that call it; `SameKeeps` is behind
those that do not.  That the null row of an early finalization is never contradicted
follows from `bDone`: the table was read to its end.

`SchemaDDLProofs` proves, for any sessions, databases, names and numbers of statements, from
`ConstantsAssumption`: `TypeCorrect`, `AlwaysListedIsStored`, `AlwaysNothingLeft`,
`AlwaysNewTableEmpty`, from `IInv == Catalog /\ Names /\ Rows` (theorem `Invariance`).  A table
and its entry in the catalog change at different times: the engine's table when the
statement is called, the entry in a microtask.  What the catalog will say is therefore in
the queue.

- `Catalog`: a statement that waits has one job in `jobs`; of those that wait for one entry
  the first does the opposite of what the catalog shows (`Alternates`), so that they
  create and drop in turn; the last of them has left the table as the entry will be
  (`LastIsStored`), and if none waits the table is as the entry is (`EntryIsStored`).
  `Stale` is about a DROP DATABASE that another one and a CREATE DATABASE have overtaken:
  it finds nothing in the new database because all CREATE TABLE there are behind it.  The
  order of the queue is what all this rests on: with another one, `Alternates` fails.
- `Names`: under `LowerCase`, a table that is listed and stored is not about to be dropped
  (`ListedStays`), and without DROP DATABASE one that is stored is or will be listed
  (`Kept`).
- `Rows`: an INSERT that waits for its commit is in the queue ahead of any statement that
  drops its table (`InsertSafe`), so that it cannot write into a later one.

What the proofs changed in the models.  Several invariants that held on the instances
were not true of every instance, and each time it was something in the code: an increment by
0 counts as no change on path A (`CountA`); an item may lack the column that SET changes
(`Complete`, `AddsToValues`) or the one that it does not (`OnlySetColumns`); two spellings of
a name leave rows behind (`LowerCase`).  The instances have those cases now: a client of
`MCSchema` writes a name in two spellings, and `MCRaw` has increments by 0 and items that
lack a column.  `JoinStream` named rows by their values at first; two equal rows were then
one, and no invariant could say that each is joined once.

Model-checked only:

- the liveness properties `Terminates` (joins), `Settles` (batches) and
  `EveryStatementEnds` (raw DDL), out of the prover's reach;
- the run `functions` but for `NamesResolved`: `Conditions`, `SelectRows` and `Json` compare
  recursive definitions over rows, expressions and documents, and say so with RECURSIVE
  operators, which the prover does not take; `Dates` compares two ways to count days,
  by estimates that are divided by 146097 and corrected, and no proof of it was attempted.

Each of the proved properties is also an invariant or property of a run.

## 5. Known divergences

Where the code differs from MySQL in a way the models show or met, the properties leave
the case out, and say so where they do.  The models have the code's behaviour.

Concurrency and statements:

- Overlapping queries of one session (`transaction_manager.ts:112`): a COMMIT sent right
  behind a ROLLBACK, without waiting, installs the data of the rolled-back transaction,
  because `_txEach` clears the slot after its await.  `BeginHolds` and its kin are stated
  for clients that wait, `OneTime` for sessions without overlap (`session.ts:280`).
- COMMIT finds its tables by name (`storage.ts:50`): rows written before a DROP and CREATE
  come back.  CREATE TABLE ... AS SELECT inserts outside `TransactionManager.run`
  (`create_handler.ts:225`), and a memory table gets no rows.
- A table is listed by its lower-case name and stored by the name in the statement
  (`schema_manager.ts`): DROP TABLE in another spelling takes the entry and leaves the rows.
- A table of DynamoDB dropped by another session stays in the cache of key schemas, and an
  answer about it that is on its way is cached after the drop (`dynamodb/index.ts:23`):
  `UsesCurrentKey` is stated for a session alone.
- DROP INDEX polls until the index is ACTIVE (`raw/ddl.ts:196`), which it never is again.  ADD
  INDEX polls for ever when its table is dropped and created again meanwhile, or when a DROP
  INDEX of another session removes the index before a poll has seen it
  (`raw/ddl.ts:192-199`).  `EveryStatementEnds` excepts these.
- `c = c + 1` of an item without the column is 1 on path A of the raw engine and NULL in
  MySQL; an increment by 0 counts as no change.
- Path C of ON DUPLICATE KEY UPDATE takes keys such as ('a|b', 'c') and ('a', 'b|c') for one,
  since it joins the columns by '|' (`insert_handler.ts:378`), and updates the wrong item.
- UPDATE and DELETE that need more than one request change no row of a table with two key
  columns, and report success: `runSelect` asks for the key that it is about to make
  (`select_modify.ts:84`).
- changedRows of a single UPDATE that sets a number is 1 even if the value was there: the
  number is compared with a text (`raw/update.ts:61-62`).  The multiple path counts all rows.
- When results are not collected, a SELECT or SHOW adds nothing to the results, so that
  err.index is too low behind one (`query.ts:135-166`).  `OneResultEach` says what they hold.
- A throwing callback is called a second time with its own error (`session.ts:273`); no
  property speaks of the calls.
- UPDATE over tables or engines leaves the first changed when the second fails
  (`update_handler.ts:136`, `memory/update.ts:97`).

WHERE and evaluation (`convert_expression.ts`, `compare.ts`):

- A part that cannot be said in PartiQL counts as true.  Under NOT, and in a comparison, IS or
  IN, that makes the condition stronger: a clause with AND, OR or IN in such a place may lose
  rows, which the second filter does not bring back.
- A text literal is sent as it is written (`convert_where.ts:55-58`) and evaluated with its
  escapes resolved (`evaluate.ts:464`): a SELECT, UPDATE or DELETE that compares a column with
  a text that holds a backslash misses its rows.
- NOT over AND or OR negates the first part only (`:256`); a literal NULL ends an IN list
  (`:118`); literals of another type are not coerced by DynamoDB; in a single UPDATE or
  DELETE `!=`, NOT and IS NOT NULL hold of absent attributes; a LEFT JOIN's table gets no
  condition at all, which only costs time.
- Two bigints compare as texts (`compare.ts:191`); NULLIF ignores collations (`:121`);
  BETWEEN with one NULL bound is NULL where it could be false.

SELECT:

- HAVING is never applied; an aggregate over no rows yields no row; `1 + COUNT(*)` is no
  aggregate (`group.ts:152`); GROUP BY puts NULL and 'null' together and ignores
  collations; SUM is NULL as soon as one value is; ORDER BY goes by the type of the left
  operand and the collation of the first row.
- A column is described by its first batch (`select_handler.ts:86`); `SELECT *` of a raw
  table has the columns of the first page (`raw/select.ts:75`).
- The owner of a USING column is the first table of FROM even if it does not have the
  column (`column_ref_helper.ts:140`).

Dates (`sql_interval.ts`, `sql_conversion.ts`):

- 29 February plus a month or year into a common year is the first of the month (`:241`);
  30 and 31 February are read as days of March; DATE and TIME of an hour before 1970 fall
  on the next day (`sql_date.ts:23`); DATE_ADD of a DATE value and HOUR of a DATE are NULL.
- East of UTC, DATE_ADD of a date text loses a day and TO_DAYS is one less; DATEDIFF,
  months and names of days go by the day in UTC.
- WEEK(d, 1) is one too low in years that begin on a Tuesday, Wednesday or Thursday: week 1
  begins with the first Monday (`func_date_calc.ts:275`), in MySQL with the week that has
  four days in the year.
- The time of a text that has no hour, or is no date, is the number it begins with read as
  hhmmss (`sql_conversion.ts:223`): TIME('9999-12-31') is 01:40:39.
- TIMESTAMPDIFF floors negative spans and ignores days in months; WEEKOFYEAR of an hour
  after midnight in years that begin on a Friday can be one too high.

JSON: JSON_ARRAY_INSERT does not take a scalar for an array of one, as the other functions
do.

## 6. Not modelled

- information_schema and SHOW: views over the other components.  The SQL parser: a vendored
  grammar.  The server front end: wire I/O around the library (a session is not released
  when its connection ends).
- String, byte, hash and floating-point functions, LIKE and REGEXP, user variables: pure
  functions of texts that the abstraction of texts to a handful of strings cannot tell apart.
- Minutes, seconds and fractions, daylight saving; JSON_SEARCH and schema validation.
- WHERE after the joins, an ON that raises an error, and a reader that stops a join early.
- Statements that change several tables; DynamoDB's throttling and its eventual
  consistency, which the code does not handle.

## 7. Plan

In this order.

1. Statements over several tables: UPDATE and DELETE of joined tables in both engines.
2. A reader that stops early: LIMIT in front of `JoinStream`.
3. Proofs about `Conditions`: first its evaluation as a recursive function on the depth of
   an expression, then `WhereIsApplied`.
