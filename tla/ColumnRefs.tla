----------------------------- MODULE ColumnRefs -----------------------------
(***************************************************************************)
(* Which table a column name means (helpers/column_ref_helper.ts).  The    *)
(* tables of a raw engine have no declared columns, so that a name without *)
(* a table goes, in this order, to a column of the result (ORDER BY and    *)
(* HAVING only), to the first table of a USING, to the table some earlier  *)
(* reference named for it, or to the first table of FROM.                  *)
(*                                                                         *)
(* What is resolved decides what is read: the engine is asked for the      *)
(* columns of requestSets, or for all.                                     *)
(***************************************************************************)
EXTENDS Integers, Sequences, FiniteSets, SequencesExt, FiniteSetsExt

CONSTANTS
    Statements,   \* a set of Statement: database is the current one, targets those of a
                  \* DELETE, set that of an UPDATE
    ColumnsOf     \* of each <<database, table>>, a sequence of names

\* A name that may be left out, a reference <<database, table, column>>, a table of FROM.
Optional == {""} \cup STRING
Reference == {ref \in Optional \X Optional \X STRING : ref[1] # "" => ref[2] # ""}
FromEntry == [db : Optional, table : STRING, as : Optional, join : Optional,
              on : Seq(Reference), using : Seq(STRING)]
Statement == [database : Optional, from : Seq(FromEntry),
              columns : Seq([ref : Reference, as : Optional]), targets : Seq(Optional \X STRING),
              set : Seq([ref : Reference, reads : Seq(Reference)]),
              where : Seq(Reference), group : Seq(Reference), order : Seq(Reference)]

\* the database of a table, which is the current one if the statement names none
DbOf(st, i) == IF st.from[i].db = "" THEN st.database ELSE st.from[i].db

\* What the parser makes of a statement: one table or more, no USING at the first, no * in
\* ORDER BY.  The tables exist.
ASSUME StatementsAssumption ==
    \A st \in Statements :
        /\ st \in Statement
        /\ st.from # <<>> /\ st.from[1].using = <<>>
        /\ \A k \in DOMAIN st.order : st.order[k][3] # "*"
        /\ \A i \in DOMAIN st.from :
               DbOf(st, i) # "" => ColumnsOf[<<DbOf(st, i), st.from[i].table>>] \in Seq(STRING)

\* MySQL takes them: a column of USING is one of a table to its left.
ASSUME UsingAssumption ==
    \A st \in Statements : \A i \in DOMAIN st.from : \A c \in Range(st.from[i].using) :
        \E j \in 1..(i - 1) : DbOf(st, j) # "" =>
            c \in Range(ColumnsOf[<<DbOf(st, j), st.from[j].table>>])

VARIABLE names
\* tables and dbs are table_map and db_map, with places in FROM for entries;
\* using is using_owners, cache name_cache, sets and all the requests, found
\* columnRefMap by the place of the reference in the walk.

-----------------------------------------------------------------------------
(* The tables and the references of a statement.                           *)

Ref(table, column) == <<"", table, column>>
NameOf(entry) == IF entry.as # "" THEN entry.as ELSE entry.table
Update(f, key, value) == [x \in DOMAIN f \cup {key} |-> IF x = key THEN value ELSE f[x]]

\* table_map: the last table of an alias, or else the first table of a name without one.
TableMap(from) ==
    [name \in {NameOf(from[i]) : i \in DOMAIN from} |->
        LET aliased == {i \in DOMAIN from : from[i].as # "" /\ from[i].as = name}
            plain   == {i \in DOMAIN from : from[i].as = "" /\ from[i].table = name}
        IN  IF aliased # {} THEN Max(aliased) ELSE Min(plain)]
\* db_map: the last table of a name in a database without an alias.
DbMap(from) ==
    LET plain == {i \in DOMAIN from : from[i].as = ""}
    IN  [key \in {<<from[i].db, from[i].table>> : i \in plain} |->
            Max({i \in plain : <<from[i].db, from[i].table>> = key})]

\* FROM with the database of every table.
Filled(st) == [i \in DOMAIN st.from |-> [st.from[i] EXCEPT !.db = DbOf(st, i)]]

\* The references of the condition a USING stands for.
buildUsingCondition(from, i, columns) ==
    FlattenSeq([k \in DOMAIN columns |->
        [j \in 1..i |-> Ref(NameOf(from[j]), columns[k])]])

Joined(from) == [i \in DOMAIN from |->
    IF i > 1 /\ from[i].using # <<>>
    THEN [from[i] EXCEPT !.on = buildUsingCondition(from, i, from[i].using)] ELSE from[i]]

Natural(entry) == entry.join \in {"NATURAL", "NATURAL LEFT"}

\* The references in the order in which they are resolved.  Those of ORDER BY
\* and HAVING may mean a column of the result.
Walk(st) ==
    LET Plain(refs) == [k \in DOMAIN refs |-> [ref |-> refs[k], aliases |-> FALSE]]
    IN  Plain(FlattenSeq([i \in DOMAIN st.from |-> st.from[i].on]))
        \o Plain([k \in DOMAIN st.columns |-> st.columns[k].ref])
        \o Plain(st.where)
        \o Plain(FlattenSeq([k \in DOMAIN st.set |-> Append(st.set[k].reads, st.set[k].ref)]))
        \o Plain(st.group)
        \o [k \in DOMAIN st.order |-> [ref |-> st.order[k], aliases |-> TRUE]]

\* The place in the select list a name stands for, 0 if none: the last of it.
ResultIndex(st, column) ==
    Max({0} \cup {k \in DOMAIN st.columns :
        column = IF st.columns[k].as # "" THEN st.columns[k].as ELSE st.columns[k].ref[3]})

-----------------------------------------------------------------------------
(* Resolution.                                                             *)

NamesInit ==
    \E st \in Statements :
        names = [pc |-> "tables", st |-> st, err |-> "", tables |-> <<>>, dbs |-> <<>>,
                 using |-> <<>>, cache |-> <<>>, sets |-> [i \in DOMAIN st.from |-> {}],
                 all |-> {}, found |-> <<>>, targets |-> <<>>, result |-> <<>>]

Fail(err) == names' = [names EXCEPT !.pc = "failed", !.err = err]

\* The tables of FROM, the owners of the columns of USING, and what a DELETE
\* deletes from.
Tables ==
    /\ names.pc = "tables"
    /\ LET from == Joined(Filled(names.st))
           tables == TableMap(from)
           dbs == DbMap(from)
           joinedBy == UNION {Range(from[i].using) : i \in 2..Len(from)}
           Entry(t) == IF t[1] # "" THEN IF t \in DOMAIN dbs THEN dbs[t] ELSE 0
                       ELSE IF t[2] \in DOMAIN tables THEN tables[t[2]] ELSE 0
           entries == [k \in DOMAIN names.st.targets |-> Entry(names.st.targets[k])]
       IN  IF \E i \in DOMAIN from : from[i].db = "" THEN Fail("no_current_database")
           ELSE IF 0 \in Range(entries) THEN Fail("table_not_found")
           ELSE names' = [names EXCEPT
                    !.pc = "walk", !.st.from = from, !.tables = tables, !.dbs = dbs,
                    !.using = [c \in joinedBy |-> 1], !.targets = entries,
                    !.all = IF \E i \in DOMAIN from : Natural(from[i]) THEN DOMAIN from ELSE {}]

\* SELECT *, t.* and db.t.*
ResolveStar(ref) ==
    LET from == names.st.from
        named == {i \in DOMAIN from : NameOf(from[i]) = ref[2]}
        found == IF ref[1] # ""
                 THEN IF <<ref[1], ref[2]>> \in DOMAIN names.dbs
                      THEN {names.dbs[<<ref[1], ref[2]>>]} ELSE {}
                 ELSE IF ref[2] # "" THEN IF named = {} THEN {} ELSE {Min(named)}
                 ELSE DOMAIN from
    IN  IF found = {} THEN Fail("table_not_found")
        ELSE names' = [names EXCEPT !.all = @ \cup found, !.found = Append(@, <<"star">>)]

\* mutant: what was named before goes before the tables of a USING.
OwnerCacheFirst(column) ==
    IF column \in DOMAIN names.cache THEN names.cache[column]
    ELSE IF column \in DOMAIN names.using THEN names.using[column] ELSE 1

\* The table of a name without one.
Owner(column) ==
    IF column \in DOMAIN names.using THEN names.using[column]
    ELSE IF column \in DOMAIN names.cache THEN names.cache[column] ELSE 1

\* mutant: only a name that is qualified is asked for.
RequestQualified(i, ref) == IF ref[2] = "" THEN names.sets
                            ELSE [names.sets EXCEPT ![i] = @ \cup {ref[3]}]

Request(i, ref) == [names.sets EXCEPT ![i] = @ \cup {ref[3]}]

ResolveColumn(ref, aliases) ==
    LET index == ResultIndex(names.st, ref[3])
        i == IF ref[1] # ""
             THEN IF <<ref[1], ref[2]>> \in DOMAIN names.dbs
                  THEN names.dbs[<<ref[1], ref[2]>>] ELSE 0
             ELSE IF ref[2] # ""
             THEN IF ref[2] \in DOMAIN names.tables THEN names.tables[ref[2]] ELSE 0
             ELSE Owner(ref[3])
    IN  IF ref[2] = "" /\ aliases /\ index # 0
        THEN names' = [names EXCEPT !.found = Append(@, <<"result", index>>)]
        ELSE IF i = 0
        THEN Fail(IF ref[1] # "" /\ ~\E d \in DOMAIN names.dbs : d[1] = ref[1]
                  THEN "db_not_found" ELSE "table_not_found")
        ELSE names' = [names EXCEPT
                 !.found = Append(@, <<"table", i>>), !.sets = Request(i, ref),
                 !.cache = IF ref[2] = "" THEN @ ELSE Update(@, ref[3], i)]

Resolve ==
    /\ names.pc = "walk"
    /\ Len(names.found) < Len(Walk(names.st))
    /\ LET step == Walk(names.st)[Len(names.found) + 1]
       IN  IF step.ref[3] = "*" THEN ResolveStar(step.ref)
           ELSE ResolveColumn(step.ref, step.aliases)

ColumnsAt(i) == ColumnsOf[<<names.st.from[i].db, names.st.from[i].table>>]
HasColumn(i, column) == column \in Range(ColumnsAt(i))

\* The columns that a table is joined by: those of USING, or those that both sides of a
\* NATURAL join have, once the rows are asked for.
JoinedBy(i) ==
    IF i > 1 /\ Natural(names.st.from[i])
    THEN {c \in Range(ColumnsAt(i)) : \E j \in 1..(i - 1) : HasColumn(j, c)}
    ELSE Range(names.st.from[i].using)

\* What a star shows of a table: t.* all of it, * not what it is joined by.
StarColumns(i, qualified) ==
    FlattenSeq([k \in DOMAIN ColumnsAt(i) |->
        IF qualified \/ ColumnsAt(i)[k] \notin JoinedBy(i) THEN <<<<i, ColumnsAt(i)[k]>>>> ELSE <<>>])
ExpandStar(ref) ==
    FlattenSeq([i \in DOMAIN names.st.from |->
        IF ref[2] = "" \/ NameOf(names.st.from[i]) = ref[2] THEN StarColumns(i, ref[2] # "") ELSE <<>>])

\* The references of ON are resolved before those of the select list.
OnRefs(st) == Len(FlattenSeq([i \in DOMAIN st.from |-> st.from[i].on]))
Shown(k) ==
    LET found == names.found[OnRefs(names.st) + k]
        ref   == names.st.columns[k].ref
    IN  IF found = <<"star">> THEN ExpandStar(ref) ELSE <<<<found[2], ref[3]>>>>

Columns ==
    /\ names.pc = "walk"
    /\ Len(names.found) = Len(Walk(names.st))
    /\ names' = [names EXCEPT !.pc = "done",
                      !.result = FlattenSeq([k \in DOMAIN names.st.columns |-> Shown(k)])]

NamesNext == Tables \/ Resolve \/ Columns
NamesSpec == NamesInit /\ [][NamesNext]_names

-----------------------------------------------------------------------------
(* Properties.                                                             *)

\* The entries of FROM a qualified reference may mean.
Named(ref) == {i \in DOMAIN names.st.from :
    IF ref[1] # "" THEN /\ names.st.from[i].as = ""
                        /\ <<ref[1], ref[2]>> = <<names.st.from[i].db, names.st.from[i].table>>
    ELSE NameOf(names.st.from[i]) = ref[2]}

\* MySQL would take the statement: names of tables are unique, a qualified name
\* exists, and one without a table is a column of one table only or of USING.
SharedBy(column) == {i \in DOMAIN names.st.from : column \in Range(names.st.from[i].using)}
Legal(ref) ==
    IF ref[3] = "*" THEN ref[2] = "" \/ Named(ref) # {}
    ELSE IF ref[2] # ""
    THEN Cardinality(Named(ref)) = 1 /\ HasColumn(CHOOSE i \in Named(ref) : TRUE, ref[3])
    ELSE \/ Cardinality({i \in DOMAIN names.st.from : HasColumn(i, ref[3])}) = 1
         \/ SharedBy(ref[3]) # {} /\ HasColumn(1, ref[3])

\* Such a name can be resolved without a schema: the first table has it, or an
\* earlier reference says which one does.
Evident(walk, n) ==
    LET column == walk[n].ref[3]
    IN  HasColumn(1, column) \/ \E m \in 1..(n - 1) :
            walk[m].ref[2] # "" /\ walk[m].ref[3] = column

\* The table whose column such a name is.
Meant(ref) ==
    IF ref[2] # "" THEN CHOOSE i \in Named(ref) : TRUE
    ELSE IF SharedBy(ref[3]) # {} THEN 1
    ELSE CHOOSE i \in DOMAIN names.st.from : HasColumn(i, ref[3])

\* The place of a name among the results, of an alias or a column shown.
Aliased(step) ==
    /\ step.aliases /\ step.ref[2] = ""
    /\ ResultIndex(names.st, step.ref[3]) # 0

\* Statements that are refused name something FROM does not have, and all of
\* those that do are refused.
RefusedRightly ==
    LET walk == Walk(names.st)
    IN  names.pc = "failed" =>
            \/ \E n \in DOMAIN walk : walk[n].ref[2] # "" /\ Named(walk[n].ref) = {}
            \/ \E t \in Range(names.st.targets) : Named(<<t[1], t[2], "">>) = {}
            \/ names.st.database = "" /\ \E entry \in Range(names.st.from) : entry.db = ""

\* Every name of a legal statement is read from the table it belongs to, or is
\* the column of the result it names; every column that is read is asked for.
NamesAreTables ==
    LET walk == Walk(names.st)
    IN  names.pc = "done" => \A n \in DOMAIN walk :
            LET ref == walk[n].ref
                found == names.found[n]
            IN  /\ ref[2] # "" => Named(ref) # {}
                /\ found[1] = "table" =>
                       /\ names.sets[found[2]] = {} \/ found[2] \in names.all
                              \/ ref[3] \in names.sets[found[2]]
                       /\ (Legal(ref) /\ (ref[2] # "" \/ Evident(walk, n))
                              /\ \A m \in 1..(n - 1) : Legal(walk[m].ref))
                              => found[2] = Meant(ref)
                /\ (Aliased(walk[n]) /\ \A k \in DOMAIN names.st.columns : names.st.columns[k].ref[3] # "*")
                       => found[1] = "result" /\ found[2] \in DOMAIN names.result

\* SELECT * shows the columns of all tables, those joined by USING or NATURAL
\* once, from the left.
StarIsWhole ==
    (names.pc = "done" /\ Ref("", "*") \in {column.ref : column \in Range(names.st.columns)})
        => \A i \in DOMAIN names.st.from : \A c \in Range(ColumnsAt(i)) :
               LET by == names.st.from[i]
                   shared == \/ c \in Range(by.using)
                             \/ Natural(by) /\ \E j \in 1..(i - 1) : HasColumn(j, c)
               IN  \/ <<i, c>> \in Range(names.result)
                   \/ shared /\ \E j \in 1..(i - 1) : <<j, c>> \in Range(names.result)

\* A column name is read from the table SQL gives it to, and is asked for there
\* (resolveReferences and _resolveObject, column_ref_helper.ts:91-361): in every
\* clause, with aliases, databases, USING and NATURAL joins; statements are
\* refused for names of tables that FROM does not have, and SELECT * shows a
\* joined column once.
NamesResolved == names.pc # "idle" => RefusedRightly /\ NamesAreTables /\ StarIsWhole
=============================================================================
